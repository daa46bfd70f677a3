-------------------------- MODULE SigSessionProofs --------------------------
(***************************************************************************)
(* Proofs about SigSession for any devices, any number of captures and any *)
(* queue length. The first part holds for every caller, the second for a   *)
(* caller that lets each start complete (CallerWaits).                     *)
(***************************************************************************)
EXTENDS SigSession, SequenceTheorems, TLAPS

Starts == {"start", "start_instant"}

(* A start that is under way has a device and a capture number left. *)
StartInv ==
    /\ at = "spawn" => call \in Starts
    /\ at \in {"stop", "sr_stop", "join", "spawn"} /\ call \in Starts
          => dev_inst \in Devices /\ captures < MaxCaptures

(* What the device, its owner and libsigrok's session are at every step of
   set_device() and of the destructor. *)
DeviceInv ==
    /\ owned = {dev_inst} \ {NoDevice}
    /\ Alive /\ at \in {"sr_destroy", "clear", "use", "gone"} => dev_inst = NoDevice
    /\ Alive /\ at # "sr_destroy"
          => sr.alive = (dev_inst # NoDevice) /\ sr.dev = dev_inst
    /\ sr.callback => sr.alive

AnyInv == TypeOK /\ StartInv /\ DeviceInv /\ RunningIsSampled

(* Why a caller that waits for each start has one sampling thread at most: no
   start is pending inside a method, the one live thread is the last capture
   and the current handle, it has reported Running, and so a method that goes
   on after "not Running" or after the join goes on with no thread left. *)
PatientInv ==
    /\ at # "idle" => Starting = {}
    /\ Live \subseteq {captures} /\ OneSampler
    /\ \A t \in Live \ Starting : capture_state = "Running"
    /\ at \in {"spawn", "sr_destroy", "clear", "use", "gone"} => Live = {}
    /\ CaptureKeepsDevice

(* Queued packets come from captures that were started, oldest first. *)
QueueInv ==
    /\ \A i \in 1..Len(dso_queue) : dso_queue[i] <= captures
    /\ QueuedByCapture

----------------------------------------------------------------------------
(* Typing, together with what start_capture() checked before it spawns. *)
LEMMA TypeInductive == TypeOK /\ StartInv /\ [Next]_vars => (TypeOK /\ StartInv)'
<1> SUFFICES ASSUME TypeOK, StartInv, [Next]_vars PROVE (TypeOK /\ StartInv)'
  OBVIOUS
<1> USE DeviceAssumption, SessionBoundAssumption
        DEF TypeOK, StartInv, Starts, Calls, CallerSteps, Captures, ThreadSteps,
            Sessions, NoSession, Crashes, callerVars, deviceVars, threadVars
<1>1. ASSUME NEW method \in {"start", "start_instant"}, CallStart(method) PROVE (TypeOK /\ StartInv)'
  BY <1>1 DEF CallStart, MayCall, Enter
<1>2. ASSUME CallStartUnusable PROVE (TypeOK /\ StartInv)'
  BY <1>2 DEF CallStartUnusable, MayCall
<1>3. ASSUME CallStop PROVE (TypeOK /\ StartInv)'
  BY <1>3 DEF CallStop, MayCall, Enter
<1>4. ASSUME CallInitSignals PROVE (TypeOK /\ StartInv)'
  BY <1>4 DEF CallInitSignals, MayCall, Enter
<1>5. ASSUME CallDestroy PROVE (TypeOK /\ StartInv)'
  BY <1>5 DEF CallDestroy, MayCall, Enter
<1>6. ASSUME NEW d \in Devices \cup {NoDevice}, CallSetDevice(d) PROVE (TypeOK /\ StartInv)'
  BY <1>6 DEF CallSetDevice, MayCall, Enter
<1>7. ASSUME StopCheck PROVE (TypeOK /\ StartInv)'
  <2>1. /\ AfterStop \in {"spawn", "release", "idle"}
        /\ AfterStop = "spawn" => call \in Starts
    BY DEF AfterStop
  <2>2. at' \in {"sr_stop", AfterStop}
    BY <1>7 DEF StopCheck
  <2>3. UNCHANGED <<call, new_dev, dev_inst, owned, usable, capture_state, error,
                    sampling_thread, captures, pc, dev, sr, dso_queue, crashed>>
    BY <1>7 DEF StopCheck
  <2>4. at = "stop" /\ instant' \in BOOLEAN
    BY <1>7 DEF StopCheck
  <2>5. at' \in CallerSteps
    BY <2>1, <2>2
  <2>6. TypeOK'
    BY <2>3, <2>4, <2>5
  <2>7. StartInv'
    BY <2>1, <2>2, <2>3, <2>4
  <2> QED BY <2>6, <2>7
<1>8. ASSUME SrStop PROVE (TypeOK /\ StartInv)'
  <2>1. sr' \in Sessions
    BY <1>8 DEF SrStop
  <2>2. at' = "join" /\ UNCHANGED <<call, new_dev, dev_inst, owned, usable, capture_state,
           instant, error, sampling_thread, captures, pc, dev, dso_queue, crashed>>
    BY <1>8 DEF SrStop
  <2> QED BY <1>8, <2>1, <2>2 DEF SrStop
<1>9. ASSUME StopJoin PROVE (TypeOK /\ StartInv)'
  BY <1>9 DEF StopJoin, AfterStop
<1>10. ASSUME StartCapture PROVE (TypeOK /\ StartInv)'
  BY <1>10 DEF StartCapture
<1>11. ASSUME NoProbesEnabled PROVE (TypeOK /\ StartInv)'
  BY <1>11 DEF NoProbesEnabled
<1>12. ASSUME ReleaseNull PROVE (TypeOK /\ StartInv)'
  BY <1>12 DEF ReleaseNull, Crash
<1>13. ASSUME ReleaseAssert PROVE (TypeOK /\ StartInv)'
  BY <1>13 DEF ReleaseAssert, Crash
<1>14. ASSUME ReleaseDevice PROVE (TypeOK /\ StartInv)'
  BY <1>14 DEF ReleaseDevice
<1>15. ASSUME DestroySession PROVE (TypeOK /\ StartInv)'
  BY <1>15 DEF DestroySession
<1>16. ASSUME ClearSession PROVE (TypeOK /\ StartInv)'
  BY <1>16 DEF ClearSession
<1>17. ASSUME UseNone PROVE (TypeOK /\ StartInv)'
  BY <1>17 DEF UseNone
<1>18. ASSUME UseDevice PROVE (TypeOK /\ StartInv)'
  BY <1>18 DEF UseDevice
<1>19. ASSUME UseThrows PROVE (TypeOK /\ StartInv)'
  BY <1>19 DEF UseThrows, Crash
<1>20. ASSUME NEW t \in Captures, ThreadStart(t) PROVE (TypeOK /\ StartInv)'
  <2>1. sr' \in Sessions
    BY <1>20 DEF ThreadStart
  <2> QED BY <1>20, <2>1 DEF ThreadStart, Step
<1>21. ASSUME NEW t \in Captures, ThreadStartThrows(t) PROVE (TypeOK /\ StartInv)'
  BY <1>21 DEF ThreadStartThrows, Crash
<1>22. ASSUME NEW t \in Captures, SetRunning(t) PROVE (TypeOK /\ StartInv)'
  BY <1>22 DEF SetRunning, Step
<1>23. ASSUME NEW t \in Captures, RunPacket(t) PROVE (TypeOK /\ StartInv)'
  BY <1>23 DEF RunPacket, Step
<1>24. ASSUME NEW t \in Captures, AssertSession(t) PROVE (TypeOK /\ StartInv)'
  BY <1>24 DEF AssertSession, Step
<1>25. ASSUME NEW t \in Captures, AssertSessionFails(t) PROVE (TypeOK /\ StartInv)'
  BY <1>25 DEF AssertSessionFails, Crash
<1>26. ASSUME NEW t \in Captures, DataFeedIn(t) PROVE (TypeOK /\ StartInv)'
  <2>1. Append(dso_queue, t) \in Seq(Captures)
    BY AppendProperties
  <2>2. dso_queue' \in Seq(Captures) /\ pc' \in [Captures -> ThreadSteps]
    BY <1>26, <2>1 DEF DataFeedIn, Step
  <2>3. \A u \in Captures : pc'[u] = "unused" <=> u > captures
    BY <1>26 DEF DataFeedIn, Step
  <2>4. UNCHANGED <<call, at, new_dev, dev_inst, owned, usable, capture_state, instant,
                    error, sampling_thread, captures, dev, sr, crashed>>
    BY <1>26 DEF DataFeedIn
  <2> QED BY <2>2, <2>3, <2>4
<1>27. ASSUME NEW t \in Captures, DataFeedInNull(t) PROVE (TypeOK /\ StartInv)'
  BY <1>27 DEF DataFeedInNull, Crash
<1>28. ASSUME NEW t \in Captures, RunAbort(t) PROVE (TypeOK /\ StartInv)'
  <2>1. sr' \in Sessions
    BY <1>28 DEF RunAbort
  <2> QED BY <1>28, <2>1 DEF RunAbort
<1>29. ASSUME NEW t \in Captures, RunEnds(t) PROVE (TypeOK /\ StartInv)'
  <2>1. sr' \in Sessions
    BY <1>29 DEF RunEnds
  <2> QED BY <1>29, <2>1 DEF RunEnds
<1>30. ASSUME NEW t \in Captures, RunReturn(t) PROVE (TypeOK /\ StartInv)'
  BY <1>30 DEF RunReturn, Step
<1>31. ASSUME NEW t \in Captures, RunFreed(t) PROVE (TypeOK /\ StartInv)'
  BY <1>31 DEF RunFreed, Crash
<1>32. ASSUME NEW t \in Captures, SetStopped(t) PROVE (TypeOK /\ StartInv)'
  BY <1>32 DEF SetStopped, Step
<1>33. CASE UNCHANGED vars
  BY <1>33 DEF vars
<1> QED BY <1>1, <1>2, <1>3, <1>4, <1>5, <1>6, <1>7, <1>8, <1>9, <1>10,
       <1>11, <1>12, <1>13, <1>14, <1>15, <1>16, <1>17, <1>18, <1>19, <1>20,
       <1>21, <1>22, <1>23, <1>24, <1>25, <1>26, <1>27, <1>28, <1>29, <1>30,
       <1>31, <1>32, <1>33 DEF Next,
       Caller, Method, SamplingThread, Callback, Over

----------------------------------------------------------------------------
(* Ownership of the device, followed through release and use. *)
LEMMA DeviceInductive == TypeOK /\ DeviceInv /\ [Next]_vars => DeviceInv'
<1> SUFFICES ASSUME TypeOK, DeviceInv, [Next]_vars PROVE DeviceInv'
  OBVIOUS
<1> USE DeviceAssumption
        DEF TypeOK, DeviceInv, Calls, CallerSteps, Sessions, NoSession, Alive,
            callerVars, deviceVars, threadVars
<1>1. ASSUME NEW method \in {"start", "start_instant"}, CallStart(method) PROVE DeviceInv'
  BY <1>1 DEF CallStart, MayCall, Enter
<1>2. ASSUME CallStartUnusable PROVE DeviceInv'
  BY <1>2 DEF CallStartUnusable, MayCall
<1>3. ASSUME CallStop PROVE DeviceInv'
  BY <1>3 DEF CallStop, MayCall, Enter
<1>4. ASSUME CallInitSignals PROVE DeviceInv'
  BY <1>4 DEF CallInitSignals, MayCall, Enter
<1>5. ASSUME CallDestroy PROVE DeviceInv'
  BY <1>5 DEF CallDestroy, MayCall, Enter
<1>6. ASSUME NEW d \in Devices \cup {NoDevice}, CallSetDevice(d) PROVE DeviceInv'
  BY <1>6 DEF CallSetDevice, MayCall, Enter
<1>7. ASSUME StopCheck PROVE DeviceInv'
  BY <1>7 DEF StopCheck, AfterStop
<1>8. ASSUME SrStop PROVE DeviceInv'
  BY <1>8 DEF SrStop
<1>9. ASSUME StopJoin PROVE DeviceInv'
  BY <1>9 DEF StopJoin, AfterStop
<1>10. ASSUME StartCapture PROVE DeviceInv'
  BY <1>10 DEF StartCapture
<1>11. ASSUME NoProbesEnabled PROVE DeviceInv'
  BY <1>11 DEF NoProbesEnabled
<1>12. ASSUME ReleaseNull PROVE DeviceInv'
  BY <1>12 DEF ReleaseNull, Crash
<1>13. ASSUME ReleaseAssert PROVE DeviceInv'
  BY <1>13 DEF ReleaseAssert, Crash
<1>14. ASSUME ReleaseDevice PROVE DeviceInv'
  BY <1>14 DEF ReleaseDevice
<1>15. ASSUME DestroySession PROVE DeviceInv'
  BY <1>15 DEF DestroySession
<1>16. ASSUME ClearSession PROVE DeviceInv'
  BY <1>16 DEF ClearSession
<1>17. ASSUME UseNone PROVE DeviceInv'
  BY <1>17 DEF UseNone
<1>18. ASSUME UseDevice PROVE DeviceInv'
  BY <1>18 DEF UseDevice
<1>19. ASSUME UseThrows PROVE DeviceInv'
  BY <1>19 DEF UseThrows, Crash
<1>20. ASSUME NEW t \in Captures, ThreadStart(t) PROVE DeviceInv'
  BY <1>20 DEF ThreadStart, Step
<1>21. ASSUME NEW t \in Captures, ThreadStartThrows(t) PROVE DeviceInv'
  BY <1>21 DEF ThreadStartThrows, Crash
<1>22. ASSUME NEW t \in Captures, SetRunning(t) PROVE DeviceInv'
  BY <1>22 DEF SetRunning, Step
<1>23. ASSUME NEW t \in Captures, RunPacket(t) PROVE DeviceInv'
  BY <1>23 DEF RunPacket, Step
<1>24. ASSUME NEW t \in Captures, AssertSession(t) PROVE DeviceInv'
  BY <1>24 DEF AssertSession, Step
<1>25. ASSUME NEW t \in Captures, AssertSessionFails(t) PROVE DeviceInv'
  BY <1>25 DEF AssertSessionFails, Crash
<1>26. ASSUME NEW t \in Captures, DataFeedIn(t) PROVE DeviceInv'
  BY <1>26 DEF DataFeedIn, Step
<1>27. ASSUME NEW t \in Captures, DataFeedInNull(t) PROVE DeviceInv'
  BY <1>27 DEF DataFeedInNull, Crash
<1>28. ASSUME NEW t \in Captures, RunAbort(t) PROVE DeviceInv'
  BY <1>28 DEF RunAbort
<1>29. ASSUME NEW t \in Captures, RunEnds(t) PROVE DeviceInv'
  BY <1>29 DEF RunEnds
<1>30. ASSUME NEW t \in Captures, RunReturn(t) PROVE DeviceInv'
  BY <1>30 DEF RunReturn, Step
<1>31. ASSUME NEW t \in Captures, RunFreed(t) PROVE DeviceInv'
  BY <1>31 DEF RunFreed, Crash
<1>32. ASSUME NEW t \in Captures, SetStopped(t) PROVE DeviceInv'
  BY <1>32 DEF SetStopped, Step
<1>33. CASE UNCHANGED vars
  BY <1>33 DEF vars
<1> QED BY <1>1, <1>2, <1>3, <1>4, <1>5, <1>6, <1>7, <1>8, <1>9, <1>10,
       <1>11, <1>12, <1>13, <1>14, <1>15, <1>16, <1>17, <1>18, <1>19, <1>20,
       <1>21, <1>22, <1>23, <1>24, <1>25, <1>26, <1>27, <1>28, <1>29, <1>30,
       <1>31, <1>32, <1>33 DEF Next,
       Caller, Method, SamplingThread, Callback, Over

(* Running is only reported by, and until the Stopped of, a sampling thread. *)
LEMMA SampledInductive == TypeOK /\ RunningIsSampled /\ [Next]_vars => RunningIsSampled'
<1> SUFFICES ASSUME TypeOK, RunningIsSampled, [Next]_vars PROVE RunningIsSampled'
  OBVIOUS
<1> USE SessionBoundAssumption
        DEF TypeOK, RunningIsSampled, Live, Starting, Captures, callerVars, deviceVars, threadVars
<1>1. ASSUME NEW method \in {"start", "start_instant"}, CallStart(method) PROVE RunningIsSampled'
  BY <1>1 DEF CallStart, MayCall, Enter
<1>2. ASSUME CallStartUnusable PROVE RunningIsSampled'
  BY <1>2 DEF CallStartUnusable, MayCall
<1>3. ASSUME CallStop PROVE RunningIsSampled'
  BY <1>3 DEF CallStop, MayCall, Enter
<1>4. ASSUME CallInitSignals PROVE RunningIsSampled'
  BY <1>4 DEF CallInitSignals, MayCall, Enter
<1>5. ASSUME CallDestroy PROVE RunningIsSampled'
  BY <1>5 DEF CallDestroy, MayCall, Enter
<1>6. ASSUME NEW d \in Devices \cup {NoDevice}, CallSetDevice(d) PROVE RunningIsSampled'
  BY <1>6 DEF CallSetDevice, MayCall, Enter
<1>7. ASSUME StopCheck PROVE RunningIsSampled'
  BY <1>7 DEF StopCheck, AfterStop
<1>8. ASSUME SrStop PROVE RunningIsSampled'
  BY <1>8 DEF SrStop
<1>9. ASSUME StopJoin PROVE RunningIsSampled'
  BY <1>9 DEF StopJoin, AfterStop
<1>10. ASSUME StartCapture PROVE RunningIsSampled'
  BY <1>10 DEF StartCapture
<1>11. ASSUME NoProbesEnabled PROVE RunningIsSampled'
  BY <1>11 DEF NoProbesEnabled
<1>12. ASSUME ReleaseNull PROVE RunningIsSampled'
  BY <1>12 DEF ReleaseNull, Crash
<1>13. ASSUME ReleaseAssert PROVE RunningIsSampled'
  BY <1>13 DEF ReleaseAssert, Crash
<1>14. ASSUME ReleaseDevice PROVE RunningIsSampled'
  BY <1>14 DEF ReleaseDevice
<1>15. ASSUME DestroySession PROVE RunningIsSampled'
  BY <1>15 DEF DestroySession
<1>16. ASSUME ClearSession PROVE RunningIsSampled'
  BY <1>16 DEF ClearSession
<1>17. ASSUME UseNone PROVE RunningIsSampled'
  BY <1>17 DEF UseNone
<1>18. ASSUME UseDevice PROVE RunningIsSampled'
  BY <1>18 DEF UseDevice
<1>19. ASSUME UseThrows PROVE RunningIsSampled'
  BY <1>19 DEF UseThrows, Crash
<1>20. ASSUME NEW t \in Captures, ThreadStart(t) PROVE RunningIsSampled'
  BY <1>20 DEF ThreadStart, Step
<1>21. ASSUME NEW t \in Captures, ThreadStartThrows(t) PROVE RunningIsSampled'
  BY <1>21 DEF ThreadStartThrows, Crash
<1>22. ASSUME NEW t \in Captures, SetRunning(t) PROVE RunningIsSampled'
  BY <1>22 DEF SetRunning, Step
<1>23. ASSUME NEW t \in Captures, RunPacket(t) PROVE RunningIsSampled'
  BY <1>23 DEF RunPacket, Step
<1>24. ASSUME NEW t \in Captures, AssertSession(t) PROVE RunningIsSampled'
  BY <1>24 DEF AssertSession, Step
<1>25. ASSUME NEW t \in Captures, AssertSessionFails(t) PROVE RunningIsSampled'
  BY <1>25 DEF AssertSessionFails, Crash
<1>26. ASSUME NEW t \in Captures, DataFeedIn(t) PROVE RunningIsSampled'
  BY <1>26 DEF DataFeedIn, Step
<1>27. ASSUME NEW t \in Captures, DataFeedInNull(t) PROVE RunningIsSampled'
  BY <1>27 DEF DataFeedInNull, Crash
<1>28. ASSUME NEW t \in Captures, RunAbort(t) PROVE RunningIsSampled'
  BY <1>28 DEF RunAbort
<1>29. ASSUME NEW t \in Captures, RunEnds(t) PROVE RunningIsSampled'
  BY <1>29 DEF RunEnds
<1>30. ASSUME NEW t \in Captures, RunReturn(t) PROVE RunningIsSampled'
  BY <1>30 DEF RunReturn, Step
<1>31. ASSUME NEW t \in Captures, RunFreed(t) PROVE RunningIsSampled'
  BY <1>31 DEF RunFreed, Crash
<1>32. ASSUME NEW t \in Captures, SetStopped(t) PROVE RunningIsSampled'
  BY <1>32 DEF SetStopped, Step
<1>33. CASE UNCHANGED vars
  BY <1>33 DEF vars
<1> QED BY <1>1, <1>2, <1>3, <1>4, <1>5, <1>6, <1>7, <1>8, <1>9, <1>10,
       <1>11, <1>12, <1>13, <1>14, <1>15, <1>16, <1>17, <1>18, <1>19, <1>20,
       <1>21, <1>22, <1>23, <1>24, <1>25, <1>26, <1>27, <1>28, <1>29, <1>30,
       <1>31, <1>32, <1>33 DEF Next,
       Caller, Method, SamplingThread, Callback, Over

----------------------------------------------------------------------------
(* The invariants that hold whatever the caller does. *)
LEMMA InitAny == Init => AnyInv
<1> SUFFICES ASSUME Init PROVE AnyInv
  OBVIOUS
<1> USE DeviceAssumption, SessionBoundAssumption DEF Init
<1>1. TypeOK
  <2>1. /\ pc \in [Captures -> ThreadSteps]
        /\ \A t \in Captures : pc[t] = "unused" /\ t > captures
    BY DEF Captures, ThreadSteps
  <2>2. dev \in [Captures -> Devices \cup {NoDevice}]
    OBVIOUS
  <2>3. \A t \in 1..captures : dev[t] \in Devices
    OBVIOUS
  <2>4. sr \in Sessions
    BY DEF Sessions, NoSession
  <2>5. dso_queue \in Seq(Captures)
    BY EmptySeq
  <2>6. instant \in BOOLEAN
    OBVIOUS
  <2>7. sampling_thread \in 0..captures /\ captures \in 0..MaxCaptures
    OBVIOUS
  <2> QED BY <2>1, <2>2, <2>3, <2>4, <2>5, <2>6, <2>7
          DEF TypeOK, Calls, CallerSteps, Crashes
<1>2. StartInv /\ RunningIsSampled
  BY DEF StartInv, RunningIsSampled
<1>3. DeviceInv
  BY DEF DeviceInv, NoSession
<1> QED BY <1>1, <1>2, <1>3 DEF AnyInv

(* What holds for any caller, at every time. *)
LEMMA AnyInvHolds == SafeSpec => []AnyInv
<1>1. AnyInv /\ [Next]_vars => AnyInv'
  BY TypeInductive, DeviceInductive, SampledInductive DEF AnyInv
<1> QED BY <1>1, InitAny, PTL DEF SafeSpec

(* The session's variables keep their types; in particular every sampling
   thread is started with a device, as sample_thread_proc() asserts. *)
THEOREM SessionTypeOK == SafeSpec => []TypeOK
<1>1. AnyInv => TypeOK
  BY DEF AnyInv
<1> QED BY <1>1, AnyInvHolds, PTL

(* capture_state is Running only while a sampling thread is running. *)
THEOREM RunningIsBacked == SafeSpec => []RunningIsSampled
<1>1. AnyInv => RunningIsSampled
  BY DEF AnyInv
<1> QED BY <1>1, AnyInvHolds, PTL

(* Session, device and libsigrok agree on the device in use. *)
THEOREM OwnershipAgrees == SafeSpec => []DeviceOwnership
<1>1. AnyInv => DeviceOwnership
  BY DEF AnyInv, DeviceInv, DeviceOwnership
<1> QED BY <1>1, AnyInvHolds, PTL

----------------------------------------------------------------------------
(* A caller that waits for every start. *)
LEMMA PatientInductive ==
    CallerWaits /\ TypeOK /\ StartInv /\ DeviceInv /\ PatientInv /\ [Next]_vars => PatientInv'
<1> SUFFICES ASSUME CallerWaits, TypeOK, StartInv, DeviceInv, PatientInv, [Next]_vars
             PROVE  PatientInv'
  OBVIOUS
<1> USE DeviceAssumption, SessionBoundAssumption
        DEF TypeOK, PatientInv, OneSampler, CaptureKeepsDevice, Live, Starting, Captures,
            callerVars, deviceVars, threadVars
<1>1. ASSUME NEW method \in {"start", "start_instant"}, CallStart(method) PROVE PatientInv'
  BY <1>1 DEF CallStart, MayCall, Enter
<1>2. ASSUME CallStartUnusable PROVE PatientInv'
  BY <1>2 DEF CallStartUnusable, MayCall
<1>3. ASSUME CallStop PROVE PatientInv'
  BY <1>3 DEF CallStop, MayCall, Enter
<1>4. ASSUME CallInitSignals PROVE PatientInv'
  BY <1>4 DEF CallInitSignals, MayCall, Enter
<1>5. ASSUME CallDestroy PROVE PatientInv'
  BY <1>5 DEF CallDestroy, MayCall, Enter
<1>6. ASSUME NEW d \in Devices \cup {NoDevice}, CallSetDevice(d) PROVE PatientInv'
  <2>1. Starting = {}
    BY <1>6 DEF CallSetDevice, MayCall
  <2>2. dev_inst = NoDevice => Live = {}
    <3>1. \A t \in Live : dev[t] \in Devices
      OBVIOUS
    <3> QED BY <3>1
  <2>3. /\ sr'.alive = sr.alive /\ sr'.dev = sr.dev
        /\ UNCHANGED <<dev_inst, capture_state, sampling_thread, captures, pc, dev>>
        /\ at' \in {"use", "release"} /\ (at' = "use" => dev_inst = NoDevice)
    BY <1>6 DEF CallSetDevice, Enter, Sessions
  <2> QED BY <2>1, <2>2, <2>3
<1>7. ASSUME StopCheck PROVE PatientInv'
  BY <1>7 DEF StopCheck, AfterStop
<1>8. ASSUME SrStop PROVE PatientInv'
  BY <1>8 DEF SrStop
<1>9. ASSUME StopJoin PROVE PatientInv'
  BY <1>9 DEF StopJoin, AfterStop
<1>10. ASSUME StartCapture PROVE PatientInv'
  <2>1. dev_inst \in Devices /\ captures < MaxCaptures /\ sr.alive /\ sr.dev = dev_inst
    BY <1>10 DEF StartCapture, StartInv, DeviceInv, Alive
  <2>2. \A t \in Captures : pc[t] \in {"unused", "done"}
    BY <1>10 DEF StartCapture
  <2> QED BY <1>10, <2>1, <2>2 DEF StartCapture
<1>11. ASSUME NoProbesEnabled PROVE PatientInv'
  BY <1>11 DEF NoProbesEnabled
<1>12. ASSUME ReleaseNull PROVE PatientInv'
  BY <1>12 DEF ReleaseNull, Crash
<1>13. ASSUME ReleaseAssert PROVE PatientInv'
  BY <1>13 DEF ReleaseAssert, Crash
<1>14. ASSUME ReleaseDevice PROVE PatientInv'
  BY <1>14 DEF ReleaseDevice
<1>15. ASSUME DestroySession PROVE PatientInv'
  BY <1>15 DEF DestroySession
<1>16. ASSUME ClearSession PROVE PatientInv'
  BY <1>16 DEF ClearSession
<1>17. ASSUME UseNone PROVE PatientInv'
  BY <1>17 DEF UseNone
<1>18. ASSUME UseDevice PROVE PatientInv'
  <2>1. Live = {}
    BY <1>18 DEF UseDevice
  <2> QED BY <1>18, <2>1 DEF UseDevice
<1>19. ASSUME UseThrows PROVE PatientInv'
  BY <1>19 DEF UseThrows, Crash
<1>20. ASSUME NEW t \in Captures, ThreadStart(t) PROVE PatientInv'
  BY <1>20 DEF ThreadStart, Step
<1>21. ASSUME NEW t \in Captures, ThreadStartThrows(t) PROVE PatientInv'
  BY <1>21 DEF ThreadStartThrows, Crash
<1>22. ASSUME NEW t \in Captures, SetRunning(t) PROVE PatientInv'
  BY <1>22 DEF SetRunning, Step
<1>23. ASSUME NEW t \in Captures, RunPacket(t) PROVE PatientInv'
  BY <1>23 DEF RunPacket, Step
<1>24. ASSUME NEW t \in Captures, AssertSession(t) PROVE PatientInv'
  BY <1>24 DEF AssertSession, Step
<1>25. ASSUME NEW t \in Captures, AssertSessionFails(t) PROVE PatientInv'
  BY <1>25 DEF AssertSessionFails, Crash
<1>26. ASSUME NEW t \in Captures, DataFeedIn(t) PROVE PatientInv'
  BY <1>26 DEF DataFeedIn, Step
<1>27. ASSUME NEW t \in Captures, DataFeedInNull(t) PROVE PatientInv'
  BY <1>27 DEF DataFeedInNull, Crash
<1>28. ASSUME NEW t \in Captures, RunAbort(t) PROVE PatientInv'
  BY <1>28 DEF RunAbort
<1>29. ASSUME NEW t \in Captures, RunEnds(t) PROVE PatientInv'
  BY <1>29 DEF RunEnds
<1>30. ASSUME NEW t \in Captures, RunReturn(t) PROVE PatientInv'
  BY <1>30 DEF RunReturn, Step
<1>31. ASSUME NEW t \in Captures, RunFreed(t) PROVE PatientInv'
  BY <1>31 DEF RunFreed, Crash
<1>32. ASSUME NEW t \in Captures, SetStopped(t) PROVE PatientInv'
  <2>1. t \in Live /\ Live' = Live \ {t}
    BY <1>32 DEF SetStopped, Step
  <2>2. Live' = {}
    BY <2>1
  <2>3. Starting' = {}
    BY <2>2
  <2> QED BY <2>2, <2>3
<1>33. CASE UNCHANGED vars
  BY <1>33 DEF vars
<1> QED BY <1>1, <1>2, <1>3, <1>4, <1>5, <1>6, <1>7, <1>8, <1>9, <1>10,
       <1>11, <1>12, <1>13, <1>14, <1>15, <1>16, <1>17, <1>18, <1>19, <1>20,
       <1>21, <1>22, <1>23, <1>24, <1>25, <1>26, <1>27, <1>28, <1>29, <1>30,
       <1>31, <1>32, <1>33 DEF Next,
       Caller, Method, SamplingThread, Callback, Over

(* The queue under such a caller. *)
LEMMA QueueInductive ==
    TypeOK /\ StartInv /\ PatientInv /\ QueueInv /\ [Next]_vars => QueueInv'
<1> SUFFICES ASSUME TypeOK, StartInv, PatientInv, QueueInv, [Next]_vars PROVE QueueInv'
  OBVIOUS
<1> USE SessionBoundAssumption
        DEF TypeOK, QueueInv, QueuedByCapture, Captures, callerVars, deviceVars, threadVars
<1>1. ASSUME NEW method \in {"start", "start_instant"}, CallStart(method) PROVE QueueInv'
  BY <1>1 DEF CallStart, MayCall, Enter
<1>2. ASSUME CallStartUnusable PROVE QueueInv'
  BY <1>2 DEF CallStartUnusable, MayCall
<1>3. ASSUME CallStop PROVE QueueInv'
  BY <1>3 DEF CallStop, MayCall, Enter
<1>4. ASSUME CallInitSignals PROVE QueueInv'
  BY <1>4 DEF CallInitSignals, MayCall, Enter
<1>5. ASSUME CallDestroy PROVE QueueInv'
  BY <1>5 DEF CallDestroy, MayCall, Enter
<1>6. ASSUME NEW d \in Devices \cup {NoDevice}, CallSetDevice(d) PROVE QueueInv'
  BY <1>6 DEF CallSetDevice, MayCall, Enter
<1>7. ASSUME StopCheck PROVE QueueInv'
  BY <1>7 DEF StopCheck, AfterStop
<1>8. ASSUME SrStop PROVE QueueInv'
  BY <1>8 DEF SrStop
<1>9. ASSUME StopJoin PROVE QueueInv'
  BY <1>9 DEF StopJoin, AfterStop
<1>10. ASSUME StartCapture PROVE QueueInv'
  <2>1. dso_queue' = dso_queue /\ captures' = captures + 1
    BY <1>10 DEF StartCapture
  <2>2. \A i \in 1..Len(dso_queue) : dso_queue[i] \in Captures
    OBVIOUS
  <2> QED BY <2>1, <2>2
<1>11. ASSUME NoProbesEnabled PROVE QueueInv'
  BY <1>11 DEF NoProbesEnabled
<1>12. ASSUME ReleaseNull PROVE QueueInv'
  BY <1>12 DEF ReleaseNull, Crash
<1>13. ASSUME ReleaseAssert PROVE QueueInv'
  BY <1>13 DEF ReleaseAssert, Crash
<1>14. ASSUME ReleaseDevice PROVE QueueInv'
  BY <1>14 DEF ReleaseDevice
<1>15. ASSUME DestroySession PROVE QueueInv'
  BY <1>15 DEF DestroySession
<1>16. ASSUME ClearSession PROVE QueueInv'
  BY <1>16 DEF ClearSession
<1>17. ASSUME UseNone PROVE QueueInv'
  BY <1>17 DEF UseNone
<1>18. ASSUME UseDevice PROVE QueueInv'
  BY <1>18 DEF UseDevice
<1>19. ASSUME UseThrows PROVE QueueInv'
  BY <1>19 DEF UseThrows, Crash
<1>20. ASSUME NEW t \in Captures, ThreadStart(t) PROVE QueueInv'
  BY <1>20 DEF ThreadStart, Step
<1>21. ASSUME NEW t \in Captures, ThreadStartThrows(t) PROVE QueueInv'
  BY <1>21 DEF ThreadStartThrows, Crash
<1>22. ASSUME NEW t \in Captures, SetRunning(t) PROVE QueueInv'
  BY <1>22 DEF SetRunning, Step
<1>23. ASSUME NEW t \in Captures, RunPacket(t) PROVE QueueInv'
  BY <1>23 DEF RunPacket, Step
<1>24. ASSUME NEW t \in Captures, AssertSession(t) PROVE QueueInv'
  BY <1>24 DEF AssertSession, Step
<1>25. ASSUME NEW t \in Captures, AssertSessionFails(t) PROVE QueueInv'
  BY <1>25 DEF AssertSessionFails, Crash
<1>26. ASSUME NEW t \in Captures, DataFeedIn(t) PROVE QueueInv'
  <2>1. captures' = captures
    BY <1>26 DEF DataFeedIn
  <2>2. CASE dso_queue' = dso_queue
    BY <2>1, <2>2
  <2>3. CASE dso_queue' = Append(dso_queue, t)
    <3>1. t = captures
      BY <1>26 DEF DataFeedIn, Step, PatientInv, Live
    <3>2. /\ Len(dso_queue') = Len(dso_queue) + 1
          /\ \A i \in 1..Len(dso_queue) : dso_queue'[i] = dso_queue[i]
          /\ dso_queue'[Len(dso_queue) + 1] = captures
      BY <2>3, <3>1, AppendProperties
    <3>3. Len(dso_queue) \in Nat /\ \A i \in 1..Len(dso_queue) : dso_queue[i] \in Nat
      BY LenProperties
    <3>4. \A i \in 1..Len(dso_queue') : dso_queue'[i] <= captures
      BY <3>2, <3>3
    <3>5. ASSUME NEW i \in 1..Len(dso_queue'), NEW j \in 1..Len(dso_queue'), i < j
          PROVE  dso_queue'[i] <= dso_queue'[j]
      <4>1. i \in 1..Len(dso_queue)
        BY <3>2, <3>3, <3>5
      <4>2. CASE j \in 1..Len(dso_queue)
        BY <3>2, <3>5, <4>1, <4>2
      <4>3. CASE j = Len(dso_queue) + 1
        BY <3>2, <3>3, <3>4, <4>3
      <4> QED BY <3>2, <3>3, <4>2, <4>3
    <3> QED BY <2>1, <3>4, <3>5
  <2> QED BY <1>26, <2>2, <2>3 DEF DataFeedIn
<1>27. ASSUME NEW t \in Captures, DataFeedInNull(t) PROVE QueueInv'
  BY <1>27 DEF DataFeedInNull, Crash
<1>28. ASSUME NEW t \in Captures, RunAbort(t) PROVE QueueInv'
  BY <1>28 DEF RunAbort
<1>29. ASSUME NEW t \in Captures, RunEnds(t) PROVE QueueInv'
  BY <1>29 DEF RunEnds
<1>30. ASSUME NEW t \in Captures, RunReturn(t) PROVE QueueInv'
  BY <1>30 DEF RunReturn, Step
<1>31. ASSUME NEW t \in Captures, RunFreed(t) PROVE QueueInv'
  BY <1>31 DEF RunFreed, Crash
<1>32. ASSUME NEW t \in Captures, SetStopped(t) PROVE QueueInv'
  BY <1>32 DEF SetStopped, Step
<1>33. CASE UNCHANGED vars
  BY <1>33 DEF vars
<1> QED BY <1>1, <1>2, <1>3, <1>4, <1>5, <1>6, <1>7, <1>8, <1>9, <1>10,
       <1>11, <1>12, <1>13, <1>14, <1>15, <1>16, <1>17, <1>18, <1>19, <1>20,
       <1>21, <1>22, <1>23, <1>24, <1>25, <1>26, <1>27, <1>28, <1>29, <1>30,
       <1>31, <1>32, <1>33 DEF Next,
       Caller, Method, SamplingThread, Callback, Over

(* A thread inside data_feed_in_proc() is a live one, so the destructor has not
   come to its end. *)
LEMMA FeedInductive ==
    TypeOK /\ PatientInv /\ NoFeedAfterDestroy /\ [Next]_vars => NoFeedAfterDestroy'
<1> SUFFICES ASSUME TypeOK, PatientInv, NoFeedAfterDestroy, [Next]_vars
             PROVE  NoFeedAfterDestroy'
  OBVIOUS
<1> USE DEF TypeOK, NoFeedAfterDestroy, callerVars, deviceVars, threadVars
<1>1. ASSUME NEW method \in {"start", "start_instant"}, CallStart(method) PROVE NoFeedAfterDestroy'
  BY <1>1 DEF CallStart, MayCall, Enter
<1>2. ASSUME CallStartUnusable PROVE NoFeedAfterDestroy'
  BY <1>2 DEF CallStartUnusable, MayCall
<1>3. ASSUME CallStop PROVE NoFeedAfterDestroy'
  BY <1>3 DEF CallStop, MayCall, Enter
<1>4. ASSUME CallInitSignals PROVE NoFeedAfterDestroy'
  BY <1>4 DEF CallInitSignals, MayCall, Enter
<1>5. ASSUME CallDestroy PROVE NoFeedAfterDestroy'
  BY <1>5 DEF CallDestroy, MayCall, Enter
<1>6. ASSUME NEW d \in Devices \cup {NoDevice}, CallSetDevice(d) PROVE NoFeedAfterDestroy'
  BY <1>6 DEF CallSetDevice, MayCall, Enter
<1>7. ASSUME StopCheck PROVE NoFeedAfterDestroy'
  BY <1>7 DEF StopCheck, AfterStop
<1>8. ASSUME SrStop PROVE NoFeedAfterDestroy'
  BY <1>8 DEF SrStop
<1>9. ASSUME StopJoin PROVE NoFeedAfterDestroy'
  BY <1>9 DEF StopJoin, AfterStop
<1>10. ASSUME StartCapture PROVE NoFeedAfterDestroy'
  BY <1>10 DEF StartCapture
<1>11. ASSUME NoProbesEnabled PROVE NoFeedAfterDestroy'
  BY <1>11 DEF NoProbesEnabled
<1>12. ASSUME ReleaseNull PROVE NoFeedAfterDestroy'
  BY <1>12 DEF ReleaseNull, Crash
<1>13. ASSUME ReleaseAssert PROVE NoFeedAfterDestroy'
  BY <1>13 DEF ReleaseAssert, Crash
<1>14. ASSUME ReleaseDevice PROVE NoFeedAfterDestroy'
  BY <1>14 DEF ReleaseDevice
<1>15. ASSUME DestroySession PROVE NoFeedAfterDestroy'
  BY <1>15 DEF DestroySession
<1>16. ASSUME ClearSession PROVE NoFeedAfterDestroy'
  BY <1>16 DEF ClearSession
<1>17. ASSUME UseNone PROVE NoFeedAfterDestroy'
  BY <1>17 DEF UseNone
<1>18. ASSUME UseDevice PROVE NoFeedAfterDestroy'
  BY <1>18 DEF UseDevice
<1>19. ASSUME UseThrows PROVE NoFeedAfterDestroy'
  BY <1>19 DEF UseThrows, Crash
<1>20. ASSUME NEW t \in Captures, ThreadStart(t) PROVE NoFeedAfterDestroy'
  BY <1>20 DEF ThreadStart, Step
<1>21. ASSUME NEW t \in Captures, ThreadStartThrows(t) PROVE NoFeedAfterDestroy'
  BY <1>21 DEF ThreadStartThrows, Crash
<1>22. ASSUME NEW t \in Captures, SetRunning(t) PROVE NoFeedAfterDestroy'
  BY <1>22 DEF SetRunning, Step
<1>23. ASSUME NEW t \in Captures, RunPacket(t) PROVE NoFeedAfterDestroy'
  BY <1>23 DEF RunPacket, Step
<1>24. ASSUME NEW t \in Captures, AssertSession(t) PROVE NoFeedAfterDestroy'
  BY <1>24 DEF AssertSession, Step
<1>25. ASSUME NEW t \in Captures, AssertSessionFails(t) PROVE NoFeedAfterDestroy'
  BY <1>25 DEF AssertSessionFails, PatientInv, Live
<1>26. ASSUME NEW t \in Captures, DataFeedIn(t) PROVE NoFeedAfterDestroy'
  BY <1>26 DEF DataFeedIn, Step
<1>27. ASSUME NEW t \in Captures, DataFeedInNull(t) PROVE NoFeedAfterDestroy'
  BY <1>27 DEF DataFeedInNull, PatientInv, Live
<1>28. ASSUME NEW t \in Captures, RunAbort(t) PROVE NoFeedAfterDestroy'
  BY <1>28 DEF RunAbort
<1>29. ASSUME NEW t \in Captures, RunEnds(t) PROVE NoFeedAfterDestroy'
  BY <1>29 DEF RunEnds
<1>30. ASSUME NEW t \in Captures, RunReturn(t) PROVE NoFeedAfterDestroy'
  BY <1>30 DEF RunReturn, Step
<1>31. ASSUME NEW t \in Captures, RunFreed(t) PROVE NoFeedAfterDestroy'
  BY <1>31 DEF RunFreed, Crash
<1>32. ASSUME NEW t \in Captures, SetStopped(t) PROVE NoFeedAfterDestroy'
  BY <1>32 DEF SetStopped, Step
<1>33. CASE UNCHANGED vars
  BY <1>33 DEF vars
<1> QED BY <1>1, <1>2, <1>3, <1>4, <1>5, <1>6, <1>7, <1>8, <1>9, <1>10,
       <1>11, <1>12, <1>13, <1>14, <1>15, <1>16, <1>17, <1>18, <1>19, <1>20,
       <1>21, <1>22, <1>23, <1>24, <1>25, <1>26, <1>27, <1>28, <1>29, <1>30,
       <1>31, <1>32, <1>33 DEF Next,
       Caller, Method, SamplingThread, Callback, Over

(* stop_capture() is left only when no sampling thread exists. *)
LEMMA StopStep ==
    TypeOK /\ PatientInv /\ [Next]_vars =>
        [(at \in {"stop", "join"} /\ at' \notin {"sr_stop", at}) => (Live = {})]_vars
<1> SUFFICES ASSUME TypeOK, PatientInv, Next, at \in {"stop", "join"},
                    at' \notin {"sr_stop", at}
             PROVE  Live = {}
  OBVIOUS
<1> USE DEF TypeOK, PatientInv, OneSampler, Live, Starting, callerVars
<1>1. CASE StopCheck
  BY <1>1 DEF StopCheck
<1>2. CASE StopJoin
  BY <1>2 DEF StopJoin
<1>3. ~Caller
  BY DEF Caller, CallStart, CallStartUnusable, CallStop, CallInitSignals, CallDestroy,
         CallSetDevice, MayCall
<1>4. Method => StopCheck \/ StopJoin
  BY DEF Method, SrStop, StartCapture, NoProbesEnabled, ReleaseNull, ReleaseAssert,
         ReleaseDevice, DestroySession, ClearSession, UseNone, UseDevice, UseThrows
<1>5. ASSUME NEW t \in Captures, SamplingThread(t) PROVE FALSE
  BY <1>5 DEF SamplingThread, ThreadStart, ThreadStartThrows, SetRunning, RunPacket,
              Callback, AssertSession, AssertSessionFails, DataFeedIn, DataFeedInNull,
              RunAbort, RunEnds, RunReturn, RunFreed, SetStopped
<1>6. ~Over
  BY DEF Over, vars
<1> QED BY <1>1, <1>2, <1>3, <1>4, <1>5, <1>6 DEF Next

(* No capture has been started yet. *)
LEMMA InitPatient == Init => PatientInv /\ QueueInv /\ Live = {}
BY DEF Init, PatientInv, QueueInv, OneSampler, CaptureKeepsDevice, QueuedByCapture,
       Live, Starting, Captures

(* What holds for a caller that waits, at every time. *)
LEMMA PatientInvHolds ==
    CallerWaits => (SafeSpec => [](AnyInv /\ PatientInv /\ QueueInv /\ NoFeedAfterDestroy))
<1> SUFFICES ASSUME CallerWaits
             PROVE  SafeSpec => [](AnyInv /\ PatientInv /\ QueueInv /\ NoFeedAfterDestroy)
  OBVIOUS
<1>1. Init => PatientInv /\ QueueInv /\ NoFeedAfterDestroy
  BY InitPatient DEF Init, NoFeedAfterDestroy
<1>2. AnyInv /\ PatientInv /\ QueueInv /\ NoFeedAfterDestroy /\ [Next]_vars
        => (PatientInv /\ QueueInv /\ NoFeedAfterDestroy)'
  BY PatientInductive, QueueInductive, FeedInductive DEF AnyInv
<1> QED BY <1>1, <1>2, AnyInvHolds, PTL DEF SafeSpec

(* At most one sampling thread exists, and stop_capture() can join it. *)
THEOREM PatientOneSampler == CallerWaits => (SafeSpec => []OneSampler)
<1> SUFFICES ASSUME CallerWaits PROVE SafeSpec => []OneSampler
  OBVIOUS
<1>1. PatientInv => OneSampler
  BY DEF PatientInv
<1> QED BY <1>1, PatientInvHolds, PTL

(* Nothing a sampling thread works on is taken away while it lives. *)
THEOREM PatientKeepsDevice == CallerWaits => (SafeSpec => []CaptureKeepsDevice)
<1> SUFFICES ASSUME CallerWaits PROVE SafeSpec => []CaptureKeepsDevice
  OBVIOUS
<1>1. PatientInv => CaptureKeepsDevice
  BY DEF PatientInv
<1> QED BY <1>1, PatientInvHolds, PTL

(* The destructor never gets between the call of data_feed_in_proc(), its
   assertion on _session and its use of the pointer. *)
THEOREM PatientSessionOutlivesFeed == CallerWaits => (SafeSpec => []NoFeedAfterDestroy)
<1> SUFFICES ASSUME CallerWaits PROVE SafeSpec => []NoFeedAfterDestroy
  OBVIOUS
<1> QED BY PatientInvHolds, PTL

(* Captures never interleave in the queue. *)
THEOREM PatientQueueOrder == CallerWaits => (SafeSpec => []QueuedByCapture)
<1> SUFFICES ASSUME CallerWaits PROVE SafeSpec => []QueuedByCapture
  OBVIOUS
<1>1. QueueInv => QueuedByCapture
  BY DEF QueueInv
<1> QED BY <1>1, PatientInvHolds, PTL

(* stop_capture() really stops the capture. *)
THEOREM PatientStopCompletes == CallerWaits => (SafeSpec => StopCompletes)
<1> SUFFICES ASSUME CallerWaits PROVE SafeSpec => StopCompletes
  OBVIOUS
<1>1. AnyInv /\ PatientInv /\ [Next]_vars =>
        [(at \in {"stop", "join"} /\ at' \notin {"sr_stop", at}) => (Live = {})]_vars
  BY StopStep DEF AnyInv
<1> QED BY <1>1, PatientInvHolds, PTL DEF SafeSpec, StopCompletes
----------------------------------------------------------------------------
(* The refinement mapping, when there is at most one sampling thread. *)
LEMMA ActiveIsLast ==
    ASSUME TypeOK, Live \subseteq {captures}
    PROVE  Active = IF Live = {} THEN 0 ELSE captures
<1>1. CASE Live = {}
  BY <1>1 DEF Active
<1>2. CASE Live # {}
  <2>1. Live = {captures}
    BY <1>2
  <2> QED BY <2>1 DEF Active
<1> QED BY <1>1, <1>2

(* Steps that CaptureService does not see. *)
LEMMA UnseenStep ==
    ASSUME Live' = Live, captures' = captures, dso_queue' = dso_queue,
           \/ Live = {}
           \/ /\ sr'.dev = sr.dev
              /\ (at \in {"sr_stop", "join"}) = (at' \in {"sr_stop", "join"})
    PROVE  UNCHANGED Service!vars
<1>1. Active' = Active
  BY DEF Active
<1> QED BY <1>1 DEF Service!vars

(* Every step of a session whose caller waits is one of CaptureService's, or
   none: the spawn begins a capture, a stop_capture() that has read Running
   stops it, the thread's last report ends it. *)
LEMMA ServiceStep ==
    TypeOK /\ StartInv /\ DeviceInv /\ PatientInv /\ [Next]_vars
        => [Service!Next]_Service!vars
<1> SUFFICES ASSUME TypeOK, StartInv, DeviceInv, PatientInv, [Next]_vars
             PROVE  [Service!Next]_Service!vars
  OBVIOUS
<1> USE SessionBoundAssumption
        DEF TypeOK, PatientInv, OneSampler, CaptureKeepsDevice, Live, Starting, Captures,
            callerVars, deviceVars, threadVars
<1>1. ASSUME NEW method \in {"start", "start_instant"}, CallStart(method) PROVE [Service!Next]_Service!vars
  BY <1>1, UnseenStep DEF CallStart, MayCall, Enter
<1>2. ASSUME CallStartUnusable PROVE [Service!Next]_Service!vars
  BY <1>2, UnseenStep DEF CallStartUnusable, MayCall
<1>3. ASSUME CallStop PROVE [Service!Next]_Service!vars
  BY <1>3, UnseenStep DEF CallStop, MayCall, Enter
<1>4. ASSUME CallInitSignals PROVE [Service!Next]_Service!vars
  BY <1>4, UnseenStep DEF CallInitSignals, MayCall, Enter
<1>5. ASSUME CallDestroy PROVE [Service!Next]_Service!vars
  BY <1>5, UnseenStep DEF CallDestroy, MayCall, Enter
<1>6. ASSUME NEW d \in Devices \cup {NoDevice}, CallSetDevice(d) PROVE [Service!Next]_Service!vars
  BY <1>6, UnseenStep DEF CallSetDevice, MayCall, Enter, Sessions
<1>7. ASSUME StopCheck PROVE [Service!Next]_Service!vars
  <2>1. CASE Live = {}
    BY <1>7, <2>1, UnseenStep DEF StopCheck
  <2>2. CASE Live # {}
    <3>1. capture_state = "Running" /\ Active = captures /\ captures # 0
      BY <1>7, <2>2, ActiveIsLast DEF StopCheck
    <3>2. Active' = Active /\ Live' = Live
      BY <1>7 DEF StopCheck, Active
    <3>3. Service!Stop
      BY <1>7, <2>2, <3>1, <3>2 DEF StopCheck, Service!Stop
    <3> QED BY <3>3 DEF Service!Next
  <2> QED BY <2>1, <2>2
<1>8. ASSUME SrStop PROVE [Service!Next]_Service!vars
  BY <1>8, UnseenStep DEF SrStop, Sessions
<1>9. ASSUME StopJoin PROVE [Service!Next]_Service!vars
  <2>1. Live = {}
    BY <1>9 DEF StopJoin
  <2> QED BY <1>9, <2>1, UnseenStep DEF StopJoin
<1>10. ASSUME StartCapture PROVE [Service!Next]_Service!vars
  <2>1. dev_inst \in Devices /\ captures < MaxCaptures /\ sr.dev = dev_inst
    BY <1>10 DEF StartCapture, StartInv, DeviceInv, Alive
  <2>2. Live = {} /\ Active = 0
    BY <1>10, ActiveIsLast DEF StartCapture
  <2>3. Live' = {captures + 1} /\ Active' = captures + 1
    <3>1. Live' = {captures + 1}
      BY <1>10, <2>1, <2>2 DEF StartCapture
    <3> QED BY <3>1 DEF Active
  <2>4. at = "spawn" /\ at' = "idle" /\ captures' = captures + 1 /\ UNCHANGED <<sr, dso_queue>>
    BY <1>10 DEF StartCapture
  <2>5. Live' # {}
    BY <2>3
  <2>6. (Live # {} /\ at \in {"sr_stop", "join"})' = (Live # {} /\ at \in {"sr_stop", "join"})
    BY <2>4
  <2> HIDE DEF Live
  <2>7. Service!Begin(dev_inst)
    BY <2>1, <2>2, <2>3, <2>4, <2>5, <2>6 DEF Service!Begin
  <2> QED BY <2>1, <2>7 DEF Service!Next
<1>11. ASSUME NoProbesEnabled PROVE [Service!Next]_Service!vars
  BY <1>11, UnseenStep DEF NoProbesEnabled
<1>12. ASSUME ReleaseNull PROVE [Service!Next]_Service!vars
  BY <1>12, UnseenStep DEF ReleaseNull, Crash
<1>13. ASSUME ReleaseAssert PROVE [Service!Next]_Service!vars
  BY <1>13, UnseenStep DEF ReleaseAssert, Crash
<1>14. ASSUME ReleaseDevice PROVE [Service!Next]_Service!vars
  BY <1>14, UnseenStep DEF ReleaseDevice
<1>15. ASSUME DestroySession PROVE [Service!Next]_Service!vars
  BY <1>15, UnseenStep DEF DestroySession
<1>16. ASSUME ClearSession PROVE [Service!Next]_Service!vars
  BY <1>16, UnseenStep DEF ClearSession
<1>17. ASSUME UseNone PROVE [Service!Next]_Service!vars
  BY <1>17, UnseenStep DEF UseNone
<1>18. ASSUME UseDevice PROVE [Service!Next]_Service!vars
  BY <1>18, UnseenStep DEF UseDevice
<1>19. ASSUME UseThrows PROVE [Service!Next]_Service!vars
  BY <1>19, UnseenStep DEF UseThrows, Crash
<1>20. ASSUME NEW t \in Captures, ThreadStart(t) PROVE [Service!Next]_Service!vars
  BY <1>20, UnseenStep DEF ThreadStart, Step, Sessions
<1>21. ASSUME NEW t \in Captures, ThreadStartThrows(t) PROVE [Service!Next]_Service!vars
  BY <1>21, UnseenStep DEF ThreadStartThrows, Crash
<1>22. ASSUME NEW t \in Captures, SetRunning(t) PROVE [Service!Next]_Service!vars
  BY <1>22, UnseenStep DEF SetRunning, Step
<1>23. ASSUME NEW t \in Captures, RunPacket(t) PROVE [Service!Next]_Service!vars
  BY <1>23, UnseenStep DEF RunPacket, Step
<1>24. ASSUME NEW t \in Captures, AssertSession(t) PROVE [Service!Next]_Service!vars
  BY <1>24, UnseenStep DEF AssertSession, Step
<1>25. ASSUME NEW t \in Captures, AssertSessionFails(t) PROVE [Service!Next]_Service!vars
  BY <1>25, UnseenStep DEF AssertSessionFails, Crash
<1>26. ASSUME NEW t \in Captures, DataFeedIn(t) PROVE [Service!Next]_Service!vars
  <2>1. Live = {t} /\ t = captures
    BY <1>26 DEF DataFeedIn, Step
  <2>2. Live' = Live /\ Active' = Active /\ Active = t
    BY <1>26, <2>1, ActiveIsLast DEF DataFeedIn, Step, Active
  <2>3. Service!Deliver
    BY <1>26, <2>1, <2>2 DEF DataFeedIn, Service!Deliver
  <2> QED BY <2>3 DEF Service!Next
<1>27. ASSUME NEW t \in Captures, DataFeedInNull(t) PROVE [Service!Next]_Service!vars
  BY <1>27, UnseenStep DEF DataFeedInNull, Crash
<1>28. ASSUME NEW t \in Captures, RunAbort(t) PROVE [Service!Next]_Service!vars
  BY <1>28, UnseenStep DEF RunAbort, Sessions
<1>29. ASSUME NEW t \in Captures, RunEnds(t) PROVE [Service!Next]_Service!vars
  BY <1>29, UnseenStep DEF RunEnds, Sessions
<1>30. ASSUME NEW t \in Captures, RunReturn(t) PROVE [Service!Next]_Service!vars
  BY <1>30, UnseenStep DEF RunReturn, Step
<1>31. ASSUME NEW t \in Captures, RunFreed(t) PROVE [Service!Next]_Service!vars
  BY <1>31, UnseenStep DEF RunFreed, Crash
<1>32. ASSUME NEW t \in Captures, SetStopped(t) PROVE [Service!Next]_Service!vars
  <2>1. Live = {t} /\ t = captures /\ Active = t
    BY <1>32, ActiveIsLast DEF SetStopped, Step
  <2>2. Live' = {} /\ Active' = 0
    <3>1. Live' = {}
      BY <1>32, <2>1 DEF SetStopped, Step
    <3> QED BY <3>1 DEF Active
  <2>3. Service!End
    BY <1>32, <2>1, <2>2 DEF SetStopped, Service!End
  <2> QED BY <2>3 DEF Service!Next
<1>33. CASE UNCHANGED vars
  BY <1>33, UnseenStep DEF vars
<1> QED BY <1>1, <1>2, <1>3, <1>4, <1>5, <1>6, <1>7, <1>8, <1>9, <1>10,
       <1>11, <1>12, <1>13, <1>14, <1>15, <1>16, <1>17, <1>18, <1>19, <1>20,
       <1>21, <1>22, <1>23, <1>24, <1>25, <1>26, <1>27, <1>28, <1>29, <1>30,
       <1>31, <1>32, <1>33 DEF Next,
       Caller, Method, SamplingThread, Callback, Over

(* For a caller that waits, the session implements CaptureService's safety
   part: the threads, the state variable and libsigrok's one session behave
   as one capture at a time. *)
THEOREM PatientImplementsService == CallerWaits => (SafeSpec => Service!SafeSpec)
<1> SUFFICES ASSUME CallerWaits PROVE SafeSpec => Service!SafeSpec
  OBVIOUS
<1>1. Init => Service!Init
  BY DEF Init, Service!Init, Active, Live, Captures
<1>2. AnyInv /\ PatientInv /\ [Next]_vars => [Service!Next]_Service!vars
  BY ServiceStep DEF AnyInv
<1> QED BY <1>1, <1>2, PatientInvHolds, AnyInvHolds, PTL DEF SafeSpec, Service!SafeSpec
============================================================================
