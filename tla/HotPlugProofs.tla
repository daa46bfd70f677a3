--------------------------- MODULE HotPlugProofs ---------------------------
(***************************************************************************)
(* Proofs about HotPlug for any hardware and virtual devices, any number   *)
(* of plug changes and captures, and every interleaving of the hot-plug    *)
(* thread with the main thread and its sampling threads.                   *)
(***************************************************************************)
EXTENDS HotPlug, TLAPS

(* The main thread only starts and stops captures: it is never inside
   set_device() or the destructor. *)
CallerInv ==
    /\ call \in {"set_device", "start", "stop"}
    /\ at \in {"idle", "stop", "sr_stop", "join", "spawn"}
    /\ sr \in Session!Sessions

(* The thread exists once it is started, and its flags are reset whenever it
   waits for events. *)
ThreadInv ==
    /\ main \in {"setup", "registered"} => hot = "off"
    /\ hot \in {"events", "sleep"} => ~hot_attach /\ ~hot_detach

Rescans == {"scan", "destroy", "default", "finish"}

(* Every rescan answers a plug change of its own: those made, one for each
   event not yet delivered, and one if both branches have to run. *)
Owed ==
    (IF "arrived" \in pending THEN 1 ELSE 0) + (IF "left" \in pending THEN 1 ELSE 0)
      + (IF hot \in Rescans /\ hot_attach /\ hot_detach THEN 1 ELSE 0)

ScanInv == scans \in Nat /\ plugs \in Nat /\ scans <= plugs /\ scans + Owed <= plugs

(* The device in use at every step of a rescan: until it is released it is an
   object of a driver that is still to be visited. *)
SelectionInv ==
    /\ dev_inst \in listed \cup {NoDevice}
    /\ owned = {dev_inst} \ {NoDevice}
    /\ hot = "destroy" => dev_inst = NoDevice /\ sr.dev \in listed \cup {NoDevice}
    /\ hot # "destroy" => sr.dev \in {dev_inst, NoDevice} /\ sr.alive = (dev_inst # NoDevice)
    /\ hot \in {"scan", "destroy"} =>
          dev_inst = NoDevice \/ \E driver \in drivers : dev_inst \in OfDriver(driver)
    /\ hot = "default" => dev_inst = NoDevice

HotInv == TypeOK /\ CallerInv /\ ThreadInv /\ ScanInv /\ SelectionInv

----------------------------------------------------------------------------
(* Objects of a scan are objects: the two drivers have all of them. *)
LEMMA DriversCover ==
    ASSUME NEW o \in Objects
    PROVE  o # NoDevice /\ \E driver \in Drivers : o \in OfDriver(driver)
BY HotPlugAssumption DEF Objects, Drivers, OfDriver

(* The main thread and the sampling threads change neither the selection nor
   which device libsigrok has open, and stay out of set_device(). *)
LEMMA SessionKeepsSelection ==
    ASSUME CallerInv, crashed \in Session!Crashes \cup {"assert_channel"},
           MainCall \/ MainMethod \/ \E t \in Session!Captures : SamplingThread(t)
    PROVE  /\ CallerInv' /\ crashed' \in Session!Crashes \cup {"assert_channel"}
           /\ sr'.alive = sr.alive /\ sr'.dev = sr.dev
           /\ UNCHANGED <<dev_inst, owned, hotVars>>
<1> DEFINE Goal == /\ CallerInv' /\ crashed' \in Session!Crashes \cup {"assert_channel"}
                   /\ sr'.alive = sr.alive /\ sr'.dev = sr.dev
                   /\ UNCHANGED <<dev_inst, owned>>
<1> USE DEF CallerInv, Session!Sessions, Session!Crashes, Session!Enter, Session!Crash,
            Session!callerVars, Session!deviceVars, Session!threadVars
<1>1. ASSUME Session!CallStart("start") PROVE Goal
  BY <1>1 DEF Session!CallStart
<1>2. ASSUME Session!CallStartUnusable PROVE Goal
  BY <1>2 DEF Session!CallStartUnusable
<1>3. ASSUME Session!CallStop PROVE Goal
  BY <1>3 DEF Session!CallStop
<1>4. ASSUME Session!Method PROVE Goal
  <2>1. CASE Session!StopCheck
    <3>1. Session!AfterStop \in {"spawn", "idle"}
      BY DEF Session!AfterStop
    <3> QED BY <2>1, <3>1 DEF Session!StopCheck
  <2>2. CASE Session!SrStop
    BY <2>2 DEF Session!SrStop
  <2>3. CASE Session!StopJoin
    <3>1. Session!AfterStop \in {"spawn", "idle"}
      BY DEF Session!AfterStop
    <3> QED BY <2>3, <3>1 DEF Session!StopJoin
  <2>4. CASE Session!StartCapture
    BY <2>4 DEF Session!StartCapture
  <2>5. CASE Session!NoProbesEnabled
    BY <2>5 DEF Session!NoProbesEnabled
  <2>6. at \notin {"release", "sr_destroy", "clear", "use"}
    OBVIOUS
  <2> QED BY <1>4, <2>1, <2>2, <2>3, <2>4, <2>5, <2>6
          DEF Session!Method, Session!ReleaseNull, Session!ReleaseAssert, Session!ReleaseDevice,
              Session!DestroySession, Session!ClearSession, Session!UseNone, Session!UseDevice, Session!UseThrows
<1>5. ASSUME NEW t \in Session!Captures, Session!SamplingThread(t) PROVE Goal
  <2>1. CASE Session!ThreadStart(t)
    BY <2>1 DEF Session!ThreadStart, Session!Step
  <2>5. CASE Session!RunAbort(t) \/ Session!RunEnds(t)
    BY <2>5 DEF Session!RunAbort, Session!RunEnds
  <2>2. CASE Session!ThreadStartThrows(t) \/ Session!RunPacket(t) \/ Session!RunFreed(t)
    BY <2>2 DEF Session!ThreadStartThrows, Session!RunPacket, Session!RunFreed, Session!Step
  <2>3. CASE Session!SetRunning(t) \/ Session!RunReturn(t) \/ Session!SetStopped(t)
    BY <2>3 DEF Session!SetRunning, Session!RunReturn, Session!SetStopped, Session!Step
  <2>4. CASE Session!Callback(t)
    BY <2>4 DEF Session!Callback, Session!AssertSession, Session!AssertSessionFails,
                Session!DataFeedIn, Session!DataFeedInNull, Session!Step
  <2> QED BY <1>5, <2>1, <2>2, <2>3, <2>4, <2>5 DEF Session!SamplingThread
<1>6. UNCHANGED hotVars
  BY DEF MainCall, MainMethod, SamplingThread
<1> QED BY <1>1, <1>2, <1>3, <1>4, <1>5, <1>6 DEF MainCall, MainMethod, SamplingThread

(* Types, with the count that keeps the number of scans within the bound. *)
LEMMA TypeInductive ==
    TypeOK /\ CallerInv /\ ThreadInv /\ ScanInv /\ [Next]_vars
        => (TypeOK /\ CallerInv /\ ThreadInv /\ ScanInv)'
<1> SUFFICES ASSUME TypeOK, CallerInv, ThreadInv, ScanInv, [Next]_vars
             PROVE  (TypeOK /\ CallerInv /\ ThreadInv /\ ScanInv)'
  OBVIOUS
<1> DEFINE Good == TypeOK /\ CallerInv /\ ThreadInv /\ ScanInv
<1> USE HotPlugAssumption
        DEF TypeOK, CallerInv, ThreadInv, ScanInv, Owed, Rescans, Objects, Drivers,
            Session!Sessions, Session!NoSession, Session!Crashes,
            callerVars, sessionVars, worldVars, flagVars, hotVars
<1>1. ASSUME NEW d \in Hardware \ plugged, PlugChange(plugged \cup {d}, "arrived") PROVE Good'
  <2>1. TypeOK'
    <3>1. plugged' \subseteq Hardware /\ plugs' \in 0..MaxPlugs
      BY <1>1 DEF PlugChange
    <3>2. pending' \subseteq {"arrived", "left"} /\ unseen' \in BOOLEAN
      BY <1>1 DEF PlugChange
    <3> QED BY <1>1, <3>1, <3>2 DEF PlugChange
  <2>2. CallerInv'
    BY <1>1 DEF PlugChange
  <2>3. ThreadInv'
    BY <1>1 DEF PlugChange
  <2>4. ScanInv'
    BY <1>1 DEF PlugChange
  <2> QED BY <2>1, <2>2, <2>3, <2>4
<1>2. ASSUME NEW d \in plugged, PlugChange(plugged \ {d}, "left") PROVE Good'
  <2>1. TypeOK'
    <3>1. plugged' \subseteq Hardware /\ plugs' \in 0..MaxPlugs
      BY <1>2 DEF PlugChange
    <3>2. pending' \subseteq {"arrived", "left"} /\ unseen' \in BOOLEAN
      BY <1>2 DEF PlugChange
    <3> QED BY <1>2, <3>1, <3>2 DEF PlugChange
  <2>2. CallerInv'
    BY <1>2 DEF PlugChange
  <2>3. ThreadInv'
    BY <1>2 DEF PlugChange
  <2>4. ScanInv'
    BY <1>2 DEF PlugChange
  <2> QED BY <2>1, <2>2, <2>3, <2>4
<1>3. ASSUME RegisterHotplugCallback PROVE Good'
  BY <1>3 DEF RegisterHotplugCallback
<1>21. ASSUME RegisterFails PROVE Good'
  BY <1>21 DEF RegisterFails
<1>4. ASSUME StartHotplugProc PROVE Good'
  <2>1. TypeOK'
    BY <1>4 DEF StartHotplugProc
  <2>2. CallerInv'
    BY <1>4 DEF StartHotplugProc
  <2>3. ThreadInv'
    BY <1>4 DEF StartHotplugProc
  <2>4. ScanInv'
    BY <1>4 DEF StartHotplugProc
  <2> QED BY <2>1, <2>2, <2>3, <2>4
<1>5. ASSUME StopHotplugProc PROVE Good'
  BY <1>5 DEF StopHotplugProc
<1>6. ASSUME JoinHotplug PROVE Good'
  BY <1>6 DEF JoinHotplug
<1>7. ASSUME MainCall \/ MainMethod \/ \E t \in Session!Captures : SamplingThread(t) PROVE Good'
  <2>1. TypeOK'
    BY <1>7, SessionKeepsSelection
  <2>2. CallerInv'
    BY <1>7, SessionKeepsSelection
  <2>3. ThreadInv'
    BY <1>7, SessionKeepsSelection
  <2>4. ScanInv'
    BY <1>7, SessionKeepsSelection
  <2> QED BY <2>1, <2>2, <2>3, <2>4
<1>8. ASSUME StartWithoutDevice PROVE Good'
  BY <1>8 DEF StartWithoutDevice, captureVars
<1>9. ASSUME HandleEvents PROVE Good'
  <2>2. CallerInv'
    BY <1>9 DEF HandleEvents, HotplugCallback, Rescan
  <2>3. ThreadInv'
    BY <1>9 DEF HandleEvents, HotplugCallback, Rescan
  <2>4. ScanInv'
    BY <1>9 DEF HandleEvents, HotplugCallback, Rescan
  <2>1. TypeOK'
    <3>1. scans' \in 0..MaxPlugs
      <4>1. scans' \in Nat /\ scans' <= plugs'
        BY <2>4
      <4>2. plugs' = plugs
        BY <1>9 DEF HandleEvents, HotplugCallback, Rescan
      <4> QED BY <4>1, <4>2
    <3>2. hot_attach' \in BOOLEAN /\ hot_detach' \in BOOLEAN /\ pending' \subseteq {"arrived", "left"}
      BY <1>9 DEF HandleEvents, HotplugCallback, Rescan
    <3>3. hot' \in {"scan", "sleep", "finish"} /\ drivers' \subseteq Drivers
      BY <1>9 DEF HandleEvents, HotplugCallback, Rescan
    <3> QED BY <1>9, <3>1, <3>2, <3>3 DEF HandleEvents, HotplugCallback, Rescan
  <2> QED BY <2>1, <2>2, <2>3, <2>4
<1>10. ASSUME NEW driver \in Drivers, DriverScan(driver) PROVE Good'
  BY <1>10 DEF DriverScan, Replace, Found
<1>11. ASSUME NEW driver \in Drivers, DriverScanRelease(driver) PROVE Good'
  BY <1>11 DEF DriverScanRelease, captureVars
<1>12. ASSUME DriverScanDestroy PROVE Good'
  BY <1>12 DEF DriverScanDestroy, captureVars
<1>13. ASSUME NEW o \in listed, SetDefaultDevice(o) PROVE Good'
  <2>1. TypeOK'
    BY <1>13 DEF SetDefaultDevice, captureVars, Opened
  <2>2. CallerInv'
    BY <1>13 DEF SetDefaultDevice, captureVars, Opened
  <2>3. ThreadInv'
    BY <1>13 DEF SetDefaultDevice, captureVars, Opened
  <2>4. ScanInv'
    BY <1>13 DEF SetDefaultDevice, captureVars, Opened
  <2> QED BY <2>1, <2>2, <2>3, <2>4
<1>14. ASSUME NEW o \in listed, SetDefaultThrows(o) PROVE Good'
  <2>1. TypeOK'
    BY <1>14 DEF SetDefaultThrows, captureVars, Opened
  <2>2. CallerInv'
    BY <1>14 DEF SetDefaultThrows, captureVars, Opened
  <2>3. ThreadInv'
    BY <1>14 DEF SetDefaultThrows, captureVars, Opened
  <2>4. ScanInv'
    BY <1>14 DEF SetDefaultThrows, captureVars, Opened
  <2> QED BY <2>1, <2>2, <2>3, <2>4
<1>15. ASSUME SetDefaultNone PROVE Good'
  BY <1>15 DEF SetDefaultNone
<1>16. ASSUME FinishAttach PROVE Good'
  <2>1. CallerInv' /\ ThreadInv'
    BY <1>16 DEF FinishAttach, AfterArrival, Rescan
  <2>2. ScanInv'
    <3>1. CASE hot_detach
      BY <1>16, <3>1 DEF FinishAttach, AfterArrival, Rescan
    <3>2. CASE ~hot_detach
      BY <1>16, <3>2 DEF FinishAttach, AfterArrival
    <3> QED BY <3>1, <3>2
  <2>3. scans' \in 0..MaxPlugs
    <3>1. plugs' = plugs /\ plugs \in 0..MaxPlugs
      BY <1>16 DEF FinishAttach
    <3> QED BY <2>2, <3>1
  <2>4. TypeOK'
    BY <1>16, <2>3 DEF FinishAttach, AfterArrival, Rescan
  <2> QED BY <2>1, <2>2, <2>4
<1>20. ASSUME FinishAttachFails PROVE Good'
  BY <1>20 DEF FinishAttachFails, captureVars
<1>17. ASSUME FinishDetach PROVE Good'
  <2>1. TypeOK'
    BY <1>17 DEF FinishDetach
  <2>2. CallerInv'
    BY <1>17 DEF FinishDetach
  <2>3. ThreadInv'
    BY <1>17 DEF FinishDetach
  <2>4. ScanInv'
    BY <1>17 DEF FinishDetach
  <2> QED BY <2>1, <2>2, <2>3, <2>4
<1>18. ASSUME Sleep PROVE Good'
  BY <1>18 DEF Sleep
<1>19. CASE UNCHANGED vars
  BY <1>19 DEF vars
<1> QED BY <1>1, <1>2, <1>3, <1>4, <1>5, <1>6, <1>7, <1>8, <1>9, <1>10, <1>11, <1>12,
       <1>13, <1>14, <1>15, <1>16, <1>17, <1>18, <1>19, <1>20,
       <1>21
    DEF Next, Arrive, Leave, HotplugProc

(* The selection, through release, rescan and choice. *)
LEMMA SelectionInductive ==
    TypeOK /\ CallerInv /\ ThreadInv /\ SelectionInv /\ [Next]_vars => SelectionInv'
<1> SUFFICES ASSUME TypeOK, CallerInv, ThreadInv, SelectionInv, [Next]_vars PROVE SelectionInv'
  OBVIOUS
<1> USE DEF TypeOK, CallerInv, ThreadInv, SelectionInv, Drivers,
            Session!Sessions, Session!NoSession,
            callerVars, sessionVars, worldVars, flagVars, hotVars
<1>1. ASSUME NEW d \in Hardware \ plugged, PlugChange(plugged \cup {d}, "arrived") PROVE SelectionInv'
  BY <1>1 DEF PlugChange
<1>2. ASSUME NEW d \in plugged, PlugChange(plugged \ {d}, "left") PROVE SelectionInv'
  BY <1>2 DEF PlugChange
<1>3. ASSUME RegisterHotplugCallback \/ RegisterFails PROVE SelectionInv'
  BY <1>3 DEF RegisterHotplugCallback, RegisterFails
<1>4. ASSUME StartHotplugProc PROVE SelectionInv'
  BY <1>4 DEF StartHotplugProc
<1>5. ASSUME StopHotplugProc PROVE SelectionInv'
  BY <1>5 DEF StopHotplugProc
<1>6. ASSUME JoinHotplug PROVE SelectionInv'
  BY <1>6 DEF JoinHotplug
<1>7. ASSUME MainCall \/ MainMethod \/ \E t \in Session!Captures : SamplingThread(t) PROVE SelectionInv'
  BY <1>7, SessionKeepsSelection
<1>8. ASSUME StartWithoutDevice PROVE SelectionInv'
  BY <1>8 DEF StartWithoutDevice, captureVars
<1>9. ASSUME HandleEvents PROVE SelectionInv'
  <2>1. dev_inst = NoDevice \/ \E driver \in Drivers : dev_inst \in OfDriver(driver)
    BY DriversCover
  <2> QED BY <1>9, <2>1 DEF HandleEvents, HotplugCallback, Rescan
<1>10. ASSUME NEW driver \in Drivers, DriverScan(driver) PROVE SelectionInv'
  BY <1>10 DEF DriverScan, Replace, Found
<1>11. ASSUME NEW driver \in Drivers, DriverScanRelease(driver) PROVE SelectionInv'
  BY <1>11 DEF DriverScanRelease, captureVars
<1>12. ASSUME DriverScanDestroy PROVE SelectionInv'
  BY <1>12 DEF DriverScanDestroy, captureVars
<1>13. ASSUME NEW o \in listed, SetDefaultDevice(o) PROVE SelectionInv'
  <2>1. o # NoDevice
    BY DriversCover
  <2> QED BY <1>13, <2>1 DEF SetDefaultDevice, captureVars, Opened
<1>14. ASSUME NEW o \in listed, SetDefaultThrows(o) PROVE SelectionInv'
  <2>1. o # NoDevice
    BY DriversCover
  <2> QED BY <1>14, <2>1 DEF SetDefaultThrows, captureVars, Opened
<1>15. ASSUME SetDefaultNone PROVE SelectionInv'
  BY <1>15 DEF SetDefaultNone
<1>16. ASSUME FinishAttach PROVE SelectionInv'
  <2>1. dev_inst = NoDevice \/ \E driver \in Drivers : dev_inst \in OfDriver(driver)
    BY DriversCover
  <2> QED BY <1>16, <2>1 DEF FinishAttach, AfterArrival, Rescan
<1>20. ASSUME FinishAttachFails PROVE SelectionInv'
  BY <1>20 DEF FinishAttachFails, captureVars
<1>17. ASSUME FinishDetach PROVE SelectionInv'
  BY <1>17 DEF FinishDetach
<1>18. ASSUME Sleep PROVE SelectionInv'
  BY <1>18 DEF Sleep
<1>19. CASE UNCHANGED vars
  BY <1>19 DEF vars
<1> QED BY <1>1, <1>2, <1>3, <1>4, <1>5, <1>6, <1>7, <1>8, <1>9, <1>10, <1>11, <1>12,
       <1>13, <1>14, <1>15, <1>16, <1>17, <1>18, <1>19, <1>20
    DEF Next, Arrive, Leave, HotplugProc

----------------------------------------------------------------------------
(* The invariant holds from the constructor's scan on. *)
LEMMA HotInvHolds == SafeSpec => []HotInv
<1>1. Init => HotInv
  <2> SUFFICES ASSUME Init PROVE HotInv
    OBVIOUS
  <2> USE HotPlugAssumption DEF Init
  <2>1. listed \subseteq Objects
    BY DEF Objects
  <2>2. /\ dev_inst \in listed \cup {NoDevice}
        /\ owned = {dev_inst} \ {NoDevice}
        /\ sr \in Session!Sessions
        /\ sr.dev = dev_inst /\ sr.alive = (dev_inst # NoDevice)
    <3>1. CASE listed = {}
      <4>1. dev_inst = NoDevice /\ owned = {} /\ sr = Session!NoSession
        BY <3>1
      <4> QED BY <4>1 DEF Session!NoSession, Session!Sessions
    <3>2. CASE listed # {}
      <4>1. dev_inst \in listed /\ owned = {dev_inst} /\ sr = Opened(dev_inst)
        BY <3>2 DEF Defaults
      <4>2. dev_inst \in Objects /\ dev_inst # NoDevice
        BY <4>1, <2>1, DriversCover
      <4> QED BY <4>1, <4>2 DEF Opened, Session!NoSession, Session!Sessions
    <3> QED BY <3>1, <3>2
  <2>3. TypeOK
    <3>1. dev_inst \in Objects \cup {NoDevice} /\ owned \subseteq Objects
      BY <2>1, <2>2
    <3>2. plugs \in 0..MaxPlugs /\ scans \in 0..MaxPlugs
      OBVIOUS
    <3> QED BY <2>1, <3>1, <3>2 DEF TypeOK, Drivers, Session!Crashes
  <2>4. CallerInv /\ ThreadInv /\ ScanInv
    BY <2>2 DEF CallerInv, ThreadInv, ScanInv, Owed, Rescans
  <2>5. SelectionInv
    BY <2>2 DEF SelectionInv
  <2> QED BY <2>3, <2>4, <2>5 DEF HotInv
<1>2. HotInv /\ [Next]_vars => HotInv'
  BY TypeInductive, SelectionInductive DEF HotInv
<1> QED BY <1>1, <1>2, PTL DEF SafeSpec

(* The variables of the device list and of the thread keep their types; in
   particular there is never a scan without a plug change to answer. *)
THEOREM HotPlugTypeOK == SafeSpec => []TypeOK
<1>1. HotInv => TypeOK
  BY DEF HotInv
<1> QED BY <1>1, HotInvHolds, PTL

(* The device selected, owned and opened is always one that is listed, however
   rescans interleave with captures. *)
THEOREM SelectionIsListed == SafeSpec => []SelectedIsListed
<1>1. HotInv => SelectedIsListed
  BY DEF HotInv, SelectionInv, SelectedIsListed
<1> QED BY <1>1, HotInvHolds, PTL

(* When the rescan selects a device it finds none in use, and no session. *)
THEOREM SelectionFindsReleased == SafeSpec => []DefaultFindsReleased
<1>1. HotInv => DefaultFindsReleased
  BY DEF HotInv, SelectionInv, DefaultFindsReleased
<1> QED BY <1>1, HotInvHolds, PTL
============================================================================
