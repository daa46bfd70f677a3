------------------------------ MODULE HotPlug ------------------------------
(***************************************************************************)
(* devicemanager.cpp and the hot-plug part of sigsession.cpp: the list of  *)
(* Device objects, which a rescan replaces, and the thread that rescans    *)
(* and selects a device when libusb reports that hardware arrived or left. *)
(*                                                                         *)
(* The session, its sampling threads and libsigrok are SigSession's. Its   *)
(* caller is the main thread, which starts and stops captures; the         *)
(* hot-plug thread calls into the session between any two of its steps.    *)
(*                                                                         *)
(* A Device object is the device it stands for and the scan that made it.  *)
(***************************************************************************)
EXTENDS Naturals

CONSTANTS Hardware,     \* devices that can be plugged in
          Builtin,      \* virtual devices
          NoDevice, MaxCaptures, MaxQueued, CallerWaits,
          MaxPlugs      \* model bound: how often hardware arrives or leaves

ASSUME HotPlugAssumption ==
    /\ Hardware \cap Builtin = {} /\ MaxPlugs \in Nat
    /\ NoDevice \notin (Hardware \cup Builtin) \X Nat

VARIABLES call, at, new_dev, dev_inst, owned, usable, capture_state, instant,
          error, sampling_thread, captures, pc, dev, sr, dso_queue, crashed

VARIABLES
    plugged,      \* the hardware that is there (external)
    virtuals,     \* the virtual devices every scan finds (external)
    plugs,        \* how often it has changed
    pending,      \* events libusb has not yet called back (external)
    listed,       \* _devices
    scans,        \* calls of scan_all_drivers()
    hot,          \* where the hot-plug thread is
    drivers,      \* the drivers its scan has yet to visit
    hot_attach,   \* _hot_attach
    hot_detach,   \* _hot_detach
    interrupted,  \* the thread has been interrupted
    registered,   \* libusb has hotplug_callback() (external)
    unseen,       \* hardware changed while no callback was registered, and
                  \* no rescan has come since
    main          \* how far the main thread is with setting this up

Objects == (Hardware \cup Builtin) \X (0..MaxPlugs)

Session == INSTANCE SigSession WITH
    Devices <- Objects, Virtual <- Builtin \X (0..MaxPlugs)

callerVars == <<call, at, new_dev>>
captureVars == <<capture_state, instant, error, sampling_thread, captures, pc, dev, dso_queue>>
sessionVars == <<call, at, new_dev, dev_inst, owned, usable, capture_state, instant,
                 error, sampling_thread, captures, pc, dev, sr, dso_queue, crashed>>
worldVars == <<plugged, virtuals, plugs, pending, registered>>
flagVars == <<hot_attach, hot_detach>>
hotVars == <<worldVars, listed, scans, hot, drivers, flagVars, interrupted, unseen, main>>
vars == <<sessionVars, hotVars>>

Drivers == {"hardware", "virtual"}

(* What a driver's scan finds. *)
Found(driver) == IF driver = "hardware" THEN plugged ELSE virtuals

OfDriver(driver) == {o \in Objects : o[1] \in IF driver = "hardware" THEN Hardware ELSE Builtin}

(* What set_default_device() may choose: the first listed device that is not
   virtual, otherwise the first. The order of the list is up to the scan. *)
Defaults(list) == IF list \cap OfDriver("hardware") # {}
                    THEN list \cap OfDriver("hardware") ELSE list

Opened(o) == [Session!NoSession EXCEPT !.alive = TRUE, !.dev = o, !.callback = TRUE]

(* The device manager has scanned, and the default device is selected. *)
Init ==
    /\ plugged \in SUBSET Hardware /\ virtuals \in SUBSET Builtin
    /\ plugs = 0 /\ pending = {}
    /\ listed = (plugged \cup virtuals) \X {0}
    /\ scans = 0 /\ hot = "off" /\ drivers = {}
    /\ hot_attach = FALSE /\ hot_detach = FALSE /\ interrupted = FALSE
    /\ registered = FALSE /\ unseen = FALSE
    /\ main = "setup"
    /\ call = "set_device" /\ at = "idle"
    /\ IF listed = {}
         THEN dev_inst = NoDevice /\ owned = {} /\ sr = Session!NoSession
         ELSE dev_inst \in Defaults(listed) /\ owned = {dev_inst} /\ sr = Opened(dev_inst)
    /\ new_dev = dev_inst
    /\ usable \in {Objects, Objects \ owned}
    /\ capture_state = "Init" /\ instant = FALSE /\ error = "No_err"
    /\ sampling_thread = 0 /\ captures = 0
    /\ pc = [t \in Session!Captures |-> "unused"]
    /\ dev = [t \in Session!Captures |-> NoDevice]
    /\ dso_queue = <<>> /\ crashed = "no"

----------------------------------------------------------------------------
(* Hardware arrives and leaves; events come if the callback is registered. *)

PlugChange(now, event) ==
    /\ Session!Alive /\ plugs < MaxPlugs
    /\ plugged' = now /\ plugs' = plugs + 1
    /\ IF registered THEN pending' = pending \cup {event} /\ UNCHANGED unseen
                     ELSE unseen' = TRUE /\ UNCHANGED pending
    /\ UNCHANGED <<sessionVars, virtuals, registered, listed, scans, hot, drivers, flagVars,
                   interrupted, main>>

Arrive == \E d \in Hardware \ plugged : PlugChange(plugged \cup {d}, "arrived")

Leave == \E d \in plugged : PlugChange(plugged \ {d}, "left")

----------------------------------------------------------------------------
(* The main thread. *)

MainMay == Session!Alive /\ at = "idle"

(* LIBUSB_HOTPLUG_ENUMERATE calls back at once for what is plugged in. *)
RegisterHotplugCallback ==
    /\ MainMay /\ main = "setup"
    /\ registered' = TRUE
    /\ hot_attach' = (plugged # {})
    /\ main' = "registered"
    /\ UNCHANGED <<sessionVars, plugged, virtuals, plugs, pending, listed, scans, hot, drivers,
                   hot_detach, interrupted, unseen>>

(* libusb refuses: that is printed, and the program goes on without events. *)
RegisterFails ==
    /\ MainMay /\ main = "setup"
    /\ main' = "registered"
    /\ UNCHANGED <<sessionVars, worldVars, listed, scans, hot, drivers, flagVars, interrupted, unseen>>

StartHotplugProc ==
    /\ MainMay /\ main = "registered"
    /\ hot_attach' = FALSE /\ hot_detach' = FALSE
    /\ hot' = IF dev_inst = NoDevice THEN "done" ELSE "events"
    /\ main' = "started"
    /\ UNCHANGED <<sessionVars, worldVars, listed, scans, drivers, interrupted, unseen>>

StopHotplugProc ==
    /\ MainMay /\ main = "started"
    /\ interrupted' = TRUE
    /\ main' = "stopping"
    /\ UNCHANGED <<sessionVars, worldVars, listed, scans, hot, drivers, flagVars, unseen>>

JoinHotplug ==
    /\ Session!Alive /\ main = "stopping" /\ hot = "done"
    /\ main' = "stopped"
    /\ UNCHANGED <<sessionVars, worldVars, listed, scans, hot, drivers, flagVars, interrupted, unseen>>

MainCall ==
    /\ main # "stopping"
    /\ Session!CallStart("start") \/ Session!CallStartUnusable \/ Session!CallStop
    /\ UNCHANGED hotVars

(* start_capture() tested _dev_inst on entry and uses it again after
   stop_capture(): by then the hot-plug thread may have released it. *)
StartWithoutDevice ==
    /\ Session!Alive /\ at = "spawn" /\ dev_inst = NoDevice
    /\ crashed' = "null_device"
    /\ UNCHANGED <<callerVars, dev_inst, owned, usable, captureVars, sr, hotVars>>

MainMethod ==
    /\ at = "spawn" => dev_inst # NoDevice
    /\ Session!Method
    /\ UNCHANGED hotVars

----------------------------------------------------------------------------
(* The hot-plug thread: hotplug_proc() and what it calls. *)

Rescan == hot' = "scan" /\ drivers' = Drivers

IgnoreLeft(events) ==     \* mutant: the callback handles arrivals only
    /\ hot_attach' = (hot_attach \/ "arrived" \in events)
    /\ UNCHANGED hot_detach

(* hotplug_callback(), once for each event. *)
HotplugCallback(events) ==
    /\ hot_attach' = (hot_attach \/ "arrived" \in events)
    /\ hot_detach' = (hot_detach \/ "left" \in events)

(* libusb_handle_events_timeout() calls back for what has arrived. *)
HandleEvents ==
    /\ Session!Alive /\ hot = "events"
    /\ \E events \in SUBSET pending :
         /\ pending # {} => events # {}
         /\ HotplugCallback(events)
         /\ pending' = pending \ events
    /\ IF hot_attach' \/ hot_detach' THEN Rescan /\ scans' = scans + 1 /\ unseen' = FALSE
       ELSE hot' = "sleep" /\ UNCHANGED <<drivers, scans, unseen>>
    /\ UNCHANGED <<sessionVars, plugged, virtuals, plugs, registered, listed, interrupted, main>>

(* driver_scan() replaces a driver's objects in the list by what it finds. *)
Replace(driver) ==
    /\ listed' = (listed \ OfDriver(driver)) \cup (Found(driver) \X {scans})
    /\ drivers' = drivers \ {driver}
    /\ hot' = IF drivers = {driver} THEN "default" ELSE "scan"

EraseOnly(driver) ==     \* mutant: driver_scan() erases its objects without releasing them
    /\ Session!Alive /\ hot = "scan" /\ driver \in drivers
    /\ Replace(driver)
    /\ UNCHANGED <<sessionVars, worldVars, scans, flagVars, interrupted, unseen, main>>

DriverScan(driver) ==
    /\ Session!Alive /\ hot = "scan" /\ driver \in drivers
    /\ owned \cap listed \cap OfDriver(driver) = {}
    /\ Replace(driver)
    /\ UNCHANGED <<sessionVars, worldVars, scans, flagVars, interrupted, unseen, main>>

(* The device in use is released first; release_device() asserts that the
   session is not capturing. *)
DriverScanRelease(driver) ==
    /\ Session!Alive /\ hot = "scan" /\ driver \in drivers
    /\ owned \cap listed \cap OfDriver(driver) # {}
    /\ IF capture_state = "Running"
         THEN crashed' = "assert_running" /\ UNCHANGED <<dev_inst, owned, hot>>
         ELSE dev_inst' = NoDevice /\ owned' = {} /\ hot' = "destroy" /\ UNCHANGED crashed
    /\ UNCHANGED <<callerVars, usable, captureVars, sr, worldVars, listed, scans,
                   drivers, flagVars, interrupted, unseen, main>>

KeepSession ==     \* mutant: Device::release() without sr_session_destroy()
    /\ Session!Alive /\ hot = "destroy"
    /\ hot' = "scan"
    /\ UNCHANGED <<sessionVars, worldVars, listed, scans, drivers, flagVars, interrupted, unseen, main>>

DriverScanDestroy ==
    /\ Session!Alive /\ hot = "destroy"
    /\ sr' = Session!NoSession
    /\ hot' = "scan"
    /\ UNCHANGED <<callerVars, dev_inst, owned, usable, captureVars, crashed, worldVars,
                   listed, scans, drivers, flagVars, interrupted, unseen, main>>

(* set_default_device() -> set_device(), which finds no device selected. *)
SetDefaultDevice(o) ==
    /\ Session!Alive /\ hot = "default" /\ o \in Defaults(listed)
    /\ dev_inst' = o /\ owned' = owned \cup {o}
    /\ usable' \in {usable \cup {o}, usable \ {o}}
    /\ sr' = Opened(o)
    /\ hot' = "finish"
    /\ UNCHANGED <<callerVars, captureVars, crashed, worldVars, listed, scans, drivers,
                   flagVars, interrupted, unseen, main>>

SetDefaultNone ==
    /\ Session!Alive /\ hot = "default" /\ listed = {}
    /\ hot' = "finish"
    /\ UNCHANGED <<sessionVars, worldVars, listed, scans, drivers, flagVars, interrupted, unseen, main>>

(* use() throws: catch (...) ends the thread. *)
SetDefaultThrows(o) ==
    /\ Session!Alive /\ hot = "default" /\ o \in Defaults(listed)
    /\ dev_inst' = o /\ owned' = owned \cup {o}
    /\ usable' \in {usable \cup {o}, usable \ {o}}
    /\ sr' = [Opened(o) EXCEPT !.dev = NoDevice, !.callback = FALSE]
    /\ hot' = "done"
    /\ UNCHANGED <<callerVars, captureVars, crashed, worldVars, listed, scans, drivers,
                   flagVars, interrupted, unseen, main>>

(* Then comes the branch for departures, which rescans once more. *)
AfterArrival ==
    /\ hot_attach' = FALSE
    /\ IF hot_detach THEN Rescan /\ scans' = scans + 1
       ELSE hot' = "sleep" /\ UNCHANGED <<drivers, scans>>

KeepFlag ==     \* mutant: the branch for arrivals does not reset its flag
    /\ Session!Alive /\ hot = "finish" /\ hot_attach
    /\ hot' = "sleep"
    /\ UNCHANGED <<sessionVars, worldVars, listed, scans, drivers, flagVars, interrupted, unseen, main>>

(* The end of the branch for arrivals: set_ch_enable() and set_limit_samples()
   change, or fail to change, nothing but the device. *)
FinishAttach ==
    /\ Session!Alive /\ hot = "finish" /\ hot_attach
    /\ dev_inst # NoDevice
    /\ AfterArrival
    /\ UNCHANGED <<sessionVars, worldVars, listed, hot_detach, interrupted, unseen, main>>

(* They need a device, of which set_ch_enable() asserts that its driver gave it
   a channel 1. *)
FinishAttachFails ==
    /\ Session!Alive /\ hot = "finish" /\ hot_attach
    /\ crashed' = IF dev_inst = NoDevice THEN "null_device" ELSE "assert_channel"
    /\ UNCHANGED <<callerVars, dev_inst, owned, usable, captureVars, sr, hotVars>>

FinishDetach ==
    /\ Session!Alive /\ hot = "finish" /\ ~hot_attach
    /\ hot_detach' = FALSE
    /\ hot' = "sleep"
    /\ UNCHANGED <<sessionVars, worldVars, listed, scans, drivers, hot_attach, interrupted,
                   unseen, main>>

SleepOn ==     \* mutant: the sleep is not interrupted
    /\ Session!Alive /\ hot = "sleep"
    /\ hot' = "events"
    /\ UNCHANGED <<sessionVars, worldVars, listed, scans, drivers, flagVars, interrupted, unseen, main>>

(* sleep() is where an interruption ends the thread. *)
Sleep ==
    /\ Session!Alive /\ hot = "sleep"
    /\ hot' = IF interrupted THEN "done" ELSE "events"
    /\ UNCHANGED <<sessionVars, worldVars, listed, scans, drivers, flagVars, interrupted, unseen, main>>

HotplugProc ==
    \/ HandleEvents
    \/ \E driver \in Drivers : DriverScan(driver) \/ DriverScanRelease(driver)
    \/ DriverScanDestroy
    \/ \E o \in listed : SetDefaultDevice(o) \/ SetDefaultThrows(o)
    \/ SetDefaultNone
    \/ FinishAttach \/ FinishAttachFails \/ FinishDetach
    \/ Sleep

SamplingThread(t) == Session!SamplingThread(t) /\ UNCHANGED hotVars

Next ==
    \/ Arrive \/ Leave
    \/ RegisterHotplugCallback \/ RegisterFails
    \/ StartHotplugProc \/ StopHotplugProc \/ JoinHotplug
    \/ MainCall \/ MainMethod \/ StartWithoutDevice
    \/ HotplugProc
    \/ \E t \in Session!Captures : SamplingThread(t)

SafeSpec == Init /\ [][Next]_vars

(* The thread's loop goes on. Nobody has to call, plug in or stop anything. *)
Fairness == WF_vars(HotplugProc) /\ WF_vars(JoinHotplug)

Spec == SafeSpec /\ Fairness

----------------------------------------------------------------------------
TypeOK ==
    /\ plugged \subseteq Hardware /\ virtuals \subseteq Builtin /\ plugs \in 0..MaxPlugs
    /\ pending \subseteq {"arrived", "left"}
    /\ listed \subseteq Objects /\ scans \in 0..MaxPlugs
    /\ hot \in {"off", "events", "scan", "destroy", "default", "finish", "sleep", "done"}
    /\ drivers \subseteq Drivers
    /\ hot_attach \in BOOLEAN /\ hot_detach \in BOOLEAN /\ interrupted \in BOOLEAN
    /\ registered \in BOOLEAN /\ unseen \in BOOLEAN
    /\ main \in {"setup", "registered", "started", "stopping", "stopped"}
    /\ dev_inst \in Objects \cup {NoDevice} /\ owned \subseteq Objects
    /\ crashed \in Session!Crashes \cup {"assert_channel"}

(* A rescan frees the libsigrok devices of all objects it takes off the list,
   "They will not be valid after the scan" (devicemanager.cpp:83): whatever
   the main thread and a capture do meanwhile, the device the session has
   selected, owns and has opened is always one that is still listed. *)
SelectedIsListed ==
    /\ dev_inst \in listed \cup {NoDevice}
    /\ owned \subseteq {dev_inst}
    /\ sr.dev \in listed \cup {NoDevice}

(* set_device() relies on the rescan to have released the old device: when
   the new one is selected, use() finds no owner and no libsigrok session
   that the new one would replace. *)
DefaultFindsReleased ==
    hot = "default" => dev_inst = NoDevice /\ owned = {} /\ ~sr.alive

(* Once hardware stops arriving and leaving, the session has a device that is
   there: hardware if there is any, otherwise a virtual one - unless the
   thread has ended or the process has. Two events that one callback round
   merges, or that come during a rescan, are not lost. Exempt (unseen) is a
   change while no callback is registered, until the next rescan: before the
   registration it is lost because start_hotplug_proc() resets the flag that
   LIBUSB_HOTPLUG_ENUMERATE has set; after a registration that failed no event
   and no rescan ever come. *)
SelectionFollowsHardware ==
    <>[](\/ ~Session!Alive
         \/ hot \in {"off", "done"} \/ unseen
         \/ dev_inst # NoDevice /\ dev_inst[1] \in (IF plugged = {} THEN virtuals ELSE plugged)
         \/ dev_inst = NoDevice /\ plugged \cup virtuals = {})

(* stop_hotplug_proc() returns. *)
StopHotplugReturns == main = "stopping" ~> (main = "stopped" \/ ~Session!Alive)

(* "Ensure we are not capturing before setting the device"
   (sigsession.cpp:93). *)
NotCapturingWhenSet == hot = "default" => Session!Live = {}
============================================================================
