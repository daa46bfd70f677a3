---------------------------- MODULE DscopeSource ----------------------------
(***************************************************************************)
(* DscopeSource.cpp: the Pothos source block. The framework's actor calls  *)
(* the block's methods one at a time (external); the block owns the packet *)
(* queue, the DeviceManager and the SigSession, starts a capture in        *)
(* activate(), stops it in deactivate(), and takes one packet per work().  *)
(* It configures the selected device in the constructor and in setters;    *)
(* voltage divider and sample rate are known by how often the device has   *)
(* taken a new one of either.                                              *)
(*                                                                         *)
(* The session, its sampling threads and libsigrok are SigSession's; its   *)
(* caller is the actor.                                                    *)
(***************************************************************************)
EXTENDS Naturals, Sequences

CONSTANTS Devices, Virtual, NoDevice, MaxCaptures, MaxQueued, CallerWaits,
          DSCope,       \* the devices named "DSCope"
          Scans,        \* the device lists that scan_all_drivers() may produce
          MaxSettings   \* model bound: settings a device takes

ASSUME SessionAssumption ==
    /\ Virtual \subseteq Devices /\ NoDevice \notin Devices
    /\ MaxCaptures \in Nat /\ MaxQueued \in Nat /\ CallerWaits \in BOOLEAN
ASSUME ScanAssumption == DSCope \subseteq Devices /\ Scans \subseteq Seq(Devices)
ASSUME SettingAssumption == MaxSettings \in Nat \ {0}

VARIABLES call, at, new_dev, dev_inst, owned, usable, capture_state, instant,
          error, sampling_thread, captures, pc, dev, sr, dso_queue, crashed

VARIABLES life,          \* what the actor does with the block
          devices,       \* _device_manager->devices()
          queue_alive,   \* dso_queue points to a queue that is not deleted
          config,        \* the selected device's setting, sample limit and enabled probes
          cached,        \* _cur_samplelimits
          stamps,        \* for each packet queued, the setting it was captured with
          vdiv,          \* work()'s local: the setting it has read, 0 if that failed
          sendLabel,     \* _sendLabel
          last_out,      \* the capture of the last packet produced, 0 if none
          labelled,      \* rxRate posted since the last activate()
          worked         \* work() produced since the last activate()

Session == INSTANCE SigSession

(* The session's variables but those that the block's own steps change. *)
threadVars == <<call, at, new_dev, usable, capture_state, instant, error,
                sampling_thread, captures, pc, dev>>
sessionVars == <<threadVars, dev_inst, owned, sr, dso_queue, crashed>>
ownVars == <<devices, queue_alive>>
configVars == <<config, cached>>
streamVars == <<stamps, vdiv, sendLabel, last_out, labelled, worked>>
blockVars == <<life, ownVars, configVars, streamVars>>
vars == <<sessionVars, blockVars>>

Lives == {"none", "failed", "constructing", "inactive", "active", "taking",
          "del_manager", "sr_destroy", "del_session", "destructing"}

(* The block exists and its methods may be called. *)
Built == {"inactive", "active", "taking"}

Init ==
    /\ Session!Init
    /\ life = "none" /\ devices \in Scans
    /\ queue_alive = FALSE /\ sendLabel = TRUE
    /\ config \in [setting : {1}, limit : {"device"}, probes : SUBSET {0, 1}]
    /\ cached = "none" /\ stamps = <<>> /\ vdiv = 0
    /\ last_out = 0 /\ labelled = FALSE /\ worked = FALSE

Goto(l) == life' = l

----------------------------------------------------------------------------
(* Device configuration. A getter yields zero, here "none" for the limit,
   when the driver cannot say; a setter that fails has no effect. *)

get_sample_limit == {config.limit, "none"}
get_voltage_div == {config.setting, 0}

set_ch_enable(c, index, enable) ==
    [c EXCEPT !.probes = IF enable THEN @ \cup {index} ELSE @ \ {index}]

set_limit_samples(c, count) == {c, [c EXCEPT !.limit = count]}

(* setVdiv() or setSamplerate(), on the actor; set_config() asserts that the
   device has its owner. *)
SetConfig ==
    /\ Session!Alive /\ at = "idle" /\ life \in {"inactive", "active"}
    /\ dev_inst \in owned /\ config.setting < MaxSettings
    /\ config' = [config EXCEPT !.setting = @ + 1]
    /\ UNCHANGED <<sessionVars, life, ownVars, cached, streamVars>>

----------------------------------------------------------------------------
(* The constructor. *)

(* set_default_device(): the first device whose name does not contain
   "virtual", otherwise the first of the list. *)
DefaultDevice(d) ==
    LET real == {i \in 1..Len(devices) : devices[i] \notin Virtual}
    IN  \E i \in 1..Len(devices) :
          /\ d = devices[i]
          /\ IF real = {} THEN i = 1 ELSE i \in real /\ \A j \in real : i <= j

(* sr_init() or the initialisation of a driver fails. *)
ConstructThrows ==
    /\ life = "none"
    /\ Goto("failed")
    /\ UNCHANGED <<sessionVars, ownVars, configVars, streamVars>>

Construct ==
    /\ life = "none"
    /\ queue_alive' = TRUE
    /\ IF devices = <<>> THEN UNCHANGED sessionVars
                         ELSE \E d \in Devices : DefaultDevice(d) /\ Session!CallSetDevice(d)
    /\ Goto("constructing")
    /\ UNCHANGED <<devices, configVars, streamVars>>

KeepQueue ==     \* mutant: destruct() does not delete the queue
    /\ UNCHANGED queue_alive
    /\ Goto("del_manager")

(* delete dso_queue: the first step of destruct(). *)
DeleteQueue ==
    /\ queue_alive' = FALSE
    /\ Goto("del_manager")

DisableOther ==     \* mutant: the constructor disables probe 0
    config' \in set_limit_samples(set_ch_enable(config, 0, FALSE), "block")

(* The settings the constructor makes. *)
ConfigureDevice ==
    config' \in set_limit_samples(set_ch_enable(config, 1, FALSE), "block")

AcceptAnyDevice ==     \* mutant: the name of the device is not compared
    /\ life = "constructing" /\ Session!MayCall
    /\ dev_inst # NoDevice
    /\ ConfigureDevice /\ Goto("inactive")
    /\ UNCHANGED <<sessionVars, ownVars, cached, streamVars>>

(* With a DSCope selected the block is ready. With another device, the
   constructor calls destruct(). *)
CheckDevice ==
    /\ life = "constructing" /\ Session!MayCall
    /\ dev_inst # NoDevice
    /\ IF dev_inst \in DSCope
         THEN ConfigureDevice /\ Goto("inactive") /\ UNCHANGED queue_alive
         ELSE DeleteQueue /\ UNCHANGED config
    /\ UNCHANGED <<sessionVars, devices, cached, streamVars>>

(* No device at all: get_device()->name() dereferences a null pointer. *)
CheckNoDevice ==
    /\ life = "constructing" /\ Session!MayCall
    /\ dev_inst = NoDevice
    /\ crashed' = "null_device"
    /\ UNCHANGED <<threadVars, dev_inst, owned, sr, dso_queue, blockVars>>

----------------------------------------------------------------------------
(* destruct(): the queue, then the device manager, then the session. *)

Destruct ==
    /\ life = "inactive" /\ Session!MayCall
    /\ DeleteQueue
    /\ UNCHANGED <<sessionVars, devices, configVars, streamVars>>

(* ~DeviceManager() -> release_devices(): the device in use makes the session
   forget it, whose assertion on the capture state may fail. *)
ManagerRelease ==
    /\ life = "del_manager" /\ Session!Alive
    /\ IF capture_state = "Running"
         THEN crashed' = "assert_running" /\ UNCHANGED <<dev_inst, owned, life>>
         ELSE dev_inst' = NoDevice /\ owned' = {} /\ Goto("sr_destroy") /\ UNCHANGED crashed
    /\ UNCHANGED <<threadVars, sr, dso_queue, ownVars, configVars, streamVars>>

(* Device::release() goes on with sr_session_destroy(); the list is freed. *)
ManagerDestroySession ==
    /\ life = "sr_destroy" /\ Session!Alive
    /\ sr' = Session!NoSession
    /\ devices' = <<>>
    /\ Goto("del_session")
    /\ UNCHANGED <<threadVars, dev_inst, owned, dso_queue, crashed,
                   queue_alive, configVars, streamVars>>

DeleteSession ==
    /\ life = "del_session"
    /\ Session!CallDestroy
    /\ Goto("destructing")
    /\ UNCHANGED <<ownVars, configVars, streamVars>>

----------------------------------------------------------------------------
(* activate(), deactivate() and work(). *)

(* start_capture(false); that the device is unusable is not reported. *)
Activate ==
    /\ life = "inactive"
    /\ Session!CallStart("start") \/ Session!CallStartUnusable
    /\ labelled' = FALSE /\ worked' = FALSE
    /\ Goto("active")
    /\ UNCHANGED <<ownVars, configVars, stamps, vdiv, sendLabel, last_out>>

Deactivate ==
    /\ life = "active"
    /\ Session!CallStop
    /\ Goto("inactive")
    /\ UNCHANGED <<ownVars, configVars, streamVars>>

WorkBeginDefault ==     \* mutant: the default divider instead of the device's
    /\ life = "active" /\ at = "idle" /\ Session!Alive
    /\ vdiv' = 1
    /\ Goto("taking")
    /\ UNCHANGED <<sessionVars, ownVars, configVars, stamps, sendLabel, last_out, labelled, worked>>

(* work() with room in the output buffer reads the divider and then waits for
   a packet; without room it returns at once. *)
WorkBegin ==
    /\ life = "active" /\ at = "idle" /\ Session!Alive
    /\ vdiv' \in get_voltage_div
    /\ Goto("taking")
    /\ UNCHANGED <<sessionVars, ownVars, configVars, stamps, sendLabel, last_out, labelled, worked>>

WorkTakeNewest ==     \* mutant: takes from the back of the deque
    LET last == Len(dso_queue)
    IN  /\ life = "taking" /\ Session!Alive
        /\ dso_queue # <<>>
        /\ dso_queue' = SubSeq(dso_queue, 1, last - 1) /\ stamps' = SubSeq(stamps, 1, last - 1)
        /\ last_out' = dso_queue[last] /\ vdiv' = 0
        /\ sendLabel' = FALSE /\ labelled' = (labelled \/ sendLabel) /\ worked' = TRUE
        /\ Goto("active")
        /\ UNCHANGED <<threadVars, dev_inst, owned, sr, crashed, ownVars, configVars>>

(* take() blocks until there is a packet, which is then converted, labelled
   with the sample rate if _sendLabel is still set, and produced. *)
WorkTake ==
    /\ life = "taking" /\ Session!Alive
    /\ dso_queue # <<>>
    /\ dso_queue' = Tail(dso_queue) /\ stamps' = Tail(stamps)
    /\ last_out' = Head(dso_queue) /\ vdiv' = 0
    /\ sendLabel' = FALSE /\ labelled' = (labelled \/ sendLabel) /\ worked' = TRUE
    /\ Goto("active")
    /\ UNCHANGED <<threadVars, dev_inst, owned, sr, crashed, ownVars, configVars>>

----------------------------------------------------------------------------
(* The session's own steps. *)

SetDeviceCachesOnly ==     \* mutant: capture_init() does not read the limit
    IF at = "use" THEN cached' \in get_sample_limit ELSE UNCHANGED cached

(* set_device() and capture_init() cache the sample limit. *)
CacheLimit ==
    IF at \in {"use", "spawn"} THEN cached' \in get_sample_limit ELSE UNCHANGED cached

(* start_capture() goes on to a sampling thread if a probe is enabled. *)
ProbeEnabled == at = "spawn" => (captures' = captures <=> config.probes = {})

Method ==
    /\ Session!Method
    /\ ProbeEnabled /\ CacheLimit
    /\ UNCHANGED <<life, ownVars, config, streamVars>>

(* A packet is on its way: data_feed_in_proc() up to its use of the session. *)
RunPacket(t) ==
    /\ \/ Session!RunPacket(t)
       \/ Session!AssertSession(t) \/ Session!AssertSessionFails(t)
       \/ Session!DataFeedInNull(t)
    /\ UNCHANGED blockVars

(* feed_in_dso() puts on the queue it was given a reference to, deleted or not.
   The packet was captured with the setting of now or an older one. *)
Feed(t) ==
    /\ IF queue_alive
         THEN Session!DataFeedIn(t)
         ELSE /\ Session!Alive /\ pc[t] = "data_feed_in"
              /\ crashed' = "freed_queue"
              /\ UNCHANGED <<threadVars, dev_inst, owned, sr, dso_queue>>
    /\ stamps' = IF dso_queue' = dso_queue THEN stamps
                 ELSE Append(stamps, config.setting)
    /\ UNCHANGED <<life, ownVars, configVars, vdiv, sendLabel, last_out, labelled, worked>>

ThreadStart(t) == /\ Session!ThreadStart(t) \/ Session!ThreadStartThrows(t)
                  /\ UNCHANGED blockVars

SetRunning(t) == Session!SetRunning(t) /\ UNCHANGED blockVars

RunAbort(t) == Session!RunAbort(t) /\ UNCHANGED blockVars

(* The acquisition ends by itself, or the session is gone. *)
RunEnds(t) == /\ Session!RunEnds(t) \/ Session!RunFreed(t)
              /\ UNCHANGED blockVars

RunReturn(t) == Session!RunReturn(t) /\ UNCHANGED blockVars

SetStopped(t) == Session!SetStopped(t) /\ UNCHANGED blockVars

Next ==
    \/ ConstructThrows \/ Construct \/ CheckDevice \/ CheckNoDevice
    \/ Activate \/ Deactivate
    \/ WorkBegin \/ WorkTake
    \/ SetConfig
    \/ Destruct \/ ManagerRelease \/ ManagerDestroySession \/ DeleteSession
    \/ Method
    \/ \E t \in Session!Captures :
         \/ ThreadStart(t) \/ SetRunning(t)
         \/ RunPacket(t) \/ Feed(t) \/ RunAbort(t) \/ RunEnds(t)
         \/ RunReturn(t) \/ SetStopped(t)

SafeSpec == Init /\ [][Next]_vars

(* Session and sampling threads keep running, and a running acquisition goes
   on delivering packets until it ends; for the strong fairness see SigSession. *)
Fairness ==
    /\ WF_vars(Method) /\ WF_vars(WorkTake)
    /\ \A t \in Session!Captures :
         /\ WF_vars(ThreadStart(t)) /\ WF_vars(SetRunning(t))
         /\ WF_vars(RunPacket(t)) /\ WF_vars(Feed(t))
         /\ SF_vars(RunAbort(t)) /\ WF_vars(RunReturn(t)) /\ WF_vars(SetStopped(t))

Spec == SafeSpec /\ Fairness

----------------------------------------------------------------------------
(* Variables of the block; those of the session as in SigSession. The queue
   exists exactly from the constructor to destruct(). *)
TypeOK ==
    /\ life \in Lives
    /\ devices \in Scans \cup {<<>>}
    /\ queue_alive = (life \in Built \cup {"constructing"})
    /\ sendLabel \in BOOLEAN
    /\ labelled \in BOOLEAN /\ worked \in BOOLEAN
    /\ cached \in {"none", "device", "block"}
    /\ Len(stamps) = Len(dso_queue) /\ vdiv \in 0..MaxSettings
    /\ last_out \in 0..captures
    /\ crashed \in Session!Crashes \cup {"freed_queue"}

(* work(), setVdiv() and setSamplerate() use get_device() without a test: as
   long as the block exists the session keeps a DSCope, owned by it, with the
   libsigrok session opened on it. *)
DeviceReady ==
    life \in Built => dev_inst \in DSCope /\ owned = {dev_inst} /\ sr.dev = dev_inst

(* If every start completes before the framework's next call (CallerWaits),
   downstream sees the captures one after the other: a packet of an earlier
   capture is never produced after one of a later capture, although nothing
   clears the queue between deactivate() and activate(). (Otherwise two
   sampling threads may feed the queue at once.) *)
OutputByCapture ==
    \A i \in 1..Len(dso_queue) :
        /\ last_out <= dso_queue[i]
        /\ \A j \in 1..i : dso_queue[j] <= dso_queue[i]

(* work() reads the divider before it blocks: still no packet is scaled with a
   setting older than the one it was captured with - the setters wait for
   work() on the actor, while packets arrive at any time. A newer setting is
   possible: nothing clears the queue. *)
ScaleNotOlder ==
    [][life = "taking" /\ life' = "active" => vdiv = 0 \/ vdiv >= Head(stamps)]_vars

(* work() takes every byte of a packet for a sample of one channel: a sampling
   thread only ever runs with channel 0 enabled alone. *)
OneChannel == Session!Live # {} => config.probes = {0}

(* The sample limit that get_capture_status() computes progress from is the
   running capture's, or zero, though the constructor changes the device's
   limit behind the value that set_device() cached. *)
LimitIsCached == Session!Live # {} => cached \in {config.limit, "none"}

(* Downstream, the block is CaptureService: captures one after the other, each
   stopped capture ended, work() taking packets in the order of capture. *)
StreamSpec == Session!CaptureSpec

(* A work() that waits while the capture runs gets a packet, unless the
   capture ends on its own. *)
WorkReturns ==
    (life = "taking" /\ capture_state = "Running")
        ~> (life # "taking" \/ capture_state # "Running" \/ ~Session!Alive)

(* "The dscope source will post a sample rate stream label named rxRate on the
   first call to work() after activate() has been called." (DscopeSource.cpp:23) *)
LabelAfterActivate == worked => labelled

(* destruct() deletes what the block owns, "IMPORTANT! the session must
   destruct last!" (DscopeSource.cpp:128), and returns; the constructor then
   throws "device DSCope not found!" (DscopeSource.cpp:112). *)
DestructSurvives == life = "destructing" => crashed # "null_device"
============================================================================
