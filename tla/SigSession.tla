----------------------------- MODULE SigSession -----------------------------
(***************************************************************************)
(* sigsession.cpp: the life cycle of a capture. One caller thread (main()  *)
(* or the Pothos actor) calls start_capture(), stop_capture(),             *)
(* init_signals(), set_device() and the destructor; every start spawns a   *)
(* sampling thread that runs the libsigrok session and feeds DSO packets   *)
(* to the queue. The two sides share _capture_state (under a mutex) and    *)
(* the one global libsigrok session.                                       *)
(*                                                                         *)
(* The queue is used through FifoQueue, which BlockingQueue implements.    *)
(* A packet is identified by the capture that produced it.                 *)
(***************************************************************************)
EXTENDS Naturals, Sequences

CONSTANTS Devices,      \* the devices set_device() may be given
          Virtual,      \* those named "virtual-session"
          NoDevice,     \* a null device pointer
          MaxCaptures,  \* model bound: sampling threads ever started
          MaxQueued,    \* model bound: no packet arrives at this queue length
          CallerWaits   \* TRUE: an assumption about the caller that nothing in
                        \* the code ensures: it makes no call while a capture
                        \* is starting

ASSUME DeviceAssumption == Virtual \subseteq Devices /\ NoDevice \notin Devices
ASSUME SessionBoundAssumption == MaxCaptures \in Nat /\ MaxQueued \in Nat
ASSUME CallerAssumption == CallerWaits \in BOOLEAN

VARIABLES
    call,             \* the method the caller executes
    at,               \* where in that method it is
    new_dev,          \* set_device()'s argument
    dev_inst,         \* _dev_inst
    owned,            \* devices whose _owner is this session
    usable,           \* devices whose _usable is set
    capture_state,    \* _capture_state
    instant,          \* _instant
    error,            \* _error
    sampling_thread,  \* _sampling_thread: the capture it can join, 0 if null
    captures,         \* captures started so far
    pc,               \* where each sampling thread is in sample_thread_proc()
    dev,              \* dev[t]: sample_thread_proc()'s argument
    sr,               \* libsigrok's global session (external)
    dso_queue,        \* _dso_queue, by the capture each packet comes from
    crashed           \* "no", or how the process was terminated

callerVars == <<call, at, new_dev>>
deviceVars == <<dev_inst, owned, usable>>
threadVars == <<captures, pc, dev>>
vars == <<call, at, new_dev, dev_inst, owned, usable, capture_state, instant,
          error, sampling_thread, captures, pc, dev, sr, dso_queue, crashed>>

Captures == 1..MaxCaptures
ThreadSteps == {"unused", "start", "set_running", "run", "data_feed_in_proc",
                "data_feed_in", "set_stopped", "done"}
Calls == {"none", "start", "start_instant", "stop", "init_signals", "set_device", "destroy"}
CallerSteps == {"idle", "stop", "sr_stop", "join", "spawn",
                "release", "sr_destroy", "clear", "use", "gone"}
Crashes == {"no", "assert_running", "assert_session", "null_session", "null_device",
            "uncaught_use", "uncaught_start", "freed_session"}

(* Sampling threads that exist. *)
Live == {t \in Captures : pc[t] \notin {"unused", "done"}}

(* Sampling threads that were started and have not yet reported Running. *)
Starting == {t \in Captures : pc[t] \in {"start", "set_running"}}

NoSession == [alive |-> FALSE, dev |-> NoDevice, callback |-> FALSE,
              abort |-> FALSE, acquiring |-> FALSE]

Sessions == [alive : BOOLEAN, dev : Devices \cup {NoDevice}, callback : BOOLEAN,
             abort : BOOLEAN, acquiring : BOOLEAN]

Alive == crashed = "no"

Crash(why) == crashed' = why

Init ==
    /\ call = "none" /\ at = "idle" /\ new_dev = NoDevice
    /\ dev_inst = NoDevice /\ owned = {} /\ usable = Devices
    /\ capture_state = "Init" /\ instant = FALSE /\ error = "No_err"
    /\ sampling_thread = 0 /\ captures = 0
    /\ pc = [t \in Captures |-> "unused"]
    /\ dev = [t \in Captures |-> NoDevice]
    /\ sr = NoSession
    /\ dso_queue = <<>>
    /\ crashed = "no"

----------------------------------------------------------------------------
(* Entering a method. The environment's freedom is when to call: neither
   main() nor the Pothos framework waits for a capture to report Running. *)

MayCall == /\ Alive /\ at = "idle"
           /\ CallerWaits => Starting = {}

Enter(method, step) == call' = method /\ at' = step

CallStartUnchecked(method) ==     \* mutant: no test for a selected device
    /\ MayCall /\ captures < MaxCaptures
    /\ Enter(method, "stop")
    /\ UNCHANGED <<new_dev, deviceVars, capture_state, instant, error,
                   sampling_thread, threadVars, sr, dso_queue, crashed>>

(* No device: start_capture() returns without effect. *)
CallStart(method) ==
    /\ MayCall /\ captures < MaxCaptures
    /\ dev_inst \in usable
    /\ Enter(method, "stop")
    /\ UNCHANGED <<new_dev, deviceVars, capture_state, instant, error,
                   sampling_thread, threadVars, sr, dso_queue, crashed>>

CallStartUnusable ==
    /\ MayCall
    /\ dev_inst \in Devices \ usable
    /\ error' = "Hw_err"
    /\ UNCHANGED <<callerVars, deviceVars, capture_state, instant,
                   sampling_thread, threadVars, sr, dso_queue, crashed>>

CallStop ==
    /\ MayCall
    /\ Enter("stop", "stop")
    /\ UNCHANGED <<new_dev, deviceVars, capture_state, instant, error,
                   sampling_thread, threadVars, sr, dso_queue, crashed>>

(* init_signals() requires a device; after stop_capture() it only counts. *)
CallInitSignals ==
    /\ MayCall
    /\ dev_inst # NoDevice
    /\ Enter("init_signals", "stop")
    /\ UNCHANGED <<new_dev, deviceVars, capture_state, instant, error,
                   sampling_thread, threadVars, sr, dso_queue, crashed>>

CallDestroy ==
    /\ MayCall
    /\ Enter("destroy", "stop")
    /\ UNCHANGED <<new_dev, deviceVars, capture_state, instant, error,
                   sampling_thread, threadVars, sr, dso_queue, crashed>>

(* The old device's callback is removed before the device is released. *)
CallSetDevice(d) ==
    /\ MayCall
    /\ new_dev' = d
    /\ IF dev_inst = NoDevice
         THEN Enter("set_device", "use") /\ UNCHANGED sr
         ELSE Enter("set_device", "release") /\ sr' = [sr EXCEPT !.callback = FALSE]
    /\ UNCHANGED <<deviceVars, capture_state, instant, error,
                   sampling_thread, threadVars, dso_queue, crashed>>

----------------------------------------------------------------------------
(* stop_capture(), called by itself and from four other methods. *)

AfterStop ==
    CASE call \in {"start", "start_instant"} -> "spawn"
      [] call = "destroy" -> "release"
      [] OTHER -> "idle"

StopCheck ==
    /\ Alive /\ at = "stop"
    /\ instant' = FALSE
    /\ at' = IF capture_state = "Running" THEN "sr_stop" ELSE AfterStop
    /\ UNCHANGED <<call, new_dev, deviceVars, capture_state, error,
                   sampling_thread, threadVars, sr, dso_queue, crashed>>

StopWithoutRequest ==     \* mutant: joins without sr_session_stop()
    /\ Alive /\ at = "sr_stop"
    /\ at' = "join"
    /\ UNCHANGED <<call, new_dev, deviceVars, capture_state, instant, error,
                   sampling_thread, threadVars, sr, dso_queue, crashed>>

(* sr_session_stop() only leaves a request for the thread in sr_session_run(). *)
SrStop ==
    /\ Alive /\ at = "sr_stop"
    /\ sr' = [sr EXCEPT !.abort = sr.alive]
    /\ at' = "join"
    /\ UNCHANGED <<call, new_dev, deviceVars, capture_state, instant, error,
                   sampling_thread, threadVars, dso_queue, crashed>>

DropHandle ==     \* mutant: resets _sampling_thread without joining it
    /\ Alive /\ at = "join"
    /\ sampling_thread' = 0
    /\ at' = AfterStop
    /\ UNCHANGED <<call, new_dev, deviceVars, capture_state, instant, error,
                   threadVars, sr, dso_queue, crashed>>

(* join() returns when the thread has ended, at once if there is no handle. *)
StopJoin ==
    /\ Alive /\ at = "join"
    /\ sampling_thread \notin Live
    /\ sampling_thread' = 0
    /\ at' = AfterStop
    /\ UNCHANGED <<call, new_dev, deviceVars, capture_state, instant, error,
                   threadVars, sr, dso_queue, crashed>>

----------------------------------------------------------------------------
(* The rest of start_capture(). The new handle replaces whatever handle is
   there; destroying a joinable boost::thread detaches it. *)

StartCapture ==
    /\ Alive /\ at = "spawn"
    /\ instant' = (call = "start_instant" \/ dev_inst \in Virtual)
    /\ captures' = captures + 1
    /\ pc' = [pc EXCEPT ![captures + 1] = "start"]
    /\ dev' = [dev EXCEPT ![captures + 1] = dev_inst]
    /\ sampling_thread' = captures + 1
    /\ at' = "idle"
    /\ UNCHANGED <<call, new_dev, deviceVars, capture_state, error, sr,
                   dso_queue, crashed>>

(* Whether a probe is enabled is up to the device's configuration. *)
NoProbesEnabled ==
    /\ Alive /\ at = "spawn"
    /\ instant' = (call = "start_instant" \/ dev_inst \in Virtual)
    /\ at' = "idle"
    /\ UNCHANGED <<call, new_dev, deviceVars, capture_state, error,
                   sampling_thread, threadVars, sr, dso_queue, crashed>>

----------------------------------------------------------------------------
(* Releasing and using a device: set_device() and the destructor. *)

(* ~SigSession() releases its device without testing the pointer. *)
ReleaseNull ==
    /\ Alive /\ at = "release"
    /\ dev_inst = NoDevice
    /\ Crash("null_device")
    /\ UNCHANGED <<callerVars, deviceVars, capture_state, instant, error,
                   sampling_thread, threadVars, sr, dso_queue>>

(* Device::release() -> DevInst::release() -> release_device(), whose
   assertion on the capture state terminates the process. *)
ReleaseAssert ==
    /\ Alive /\ at = "release"
    /\ dev_inst \in owned /\ capture_state = "Running"
    /\ Crash("assert_running")
    /\ UNCHANGED <<callerVars, deviceVars, capture_state, instant, error,
                   sampling_thread, threadVars, sr, dso_queue>>

ReleaseUnchecked ==     \* mutant: release_device() without its assertions
    /\ Alive /\ at = "release"
    /\ dev_inst \in owned
    /\ dev_inst' = NoDevice
    /\ owned' = owned \ {dev_inst}
    /\ at' = "sr_destroy"
    /\ UNCHANGED <<call, new_dev, usable, capture_state, instant, error,
                   sampling_thread, threadVars, sr, dso_queue, crashed>>

ReleaseKeepsOwner ==     \* mutant: DevInst::release() does not reset _owner
    /\ Alive /\ at = "release"
    /\ dev_inst \in owned /\ capture_state # "Running"
    /\ dev_inst' = NoDevice
    /\ at' = "sr_destroy"
    /\ UNCHANGED <<call, new_dev, owned, usable, capture_state, instant, error,
                   sampling_thread, threadVars, sr, dso_queue, crashed>>

ReleaseDevice ==
    /\ Alive /\ at = "release"
    /\ dev_inst \in owned /\ capture_state # "Running"
    /\ dev_inst' = NoDevice
    /\ owned' = owned \ {dev_inst}
    /\ at' = "sr_destroy"
    /\ UNCHANGED <<call, new_dev, usable, capture_state, instant, error,
                   sampling_thread, threadVars, sr, dso_queue, crashed>>

(* sr_session_destroy(), under whatever thread runs the session; sr_dev_close()
   changes nothing that is modelled. *)
DestroySession ==
    /\ Alive /\ at = "sr_destroy"
    /\ sr' = NoSession
    /\ at' = IF call = "destroy" THEN "clear" ELSE "use"
    /\ UNCHANGED <<call, new_dev, deviceVars, capture_state, instant, error,
                   sampling_thread, threadVars, dso_queue, crashed>>

(* The destructor's last step: _session = NULL. *)
ClearSession ==
    /\ Alive /\ at = "clear"
    /\ at' = "gone"
    /\ UNCHANGED <<call, new_dev, deviceVars, capture_state, instant, error,
                   sampling_thread, threadVars, sr, dso_queue, crashed>>

(* A null argument only clears _dev_inst. *)
UseNone ==
    /\ Alive /\ at = "use" /\ new_dev = NoDevice
    /\ dev_inst' = NoDevice
    /\ at' = "idle"
    /\ UNCHANGED <<call, new_dev, owned, usable, capture_state, instant, error,
                   sampling_thread, threadVars, sr, dso_queue, crashed>>

UseWithoutCallback ==     \* mutant: no sr_session_datafeed_callback_add()
    /\ Alive /\ at = "use" /\ new_dev \in Devices \ owned
    /\ dev_inst' = new_dev
    /\ owned' = owned \cup {new_dev}
    /\ usable' \in {usable \cup {new_dev}, usable \ {new_dev}}
    /\ sr' = [NoSession EXCEPT !.alive = TRUE, !.dev = new_dev]
    /\ at' = "idle"
    /\ UNCHANGED <<call, new_dev, capture_state, instant, error,
                   sampling_thread, threadVars, dso_queue, crashed>>

(* sr_dev_open() leaves the device active or not. *)
UseDevice ==
    /\ Alive /\ at = "use" /\ new_dev \in Devices \ owned
    /\ dev_inst' = new_dev
    /\ owned' = owned \cup {new_dev}
    /\ usable' \in {usable \cup {new_dev}, usable \ {new_dev}}
    /\ sr' = [NoSession EXCEPT !.alive = TRUE, !.dev = new_dev, !.callback = TRUE]
    /\ at' = "idle"
    /\ UNCHANGED <<call, new_dev, capture_state, instant, error,
                   sampling_thread, threadVars, dso_queue, crashed>>

(* sr_session_dev_add() fails: use() throws a const char*, which neither
   catch (std::exception) on the way nor any caller catches. *)
UseThrows ==
    /\ Alive /\ at = "use" /\ new_dev \in Devices \ owned
    /\ dev_inst' = new_dev
    /\ owned' = owned \cup {new_dev}
    /\ usable' \in {usable \cup {new_dev}, usable \ {new_dev}}
    /\ sr' = [NoSession EXCEPT !.alive = TRUE]
    /\ Crash("uncaught_use")
    /\ UNCHANGED <<callerVars, capture_state, instant, error,
                   sampling_thread, threadVars, dso_queue>>

----------------------------------------------------------------------------
(* sample_thread_proc(), one thread per capture. *)

Step(t, from, to) == Alive /\ pc[t] = from /\ pc' = [pc EXCEPT ![t] = to]

(* sr_session_start() on a session that has its device may succeed. An old
   stop request may or may not survive it. *)
ThreadStart(t) ==
    /\ Step(t, "start", "set_running")
    /\ sr.alive /\ sr.dev # NoDevice
    /\ \E a \in {sr.abort, FALSE} : sr' = [sr EXCEPT !.acquiring = TRUE, !.abort = a]
    /\ UNCHANGED <<callerVars, deviceVars, capture_state, instant, error,
                   sampling_thread, captures, dev, dso_queue, crashed>>

(* It may always fail: DevInst::start() throws a const char*, which passes
   the handler in sample_thread_proc() and leaves the thread's function. *)
ThreadStartThrows(t) ==
    /\ Alive /\ pc[t] = "start"
    /\ Crash("uncaught_start")
    /\ UNCHANGED <<callerVars, deviceVars, capture_state, instant, error,
                   sampling_thread, threadVars, sr, dso_queue>>

ForgetRunning(t) ==     \* mutant: the thread runs without reporting Running
    /\ Step(t, "set_running", "run")
    /\ UNCHANGED <<callerVars, deviceVars, capture_state, instant, error, sampling_thread,
                   captures, dev, sr, dso_queue, crashed>>

SetRunning(t) ==
    /\ Step(t, "set_running", "run")
    /\ capture_state' = "Running"
    /\ UNCHANGED <<callerVars, deviceVars, instant, error, sampling_thread,
                   captures, dev, sr, dso_queue, crashed>>

(* sr_session_run() delivers a DSO packet: it calls data_feed_in_proc().
   Packets of the other types change nothing. *)
RunPacket(t) ==
    /\ Step(t, "run", "data_feed_in_proc")
    /\ sr.acquiring /\ sr.callback
    /\ Len(dso_queue) < MaxQueued
    /\ UNCHANGED <<callerVars, deviceVars, capture_state, instant, error,
                   sampling_thread, captures, dev, sr, dso_queue, crashed>>

(* assert(_session), of the static pointer that the destructor clears. *)
AssertSession(t) ==
    /\ at # "gone"
    /\ Step(t, "data_feed_in_proc", "data_feed_in")
    /\ UNCHANGED <<callerVars, deviceVars, capture_state, instant, error,
                   sampling_thread, captures, dev, sr, dso_queue, crashed>>

AssertSessionFails(t) ==
    /\ Alive /\ pc[t] = "data_feed_in_proc"
    /\ at = "gone"
    /\ Crash("assert_session")
    /\ UNCHANGED <<callerVars, deviceVars, capture_state, instant, error,
                   sampling_thread, threadVars, sr, dso_queue>>

(* _session->data_feed_in() -> feed_in_dso() queues the packet and returns to
   sr_session_run(). *)
DataFeedIn(t) ==
    /\ at # "gone"
    /\ Step(t, "data_feed_in", "run")
    /\ dso_queue' = Append(dso_queue, t)
    /\ UNCHANGED <<callerVars, deviceVars, capture_state, instant, error,
                   sampling_thread, captures, dev, sr, crashed>>

(* The pointer was set when it was asserted, and is null, or dangling if it
   was read once for both, when it is used. *)
DataFeedInNull(t) ==
    /\ Alive /\ pc[t] = "data_feed_in"
    /\ at = "gone"
    /\ Crash("null_session")
    /\ UNCHANGED <<callerVars, deviceVars, capture_state, instant, error,
                   sampling_thread, threadVars, sr, dso_queue>>

(* The running session sees the stop request, once. *)
RunAbort(t) ==
    /\ Alive /\ pc[t] = "run"
    /\ sr.acquiring /\ sr.abort
    /\ sr' = [sr EXCEPT !.acquiring = FALSE, !.abort = FALSE]
    /\ UNCHANGED <<callerVars, deviceVars, capture_state, instant, error,
                   sampling_thread, threadVars, dso_queue, crashed>>

(* The device ends the acquisition: limit reached, error or unplugged. *)
RunEnds(t) ==
    /\ Alive /\ pc[t] = "run"
    /\ sr.acquiring
    /\ sr' = [sr EXCEPT !.acquiring = FALSE]
    /\ UNCHANGED <<callerVars, deviceVars, capture_state, instant, error,
                   sampling_thread, threadVars, dso_queue, crashed>>

RunReturn(t) ==
    /\ Step(t, "run", "set_stopped")
    /\ ~sr.acquiring
    /\ UNCHANGED <<callerVars, deviceVars, capture_state, instant, error,
                   sampling_thread, captures, dev, sr, dso_queue, crashed>>

(* The session was destroyed under the running thread: it may also touch
   freed memory. *)
RunFreed(t) ==
    /\ Alive /\ pc[t] = "run"
    /\ ~sr.alive
    /\ Crash("freed_session")
    /\ UNCHANGED <<callerVars, deviceVars, capture_state, instant, error,
                   sampling_thread, threadVars, sr, dso_queue>>

ForgetStopped(t) ==     \* mutant: the thread ends without reporting Stopped
    /\ Step(t, "set_stopped", "done")
    /\ UNCHANGED <<callerVars, deviceVars, capture_state, instant, error,
                   sampling_thread, captures, dev, sr, dso_queue, crashed>>

SetStopped(t) ==
    /\ Step(t, "set_stopped", "done")
    /\ capture_state' = "Stopped"
    /\ UNCHANGED <<callerVars, deviceVars, instant, error, sampling_thread,
                   captures, dev, sr, dso_queue, crashed>>

----------------------------------------------------------------------------
Caller ==
    \/ \E method \in {"start", "start_instant"} : CallStart(method)
    \/ CallStartUnusable
    \/ CallStop
    \/ CallInitSignals
    \/ CallDestroy
    \/ \E d \in Devices \cup {NoDevice} : CallSetDevice(d)

Method ==
    \/ StopCheck \/ SrStop \/ StopJoin
    \/ StartCapture \/ NoProbesEnabled
    \/ ReleaseNull \/ ReleaseAssert \/ ReleaseDevice \/ DestroySession
    \/ ClearSession
    \/ UseNone \/ UseDevice \/ UseThrows

(* data_feed_in_proc(), called on the sampling thread. *)
Callback(t) ==
    \/ AssertSession(t) \/ AssertSessionFails(t)
    \/ DataFeedIn(t) \/ DataFeedInNull(t)

SamplingThread(t) ==
    \/ ThreadStart(t) \/ ThreadStartThrows(t)
    \/ SetRunning(t)
    \/ RunPacket(t) \/ Callback(t)
    \/ RunAbort(t) \/ RunEnds(t)
    \/ RunReturn(t) \/ RunFreed(t)
    \/ SetStopped(t)

(* The process is down, or the session is destroyed and no call can come. *)
Over == (~Alive \/ at = "gone") /\ UNCHANGED vars

Next == \/ Caller
        \/ Method
        \/ \E t \in Captures : SamplingThread(t)
        \/ Over

SafeSpec == Init /\ [][Next]_vars

(* Both threads keep running, and sr_session_run() polls for the stop request
   between packets: strong fairness, since meanwhile it is in a callback. A
   device need never end an acquisition by itself. *)
Fairness ==
    /\ WF_vars(Method)
    /\ \A t \in Captures :
         /\ WF_vars(ThreadStart(t) \/ ThreadStartThrows(t))
         /\ WF_vars(SetRunning(t))
         /\ WF_vars(Callback(t))
         /\ SF_vars(RunAbort(t))
         /\ WF_vars(RunReturn(t))
         /\ WF_vars(SetStopped(t))

Spec == SafeSpec /\ Fairness

----------------------------------------------------------------------------
TypeOK ==
    /\ call \in Calls /\ at \in CallerSteps
    /\ new_dev \in Devices \cup {NoDevice}
    /\ dev_inst \in Devices \cup {NoDevice}
    /\ owned \subseteq Devices /\ usable \subseteq Devices
    /\ capture_state \in {"Init", "Stopped", "Running"}
    /\ instant \in BOOLEAN
    /\ error \in {"No_err", "Hw_err"}
    /\ sampling_thread \in 0..captures
    /\ captures \in 0..MaxCaptures
    /\ pc \in [Captures -> ThreadSteps]
    /\ \A t \in Captures : pc[t] = "unused" <=> t > captures
    /\ dev \in [Captures -> Devices \cup {NoDevice}]
    /\ \A t \in 1..captures : dev[t] \in Devices
    /\ sr \in Sessions
    /\ dso_queue \in Seq(Captures)
    /\ crashed \in Crashes

(* However starts, stops and endings interleave, the state the caller reads
   is Running only while some thread is between its set_capture_state(Running)
   and its set_capture_state(Stopped): a Stopped report is never overtaken for
   good, so stop_capture() never waits on behalf of nobody. *)
RunningIsSampled ==
    capture_state = "Running" => Live \ Starting # {}

(* The session's device pointer, the device's owner pointer and libsigrok's
   global session agree whenever the caller is outside a method. *)
DeviceOwnership ==
    /\ owned = {dev_inst} \ {NoDevice}
    /\ Alive /\ at = "idle" => sr.alive = (dev_inst # NoDevice) /\ sr.dev = dev_inst

(* A caller that lets every start complete has at most one sampling thread,
   and it is the one that stop_capture() would join. *)
OneSampler == Live \subseteq {sampling_thread}

(* Under such a caller the device and the libsigrok session that a sampling
   thread works on stay in place until the thread has ended. *)
CaptureKeepsDevice ==
    \A t \in Live : sr.alive /\ sr.dev = dev[t] /\ dev_inst = dev[t]

(* Nor does the destructor of such a caller's session come between libsigrok's
   call of data_feed_in_proc(), its assertion on _session (sigsession.cpp:414)
   and the use of the pointer: the destructor's stop_capture() has waited for
   every callback to return. *)
NoFeedAfterDestroy == crashed \notin {"assert_session", "null_session"}

(* Packets are queued capture by capture, never interleaved. *)
QueuedByCapture ==
    \A i, j \in 1..Len(dso_queue) : i < j => dso_queue[i] <= dso_queue[j]

(* When stop_capture() is through, no sampling thread is left: "Check that
   sampling stopped" (sigsession.cpp:290). *)
StopCompletes ==
    [][(at \in {"stop", "join"} /\ at' \notin {"sr_stop", at}) => (Live = {})]_vars

(* The refinement mapping: a capture lasts from the spawn of its thread to
   the thread's last report. *)
Active == IF Live = {} THEN 0 ELSE CHOOSE t \in Live : TRUE

Service == INSTANCE CaptureService WITH
    started <- captures, active <- Active,
    device <- IF Live = {} THEN NoDevice ELSE sr.dev,
    stopping <- Live # {} /\ at \in {"sr_stop", "join"},
    packets <- dso_queue

(* For a caller that lets every start complete, threads, state variable and
   the shared libsigrok session amount to CaptureService: captures follow one
   another, each on its own device, and a requested stop ends one. *)
CaptureSpec == Service!Spec

(* Every method returns: the join in stop_capture() does not hang. *)
CallReturns ==
    (at \notin {"idle", "gone"}) ~> (at \in {"idle", "gone"} \/ ~Alive)

(* A device that does not start is reported by sample_thread_proc()
   ("dev_inst start failed!", sigsession.cpp:335) and ends the capture only. *)
StartFailureIsCaught == crashed # "uncaught_start"
============================================================================
