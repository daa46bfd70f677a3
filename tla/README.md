# A verification model of dscope_pothos_block

The repository is a Pothos source block for a DreamSourceLab oscilloscope: it
starts captures through libsigrok4DSL, receives sample packets on a sampling
thread, hands them through a blocking queue to the framework's actor thread and
produces them as a sample stream. This directory holds TLA+ modules that model
its concurrent core, the TLC configurations that check them, and proofs checked
by TLAPS.

## The system

| Part | Source | State | Operations |
|---|---|---|---|
| Packet queue | `blockingqueue.hpp` | deque, mutex, condition variable | `put`, `take`, (`size`) |
| Capture session | `sigsession.cpp` | selected device, capture state (under a mutex), sampling-thread handle, instant flag, error, static `_session` | `start_capture`, `stop_capture`, `init_signals`, `set_device`, `set_default_device`, `release_device`, destructor, `sample_thread_proc`, data feed |
| Device | `device.cpp`, `devinst.cpp` | owner, usable flag, libsigrok device | `use`, `release`, `start`, `run`, configuration access |
| Device list | `devicemanager.cpp` | list of devices | scan, `driver_scan`, `add_device`, `release_devices`, `release_driver` |
| Hot-plug thread | `sigsession.cpp:506-597` | two flags, thread handle | libusb callback, rescan-and-select loop |
| Source block | `DscopeSource.cpp` | queue, device list, session, `_sendLabel` | constructor, setters, `activate`, `work`, `deactivate`, `destruct` |
| Snapshot | `dsosnapshot.cpp`, `snapshot.cpp`, `dso.cpp` | sample store, min/max envelope levels | `first_payload`, `append_payload`, envelope, `cal_vrms`, `cal_vmean` |
| Progress | `sigsession.cpp:296-316` | none | `get_capture_status` |
| libsigrok4DSL, libusb, Pothos | external | the global libsigrok session; the actor's serialisation of calls | as the code uses them |

How they interact: the block's methods run one at a time on an actor thread (or
`main()` calls the session directly). `start_capture()` spawns a sampling thread,
which starts and runs the one global libsigrok session; libsigrok calls back
`data_feed_in_proc()` on that thread, and a DSO packet goes to the queue.
`stop_capture()` asks libsigrok to stop and joins the thread. `work()` takes one
packet. A device points to its owning session and the session to its device;
`release()` travels device -> session -> libsigrok.

What is hard about it:

* a stop, a restart, a device change or a destruction at any point of a start;
* two sampling threads on one libsigrok session and one state variable;
* a stop request that a join depends on, and that another thread may consume;
* failures in the middle of `use()` and `start()`, thrown as `const char *`;
* a third thread that rescans the device list and selects a device, while the
  main thread and a capture use the old one;
* a sample store that is resized without the lock its readers take, and an
  envelope that is updated from where the last update ended;
* three objects that the block destroys in an order their pointers contradict;
* a condition-variable queue notified outside its mutex;
* `work()`, which blocks without a timeout on the thread that would deliver
  `deactivate()`.

What makes each part correct: the queue is a FIFO buffer that misses no wake-up;
a session has at most one sampling thread, whose device stays in place, and
after `stop_capture()` it has none; device, session and libsigrok agree on the
device in use; the block has its device while it may be called and delivers
captures in order; the selected device is always a listed
one and follows the hardware; the snapshot holds the running capture, inside its
buffers, and the envelope is that of the samples held.

## Modules

| Module | Models | Checked by | Proved in |
|---|---|---|---|
| `FifoQueue` | what the queue promises: atomic `Put` and `Take` | refined by `BlockingQueue` | `BlockingQueueProofs` |
| `BlockingQueue` | `blockingqueue.hpp` lock by lock | `MCBlockingQueue` | `BlockingQueueProofs` |
| `CaptureService` | what captures amount to: one at a time, on a device, stopped or ended | refined by `SigSession`, `DscopeSource` | `SigSessionProofs`, `DscopeSourceProofs` |
| `SigSession` | the session, its sampling threads, device ownership, libsigrok's session | `MCSigSession` | `SigSessionProofs` |
| `DscopeSource` | the block, its device's settings, its destruction, with an instance of `SigSession` | `MCDscopeSource` | `DscopeSourceProofs` |
| `HotPlug` | device list, rescans and the hot-plug thread, with an instance of `SigSession` | `MCHotPlug` | `HotPlugProofs` |
| `DsoSnapshot` | sample store, envelope and mean | `MCDsoSnapshot` | `DsoSnapshotProofs`, `EnvelopeProofs` |
| `DsoMeasure` | `cal_vrms()` and `cal_vmean()` walking over the samples without the lock | `MCDsoSnapshot` | `DsoMeasureProofs` |

`NaturalNumbers` has what the proofs about mean and envelope need of arithmetic: induction, recursion and division.

### BlockingQueue

`mutex`, `queue` and the wait set (`Waiting`, the consumers at `wait`) are the
members of the class; `pc`, `arg` and `front` are the threads' positions,
arguments and results. Each critical section is entered and left by steps of its
own, the release-and-wait is one step as the standard demands, and `notify_one()`
is a step after the unlock that picks any waiter. `put(const T &)` and `put(T &&)`
differ only in how the element is stored. `size()` changes nothing.

### SigSession

| Code | Model |
|---|---|
| `_dev_inst`, `_capture_state`, `_instant`, `_error`, `_sampling_thread` | variables of these names |
| `DevInst::_owner`, `_usable` | the sets `owned`, `usable` |
| libsigrok's global session | the record `sr`: allocated, its device, callback registered, stop requested, acquiring (external) |
| sampling thread of the n-th capture | `pc[n]`, `dev[n]` |
| the caller inside a method | `call`, `at` |
| the queue | `dso_queue`, the captures its packets come from |
| assertion failure, null dereference, uncaught exception | `crashed` |

A method is a `Call...` action (its entry up to the first point where the other
threads matter) and the steps of `Method`; `stop_capture()` is shared by the
four methods that call it, and `AfterStop` says how the caller goes on. Reading
the state, requesting the stop, joining, releasing the device, destroying the
libsigrok session and clearing the static `_session` are separate steps, so every
interleaving with the sampling threads is explored. On the sampling thread,
libsigrok's call of `data_feed_in_proc()` (`RunPacket`), its assertion on
`_session` (`AssertSession`) and the use of that pointer (`DataFeedIn`) are three
steps, so that the destructor may come between any two of them. The queue is atomic here because `BlockingQueue` implements
`FifoQueue` (`ImplementsFifo`). Detaching a replaced `boost::thread` is that
library's default.

libsigrok is external, with the contract the code relies on: starting needs an
allocated session with a device and may fail at any time; a stop request stays
until the running session sees it, and may or may not survive a new start; the
device may end an acquisition at any time; running a destroyed session may
return or touch freed memory.

Two kinds of caller are checked. `CallerWaits = FALSE` is any caller of the
public interface. `CallerWaits = TRUE` makes no call while a capture is between
its spawn and its report of Running. That is an assumption, and nothing in the
repository ensures it: `main.cpp:88` waits for a key, which may come at once; the
framework may call `deactivate()` right after `activate()`; and a `work()` that has
returned may have taken a packet left over from the capture before. For a caller
that does not wait, `stop_capture()` returns early (`sigsession.cpp:286`, finding
1), and from that follow, as reachable ends or states of the model with
`CallerWaits = FALSE`: two sampling threads; a destroyed libsigrok session under a
running one; the assertion in `data_feed_in_proc()` failing after the destructor,
or `_session` being null where it is used; and in the block a queue that is deleted
while a thread feeds it. What is checked and proved under `CallerWaits` says that
the early return is the only way to these: `NoFeedAfterDestroy` and
`CaptureKeepsDevice` in `patient_caller`, and for the queue `PhaseInv`, the part of
the invariant in `DscopeSourceProofs` by which no thread is left at its deletion.

An assertion that fails ends the process. The repository's project files set
neither `NDEBUG` nor a build type, but a release build defines it, and then
`CaptureKeepsDevice`, with what rests on it (`CaptureSpec` among it), does not hold:
`release_device()` would take the device away under a running capture. The models
are of a build with assertions.

`CaptureService` says what such a caller may count on, in five steps: a capture
begins when none runs, delivers packets that carry its number, is told to stop,
ends, and packets are taken in order. The mapping (`Service`) reads a capture as
lasting from the spawn of its thread to that thread's last report, and as stopping
while the caller is between its reading of Running and the end of the join.

### DscopeSource

`life` is where the actor is in the block's life; every call of a session method
is an action of the `Session` instance, so nothing of the session is left out.
`devices` is the list of the constructor's scan, `DefaultDevice` the choice of
`set_default_device()`. `work()` is two actions, because `take()` blocks.
`labelled`, `worked` and `last_out` record what was sent downstream. The
deletions of the queue, the device list and the session are separate steps.
That the framework calls `work()` only between `activate()` and `deactivate()`,
and destroys only an inactive block, is external. That it lets each start complete
before its next call is assumed (see above), in the run and in the theorems.

`config` is the selected device's configuration as the block uses it. Voltage
divider and rate are a number, `setting`, that grows with every `setVdiv()` or
`setSamplerate()`; the sample limit is the device's own or the block's
(`work()`'s buffer size, set by the constructor); a probe is enabled or not. A
getter may yield zero, a setter may fail. `cached` is `_cur_samplelimits`, read
from the device by `set_device()` and again by `capture_init()`; `stamps` gives
each queued packet the setting it was captured with and `vdiv` the one `work()`
has read, so that `ScaleNotOlder` can compare them: a packet may be scaled with a
setting made after it was captured, never with one made before.

### HotPlug

A `Device` object is a pair of the device and the scan that made it, so that a
replaced object differs from its successor. `listed` is `_devices`, `hot` the
position of `hotplug_proc()`, `drivers` those its `scan_all_drivers()` has yet to
visit, in any order. The main thread's captures are `SigSession`'s actions, and
`MainMethod` and the hot-plug steps interleave freely. Release, destruction of
the libsigrok session, erasure and selection are separate steps.

libusb is external: it calls back inside `libusb_handle_events_timeout()`, that
is on the hot-plug thread itself, so the two flags are not raced; several events
may be handled in one call. Hardware comes and goes from the constructor's scan
on. What changes before the callback is registered is reported by
`LIBUSB_HOTPLUG_ENUMERATE`, but `start_hotplug_proc()` resets the flag
(`sigsession.cpp:585`) and it is forgotten until the next event: `unseen` records
that, and `SelectionFollowsHardware` excepts it. The registration itself may fail
(`RegisterFails`, `sigsession.cpp:572`): that is printed, the thread is started all
the same, and no event ever comes (`registered` stays FALSE, and from the first
change of the hardware on `unseen` is TRUE for good).

The branch for arrivals ends with two settings of the new device (`FinishAttach`).
They change nothing that the thread or a capture reads, so their values are not
modelled; that they may end the process is (`FinishAttachFails`): there is no
device, or its driver gave it no channel 1, which `set_ch_enable()` asserts
(`devinst.cpp:268`). The model lets that be any device. The branch for departures
makes no settings, so an unplug and a replug that one round handles leave the new
object with the device's own; no document promises otherwise.

Nothing in the repository starts the thread yet. The races
on the `shared_ptr` itself and a destruction of the session under the running
thread are not modelled. Other ends are: a rescan during a capture trips
`release_device()`'s assertion; a detach that takes the device away between
`start_capture()`'s test and use of it dereferences null; `use()` that throws ends
the thread.

### DsoSnapshot

`snap` holds the members of `DsoSnapshot` and its base `Snapshot`. A byte is the
packet that wrote it and its position, an envelope sample the set of bytes whose
minimum and maximum it is, so the level arithmetic is kept and the values are
not. `snap.fault` is a copy outside a buffer, or to a null one. `first_payload()`
is split where it allocates, because it does not take the mutex; the locked
methods are one step.

The caller is the commented-out `feed_in_dso()` (`sigsession.cpp:424`) with
`capture_init()` and `init_signals()`. Assumed of it and of the device: limit,
channels and mode are fixed during a capture; an instant capture stays within
its limit in all, a repetitive frame by itself; a frame of another length comes
with `samplerate_tog` set; limits are multiples of a block (with others
`cal_vmean()` reads past the samples). Left out: `data_length`, which changes
nothing else; the choice of a level from `min_length`; the number that
`cal_vrms()` computes; the leak in `free_envelop()` when the channel count
shrinks. `cal_vmean()` is an operator on the sums of the blocks: what a block
leaves in the running value is divided once more with the next block instead of
being reset, which `MeanWithinHalfStep` bounds for a snapshot that is full and does
not change meanwhile. When the allocation of the
buffer fails, the code goes on as if it had succeeded (`:142`): the model then
ends in the fault `null_data`.

### DsoMeasure

`cal_vrms()` and `cal_vmean()` take no lock. `walk` is such a function on another
thread: `MeasureBegin` reads the buffer's pointer, `MeasureCount` the count of
samples that ends the loop (C++ leaves their order open), and until `MeasureEnd` any
of the blocks may be read at any moment, while `DsoSnapshot`'s steps go on. So the
count may be that of another packet, or of the capture before, when the samples
are read: `MeasuresStayInBuffer` says that the reads are inside the buffer all the
same. It is not said of every walk. The next `first_payload()` of another shape, or
`clear()`, frees the buffer (`dsosnapshot.cpp:122`) or changes the number of
channels under a walk, and nothing in the code prevents that. Such a walk is a
stray, of which nothing is claimed.

## Runs

| Run | Configuration | What it shows |
|---|---|---|
| `queue` | 2 producers, 2 consumers, 2 values, length 2 | `PopNonEmpty`, `NoLostWakeup`, the refinement `FifoSpec`, `TakeReturns` |
| `any_caller` | 2 devices (one virtual), 2 captures, queue 1 | `RunningIsSampled`, `DeviceOwnership` for every caller |
| `patient_caller` | 2 devices, 3 captures, queue 2 | `OneSampler`, `CaptureKeepsDevice`, `QueuedByCapture`, `NoFeedAfterDestroy`, `StopCompletes`, `CallReturns`, the refinement `CaptureSpec` |
| `early_stop` | any caller | `StopCompletes` fails: see finding 1 |
| `start_fails` | one capture | `StartFailureIsCaught` fails: see finding 2 |
| `block` | 3 devices in 5 scans, 3 captures, queue 2, 2 settings | `DeviceReady`, `OutputByCapture`, `OneChannel`, `LimitIsCached`, `ScaleNotOlder`, `WorkReturns`, the refinement `StreamSpec`, all with `CallerWaits` |
| `block_label` | 2 captures | `LabelAfterActivate` fails: see finding 3 |
| `block_destruct` | 1 capture | `DestructSurvives` fails: see finding 4 |
| `snapshot` | 2 probes, limits 4 and 8, blocks of 2, 2 levels, 3 packets | `SamplesFit`, `EnvelopeFits`, `MeasuresStayInBuffer`, `SnapshotIsCapture`, `EnvelopeFollowsData`, `MeanWithinHalfStep` |
| `snapshot_frames` | the same | `FirstLevelFollowsData` fails: see finding 5 |
| `hotplug` | one scope, one virtual device, 1 capture, 2 plug changes | `SelectedIsListed`, `DefaultFindsReleased`, `SelectionFollowsHardware`, `StopHotplugReturns` |
| `hotplug_capturing` | the same | `NotCapturingWhenSet` fails: see finding 6 |

Bounds. Two consumers are the least for which a notification can reach the wrong
one; two producers the least for two notifications at once; a queue of two the
least in which an order can be wrong. Two captures suffice for two samplers at
once; three let a restart follow a restart. Two devices let `set_device()`
replace one by the other. `QueueBound`, `MaxQueued` and `MaxCaptures` bound only
when a put, a packet or a start may happen; no code has these limits. The
theorems hold for all values of them. Two plug changes are the least that can
merge an arrival and a departure in one callback round or put one inside the
rescan for the other; one virtual device lets the default move between the two
kinds. In the snapshot, limits 4 and 8 with one or two channels give buffers of
one size for two shapes; two levels are the least where one is built from
another; three packets let the envelope be off for one between two others
(`MaxPackets` also ends the starting of captures, which without packets would
differ in nothing). The arrays have four places, a DSCope two probes: with
others, `get_samples()` would put a probe at its number and not at its place
among the enabled ones, so that of three probes with the first and the last
enabled the last would be read from the next sample. Two settings are the least
in which a packet can meet a wrong one (the violation runs need only one). The
mean is taken over all sums of two and of four blocks of two samples, a sum
being bounded as 256 bytes below 256 would be.

The deadlock check is on except where the system really can stop: in the block's
runs, with the actor in `take()` and no capture that would feed it (below); in
the hot-plug runs, when the thread has ended and the process with it; in the
snapshot's runs, after a copy to a null buffer.

Fairness. Threads that are inside a method or a thread function go on (weak
fairness per step). A consumer that asks for the mutex again and again gets it
(strong fairness of `TakeRelock`). `sr_session_run()` polls the stop request
between packets, so it sees it (strong fairness of `RunAbort`, since the thread
is in a callback again and again), and a callback returns (weak fairness of
`Callback`). For `WorkReturns` only, a running acquisition goes on delivering
until it ends (weak fairness of `RunPacket` and `Feed` in the block). The loop
of the hot-plug thread goes on and `join()` returns when the thread has ended
(weak fairness of `HotplugProc` and `JoinHotplug`): the loop waits only in calls
with a timeout. Nobody has to call anything, spurious wake-ups may never happen,
and a device need never end a capture, and no hardware need come or go.

## Findings

1. `stop_capture()` returns at once unless the state is Running, also while a
   started thread has not reported it. "Check that sampling stopped"
   (`sigsession.cpp:290`) and "stop previous capture" (`:255`) then do not hold:
   the thread keeps capturing, and a restart adds a second one.
2. `DevInst::start()` throws a `const char *`, which `catch (std::exception)`
   around it does not catch, so "dev_inst start failed!" (`sigsession.cpp:335`)
   is never printed: the process terminates.
3. `activate()` does not set `_sendLabel` again; the documentation
   (`DscopeSource.cpp:23`) promises the label after each `activate()`.
4. `destruct()` deletes the device list, which makes the session forget its
   device, and then the session, whose destructor dereferences that pointer. The
   order is the one the comment at `DscopeSource.cpp:128` insists on.
5. `enable_envelope()` recomputes nothing once an envelope has been made in the
   capture (`dsosnapshot.cpp:186`). Frames of another length that are stored
   while it is off leave it behind; after it is on again, the next packet updates
   the first level only from its old length on, and the blocks before it show an
   old frame. "Generate the first mip-map from the data" (`:165`) fails there.
6. "Ensure we are not capturing before setting the device" (`sigsession.cpp:93`)
   stands above a `stop_capture()` that is commented out. The hot-plug thread
   releases and selects devices while a sampling thread is starting; only one
   that has reported Running trips the assertion in `release_device()`.

Not a finding, since no document promises otherwise: when a capture ends by
itself, or `activate()` could not start one, `work()` blocks the actor in
`take()` for ever, and `deactivate()` cannot reach it.

## Proofs

For `BlockingQueue`, over any sets of threads and values and any bound, the
invariant is `TypeOK /\ LockInv /\ PopNonEmpty /\ NoLostWakeup`. `LockInv`
(whoever is in a critical section holds the mutex) is what makes `PopNonEmpty`
inductive; `PopNonEmpty` makes the pop well typed. `NoLostWakeup` counts: a push
adds one to the length and one pending notification; a notification becomes an
awake consumer unless nobody waits; a pop takes one from the length and one awake
consumer; and going to sleep needs an empty queue. `ImplementsFifo` maps the push
and the pop to `Put` and `Take` and everything else to stuttering.

For `SigSession`, over any devices, captures and queue length, `AnyInv` holds for
every caller. It adds to the properties `StartInv` (a start in progress still has
its device, so that a thread is spawned with one) and `DeviceInv` (what the three
views of the device are at each step of release and use). Under `CallerWaits`,
`PatientInv` says why there is one sampling thread: inside a method no start is
pending, the live thread is the last capture and the current handle, and once
past its start it has reported Running; so "not Running" and "joined" both mean
that no thread is left, nor a callback when the destructor clears `_session`
(`PatientSessionOutlivesFeed`). `QueueInv` and the theorems about such a caller follow
from it. `PatientImplementsService` maps each step: the spawn is `Begin`, a packet
`Deliver`, the reading of Running in `stop_capture()` is `Stop`, the last report
of the thread `End`; any other step leaves the mapped variables alone
(`UnseenStep`), and there is a thread to stop because Running means a live one.

For `DscopeSource`, over any devices, scans, captures, queue length and number of
settings, and under `CallerWaits`, the invariant has three parts.
`EverySessionInv` is the session's own invariant, carried over from
`SigSessionProofs` through a second instance `S` that is shown to have the same
actions; from the deletion of the device manager on, when it no longer holds, only
types remain. `PhaseInv` says where the actor can be in each phase of the block's
life, and that no sampling thread is left once a `deactivate()` has returned; this
is where `CallerWaits` is used. `StreamInv` ties queue, stamps, settings, probes and what was produced
together. The theorems are the block's invariants, `ScaleNotOlder`, and
`BlockImplementsService`, which adds `work()` as the taker and the destruction.

For `HotPlug`, over any hardware, virtual devices, plug changes and captures,
`HotInv` has four parts besides the types. `CallerInv`: the main thread is never
inside `set_device()`. `ThreadInv`: the flags are reset whenever the thread waits
for events. `ScanInv` counts: every rescan answers a plug change of its own, which
bounds the scans and so the objects. `SelectionInv`: during a rescan the device in
use, until it is released, belongs to a driver still to be visited, so none that
is taken off the list stays selected.

For `DsoSnapshot`, over any number of levels, any limits, block size and array
unit, and any number of captures and packets, the invariant has five parts; each
needs those before it.

* `SampleInv` gives `SamplesFit`. `BufferInv`: except between the two halves of a
  reallocation the buffer has the size of the total and the channel number it is
  read with, and where it has not, nothing is counted. `CaptureInv` says why: a
  capture begins with a count of zero and `_last_ended` set, so that
  `first_payload()` changes the shape only while nothing is stored, and from then
  on total, channels and mode are the capture's and what is fed stays within its
  limit.
* `HeldInv` gives `SnapshotIsCapture`: the samples counted are those received, and
  every position up to them is stamped with a packet of the capture.
* `EnvelopeInv` gives `EnvelopeFits`: where the buffer is not about to be
  replaced, the arrays have the lengths of the total the count is bounded by; and
  a level never gets longer than the array that the same division, rounded up,
  has allocated (`LengthsFit`, by induction over the levels).
* `BoundsInv` is what `TypeOK` needs besides.
* `LevelsInv` gives `EnvelopeFollowsData`. Between the updates a level is not the
  envelope of the data, and need not be: in an instant capture it is right as far
  as it goes, because the samples under it stay where they are, and the update
  goes on from there; in a repetitive one, whose packets replace them, it is empty
  or as long as it is going to be, and then computed anew. A level that is either
  shows the data after the next update (`UpdatedShows`, by induction from level 0
  up). The second half fails for frames of other lengths, which finding 5 shows.

For `DsoMeasure`, `MeasuresFit` adds `WalkInv` to `SampleInv`: the count a walk has
read is a count of samples that fit the buffer it began with, and as long as the
walk is no stray the buffer has kept its size and its number of channels. That a
count is bounded by the buffer is not enough, since the last block begins before
the end and may go past it: the limits must be whole blocks (`BlocksWithin`).

Three of these theorems have a hypothesis. `SnapshotHoldsCapture` takes at most two
probes, as an oscilloscope has; with more it is false (see the bounds).
`MeasuresFit` takes limits that are whole blocks, as the device has them.
`SnapshotMeanClose` takes limits of at least one block: with n samples in blocks of
f and bytes below f, the mean after k blocks is at most f(f-1)(k/n + k²/n²), so what
is carried over sums to less than half a step (`Carries`, by induction over the
blocks, and `BelowHalf`). It holds because a block has as many samples as a byte
has values.

Levels, scales, powers, sums and means are recursive functions. A lemma for each
shows that the recursion has a solution, so that the function is one
(`RecursionSolved`); what holds for all arguments then follows by induction, which
`NaturalNumbers` derives, for sets of numbers, from the least element of a set that
is not empty.

TLC has checked these parts on the instance of the run `snapshot` before they
were proved.

The assumptions are the named ASSUMEs of the modules: disjoint finite thread
sets, distinct null values, disjoint kinds of devices, natural-number bounds.

Model-checked only: liveness (`TakeReturns`, `CallReturns`, `WorkReturns`,
`SelectionFollowsHardware`, `StopHotplugReturns`, and the fairness of
`CaptureService` in `CaptureSpec` and `StreamSpec`), which this prover cannot
treat. `PatientImplementsService` and `BlockImplementsService` prove the safety
part of those two refinements. Every invariant and every other action property of
a passing run is a theorem.

## Plan

1. `BlockingQueue`, `FifoQueue`, their proofs. Done.
2. `SigSession`, its proofs, and `CaptureService`, which it implements. Done.
3. `DscopeSource` with device configuration, and its proofs. Done.
4. `HotPlug`, the device list and the hot-plug thread over `SigSession`, and its
   proofs. Done.
5. `DsoSnapshot` with envelope and mean, and its proofs. Done.
6. `DsoMeasure`, the unlocked walk over the snapshot, and its proof. Done.
7. The exit of `main()`: `sr_exit()` runs before the destructors that still call
   libsigrok (`main.cpp:95`). What libsigrok allows then is not in the repository.
8. What holds of frames of changing lengths while the envelope stays on: the first
   level follows the data, the others need not. A property and a theorem about it.

Not modelled, and why: printing and logging (`setLogLevel()` among it),
formatting of device titles; numbers that nothing reads (cached rate, run mode,
repeat settings, time base, mode list); the conversion of samples to floats and
the root mean square, which are data; `size()` of the queue, `add_device()`,
`release_driver()`, `compare_devices()` and the deregistration of the hot-plug
callback, which nobody calls; the progress of `get_capture_status()`, arithmetic on
a status of the hardware that keeps no state (it wraps for more samples than the
limit, divides by a limit that may be zero and leaves `progress` unset outside DSO
mode, about which no document says anything; `LimitIsCached` is what it shares with
the capture); the project files.
