---------------------------- MODULE DsoSnapshot ----------------------------
(***************************************************************************)
(* dsosnapshot.cpp, snapshot.cpp and dso.cpp: the store for one captured   *)
(* oscilloscope frame, and its envelope: a pyramid of levels, each holding *)
(* the minimum and maximum of blocks of the level below.                   *)
(*                                                                         *)
(* A sampling thread feeds packets with first_payload(), which does not    *)
(* take the snapshot's mutex, and append_payload(), which does. Another    *)
(* thread starts captures, clears the data between them and switches the   *)
(* envelope on and off at any time. The feeding follows feed_in_dso(),     *)
(* capture_init() and init_signals() as sigsession.cpp has them in comment.*)
(*                                                                         *)
(* A byte is identified by the packet that wrote it and its position; an   *)
(* envelope sample by the set of bytes whose minimum and maximum it is.    *)
(***************************************************************************)
EXTENDS Naturals, FiniteSets

CONSTANTS ProbeCount,           \* probes of a device; the arrays have room for
                                \* 2*DS_MAX_DSO_PROBES_NUM, an oscilloscope has two
          Limits,               \* the sample limits a device may be set to
          EnvelopeScaleFactor,  \* samples per envelope sample
          EnvelopeDataUnit,     \* envelope arrays are a multiple of this
          ScaleStepCount,       \* number of levels
          Pad,                  \* sizeof(uint64_t), added to the buffer
          MaxPackets            \* model bound: packets ever delivered

ASSUME SnapshotAssumption ==
    /\ ProbeCount \in Nat \ {0} /\ ScaleStepCount \in Nat \ {0}
    /\ EnvelopeScaleFactor \in Nat \ {0} /\ EnvelopeDataUnit \in Nat \ {0}
    /\ Limits \subseteq Nat \ {0} /\ Pad \in Nat \ {0} /\ MaxPackets \in Nat

VARIABLES
    snap,       \* the members of DsoSnapshot and Snapshot
    feeder,     \* where the sampling thread is, and the packet it feeds
    config,     \* the running capture's limit, enabled probes and instant flag
    capturing,  \* a capture runs (external)
    packets,    \* packets stored so far; the n-th is known by its number
    base,       \* packets before the running capture
    received,   \* samples of the capture; in repetitive mode, of its last frame
    steady      \* all frames of the capture so far had as many samples

vars == <<snap, feeder, config, capturing, packets, base, received, steady>>
captureVars == <<config, capturing, packets, base, received, steady>>

Probes == 0..(ProbeCount - 1)
Steps == 0..(ScaleStepCount - 1)

Configs == [limit : Limits, ch_enable : (SUBSET Probes) \ {{}}, instant : BOOLEAN]

Alive == snap.fault = "none"

----------------------------------------------------------------------------
(* The members. data maps the positions written so far to the packet they
   come from; data_size is the size of the buffer, 0 for a null pointer. *)

NothingYet == [k \in {} |-> {}]
NoLevel == [length |-> 0, size |-> 0, samples |-> NothingYet]
NoLevels == [i \in Probes |-> [l \in Steps |-> NoLevel]]

NewSnapshot ==
    [data |-> NothingYet, data_size |-> 0, capacity |-> 0, channel_num |-> 1,
     sample_count |-> 0, total_sample_count |-> 1, memory_failed |-> FALSE,
     last_ended |-> TRUE, instant |-> FALSE, ch_enable |-> {},
     envelope_en |-> FALSE, envelope_done |-> FALSE, envelope_levels |-> NoLevels,
     fault |-> "none"]

(* What stands at a position of the buffer; packet 0 is uninitialised memory. *)
Byte(s, p) == <<IF p \in DOMAIN s.data THEN s.data[p] ELSE 0, p>>

free_data(s) ==
    IF s.data_size = 0 THEN s
    ELSE [s EXCEPT !.data = NothingYet, !.data_size = 0,
                   !.capacity = 0, !.sample_count = 0]

free_envelop(s) == [s EXCEPT !.envelope_levels = NoLevels]

init_keeps_count(s) ==     \* mutant: init() does not reset _sample_count
    [s EXCEPT !.memory_failed = FALSE, !.last_ended = TRUE,
              !.envelope_done = FALSE, !.ch_enable = {},
              !.envelope_levels = [i \in Probes |-> [l \in Steps |->
                  IF i < s.channel_num THEN [@[i][l] EXCEPT !.length = 0] ELSE @[i][l]]]]

(* init() forgets the samples and the envelope, and keeps both buffers. *)
init(s) ==
    [s EXCEPT !.sample_count = 0, !.memory_failed = FALSE, !.last_ended = TRUE,
              !.envelope_done = FALSE, !.ch_enable = {},
              !.envelope_levels = [i \in Probes |-> [l \in Steps |->
                  IF i < s.channel_num THEN [@[i][l] EXCEPT !.length = 0] ELSE @[i][l]]]]

clear(s) == init(free_envelop(free_data(s)))

----------------------------------------------------------------------------
(* Storing samples. Instant captures append, others overwrite. *)

append_data(s, n) ==
    LET c == s.channel_num
        offset == IF s.instant THEN s.sample_count * c ELSE 0
        written == offset..(offset + n * c - 1)
    IN  IF s.data_size = 0 THEN [s EXCEPT !.fault = "null_data"]
        ELSE IF offset + n * c > s.data_size THEN [s EXCEPT !.fault = "overrun"]
        ELSE [s EXCEPT
                !.data = [p \in DOMAIN @ \cup written |->
                            IF p \in written THEN packets + 1 ELSE @[p]],
                !.sample_count = IF s.instant
                                   THEN (@ + n) % (s.total_sample_count + 1)
                                   ELSE n]

----------------------------------------------------------------------------
(* The envelope. *)

RoundUp(n) == ((n + EnvelopeDataUnit - 1) \div EnvelopeDataUnit) * EnvelopeDataUnit

(* The length first_payload() allocates for each level. *)
LevelSize(total) ==
    LET size[l \in Steps] ==
          RoundUp((IF l = 0 THEN total ELSE size[l - 1]) \div EnvelopeScaleFactor)
    IN  size

KeptAlways(length, len, restart) ==     \* mutant: a frame of equal length updates nothing
    IF restart THEN 0 ELSE length

(* Where a level's update begins: at its old length, or from 0 when the
   length is the same as before. *)
Kept(length, len, restart) ==
    IF restart \/ len = length THEN 0 ELSE length

(* What the k-th sample of a level covers in the level below. *)
Block(k) == (k * EnvelopeScaleFactor)..((k + 1) * EnvelopeScaleFactor - 1)

(* The bytes of a set of samples of the i-th channel. *)
Bytes(s, i, S) == {Byte(s, p * s.channel_num + i) : p \in S}

(* A level after an update: level 0 comes from the data, each other one from
   the level below. A header, a change of the sample rate, restarts level 0. *)
UpdatedLevel(s, i, header, l, below) ==
    LET old == s.envelope_levels[i][l]
        len == (IF l = 0 THEN s.sample_count ELSE below.length) \div EnvelopeScaleFactor
        new == Kept(old.length, len, l = 0 /\ header)..(len - 1)
        sample(k) == IF l = 0 THEN Bytes(s, i, Block(k))
                     ELSE UNION {below.samples[j] : j \in Block(k) \cap DOMAIN below.samples}
    IN  [old EXCEPT !.length = len,
                    !.samples = [k \in DOMAIN @ \cup new |->
                                   IF k \in new THEN sample(k) ELSE @[k]]]

(* The new levels of a channel. *)
Updated(s, i, header) ==
    LET level[l \in Steps] ==
          UpdatedLevel(s, i, header, l, IF l = 0 THEN NoLevel ELSE level[l - 1])
    IN  level

(* Less than one block of samples: only the first length is changed. *)
append_payload_to_envelope_levels(s, header) ==
    LET len == s.sample_count \div EnvelopeScaleFactor
        levels == [i \in Probes |-> IF i < s.channel_num THEN Updated(s, i, header)
                                                         ELSE s.envelope_levels[i]]
        in_data == len * EnvelopeScaleFactor * s.channel_num <= s.data_size
        in_levels == \A i \in Probes, l \in Steps :
                       DOMAIN levels[i][l].samples \subseteq 0..(levels[i][l].size - 1)
    IN  IF len = 0 THEN [s EXCEPT !.envelope_levels[0][0].length = 0]
        ELSE [s EXCEPT !.envelope_levels = levels, !.envelope_done = TRUE,
                       !.fault = IF ~in_data THEN "overrun"
                                 ELSE IF in_levels THEN @ ELSE "envelope_overrun"]

----------------------------------------------------------------------------
(* What readers get. *)

has_data(s, probe) == probe \in s.ch_enable

(* The position of a sample that get_samples() returns a pointer to. *)
get_samples(s, start, index) ==
    start * s.channel_num + (IF s.channel_num # 1 THEN index ELSE 0)

(* The samples that one envelope sample of a level stands for. *)
Scale[l \in Steps] == EnvelopeScaleFactor * (IF l = 0 THEN 1 ELSE Scale[l - 1])

(* The envelope of the first end samples at a level, as get_envelope_section()
   returns it; its choice of a level from a length is left to the reader. *)
get_envelope_section(s, end, i, l) ==
    LET level == s.envelope_levels[i][l]
    IN  IF ~s.envelope_done \/ level.length = 0 THEN NothingYet
        ELSE [k \in 0..(end \div Scale[l] - 1) |->
                IF k \in DOMAIN level.samples THEN level.samples[k] ELSE {}]

(* The powers of n up to the m-th. *)
Powers(n, m) ==
    LET power[k \in 0..m] == IF k = 0 THEN 1 ELSE n * power[k - 1]
    IN  power

MeanOfLastBlock(n, sums) ==     \* mutant: vmean_pre is not added
    LET blocks == Cardinality(DOMAIN sums)
        mean[k \in 0..blocks] ==
            IF k = 0 THEN 0 ELSE mean[k - 1] + sums[k] * Powers(n, blocks)[k - 1]
    IN  mean[blocks]

(* cal_vmean() of n samples whose blocks have these sums. The value is scaled
   by n after each block. What a block leaves in vmean is not reset: the next
   one adds its bytes to it and divides it again. *)
cal_vmean(n, sums) ==
    LET blocks == Cardinality(DOMAIN sums)
        mean[k \in 0..blocks] ==
            IF k = 0 THEN 0
            ELSE mean[k - 1] * n + (mean[k - 1] + sums[k] * Powers(n, blocks)[k - 1])
    IN  mean[blocks]

----------------------------------------------------------------------------
Idle == [at |-> "idle", n |-> 0, toggled |-> FALSE]

Init ==
    /\ snap = NewSnapshot /\ feeder = Idle
    /\ config \in Configs /\ capturing = FALSE
    /\ packets = 0 /\ base = 0 /\ received = 0 /\ steady = TRUE

(* capture_init() -> Dso::init(), then the sampling thread starts. *)
StartCapture(c) ==
    /\ Alive /\ ~capturing
    /\ packets < MaxPackets
    /\ snap' = init(snap)
    /\ config' = c /\ capturing' = TRUE
    /\ base' = packets /\ received' = 0 /\ steady' = TRUE
    /\ UNCHANGED <<feeder, packets>>

(* SR_DF_END -> capture_ended(), unless the capture ends without it. *)
EndCapture ==
    /\ Alive /\ capturing /\ feeder = Idle
    /\ capturing' = FALSE
    /\ \E ended \in {TRUE, snap.last_ended} : snap' = [snap EXCEPT !.last_ended = ended]
    /\ UNCHANGED <<feeder, config, packets, base, received, steady>>

(* init_signals() -> Dso::clear(), after stop_capture(). *)
Clear ==
    /\ Alive /\ ~capturing
    /\ snap' = clear(snap)
    /\ UNCHANGED <<feeder, captureVars>>

(* Another thread, at any time. *)
EnableEnvelope(enable) ==
    /\ Alive
    /\ snap' = [(IF ~snap.envelope_done /\ enable
                   THEN append_payload_to_envelope_levels(snap, TRUE)
                   ELSE snap) EXCEPT !.envelope_en = enable]
    /\ UNCHANGED <<feeder, captureVars>>

(* feed_in_dso(): a packet after a failed allocation is dropped. An instant
   capture never exceeds its limit in all, a repetitive one in no frame; a
   frame of another length comes with a toggled sample rate (external). *)
FeedDso(n, toggled) ==
    /\ Alive /\ capturing /\ feeder = Idle
    /\ packets < MaxPackets /\ ~snap.memory_failed
    /\ IF config.instant THEN received + n <= config.limit
                         ELSE received \in {0, n} \/ toggled
    /\ feeder' = [at |-> IF snap.last_ended THEN "first" ELSE "append",
                  n |-> n, toggled |-> toggled]
    /\ UNCHANGED <<snap, captureVars>>

----------------------------------------------------------------------------
(* first_payload(), unlocked up to its append_payload(). *)

Goto(step) == feeder' = [feeder EXCEPT !.at = step]

NewSize == snap.total_sample_count * snap.channel_num + Pad

ReallocBySize ==     \* mutant: reallocates only when the size of the buffer changes
    config.limit * Cardinality(config.ch_enable) + Pad # snap.capacity

Realloc ==
    \/ config.limit # snap.total_sample_count
    \/ Cardinality(config.ch_enable) # snap.channel_num
    \/ config.limit * Cardinality(config.ch_enable) + Pad # snap.capacity

FirstPayload ==
    /\ Alive /\ feeder.at = "first"
    /\ snap' = [snap EXCEPT !.total_sample_count = config.limit,
                            !.channel_num = Cardinality(config.ch_enable),
                            !.instant = config.instant,
                            !.ch_enable = config.ch_enable]
    /\ Goto(IF Realloc THEN "malloc" ELSE "append")
    /\ UNCHANGED captureVars

AllocateData ==
    /\ Alive /\ feeder.at = "malloc"
    /\ snap' = [free_data(snap) EXCEPT !.data_size = NewSize]
    /\ Goto("malloc_envelope")
    /\ UNCHANGED captureVars

(* The failed allocation of the buffer is taken for a success. *)
AllocateDataFails ==
    /\ Alive /\ feeder.at = "malloc"
    /\ snap' = [free_data(snap) EXCEPT !.capacity = NewSize]
    /\ Goto("append")
    /\ UNCHANGED captureVars

AllocateEnvelope ==
    /\ Alive /\ feeder.at = "malloc_envelope"
    /\ snap' = [snap EXCEPT
                  !.capacity = NewSize,
                  !.envelope_levels = [i \in Probes |-> [l \in Steps |->
                     IF i < snap.channel_num
                       THEN [NoLevel EXCEPT !.size = LevelSize(snap.total_sample_count)[l]]
                       ELSE NoLevel]]]
    /\ Goto("append")
    /\ UNCHANGED captureVars

AllocateEnvelopeFails ==
    /\ Alive /\ feeder.at = "malloc_envelope"
    /\ snap' = [free_envelop(free_data(snap)) EXCEPT !.memory_failed = TRUE]
    /\ feeder' = Idle
    /\ UNCHANGED captureVars

(* append_payload(), under the mutex; after first_payload() the capture has
   begun. *)
AppendPayload ==
    /\ Alive /\ feeder.at = "append"
    /\ LET stored == append_data(snap, feeder.n)
           summed == IF snap.envelope_en
                       THEN append_payload_to_envelope_levels(stored, feeder.toggled)
                       ELSE stored
       IN  snap' = [(IF feeder.n = 0 THEN snap
                     ELSE IF stored.fault # "none" THEN stored
                     ELSE summed) EXCEPT !.last_ended = FALSE]
    /\ feeder' = Idle
    /\ packets' = packets + 1
    /\ IF feeder.n = 0 THEN UNCHANGED <<received, steady>>
       ELSE /\ received' = IF config.instant THEN received + feeder.n ELSE feeder.n
            /\ steady' = (steady /\ received \in {0, feeder.n})
    /\ UNCHANGED <<config, capturing, base>>

Next ==
    \/ \E c \in Configs : StartCapture(c)
    \/ EndCapture
    \/ Clear
    \/ \E enable \in BOOLEAN : EnableEnvelope(enable)
    \/ \E n \in 0..config.limit, toggled \in BOOLEAN : FeedDso(n, toggled)
    \/ FirstPayload
    \/ AllocateData \/ AllocateDataFails
    \/ AllocateEnvelope \/ AllocateEnvelopeFails
    \/ AppendPayload

Spec == Init /\ [][Next]_vars

----------------------------------------------------------------------------
TypeOK ==
    /\ DOMAIN snap.data \subseteq 0..(snap.data_size - 1)
    /\ snap.channel_num \in 1..ProbeCount
    /\ snap.total_sample_count \in Limits \cup {1}
    /\ snap.sample_count \in 0..snap.total_sample_count
    /\ \A i \in Probes, l \in Steps : snap.envelope_levels[i][l].length \in Nat
    /\ snap.fault \in {"none", "null_data", "overrun", "envelope_overrun"}
    /\ feeder.at \in {"idle", "first", "malloc", "malloc_envelope", "append"}
    /\ config \in Configs /\ capturing \in BOOLEAN /\ steady \in BOOLEAN
    /\ base <= packets /\ packets <= MaxPackets

(* However captures of different limits, channels and modes, failed
   allocations, clears and switches of the envelope follow each other: no
   sample is written, nor read for the envelope, outside the buffer, although
   first_payload() replaces it without the lock that the other thread takes. *)
SamplesFit == snap.fault # "overrun"

(* Nor is the envelope written outside its arrays, whose sizes follow another
   limit than the one of the buffer they are filled from might have. *)
EnvelopeFits == snap.fault # "envelope_overrun"

(* What cal_vmean() carries from block to block makes the mean of a full
   snapshot too large, but by less than half a step of the converter, so that
   it rounds to a step next to the mean: a block has more samples (256) than a
   byte's largest value. The bytes may be any. *)
MeanWithinHalfStep ==
    Alive /\ snap.sample_count \in Limits =>
      LET n == snap.sample_count
          blocks == n \div EnvelopeScaleFactor
      IN  \A sums \in [1..blocks -> 0..(EnvelopeScaleFactor * (EnvelopeScaleFactor - 1))] :
            LET sum[k \in 0..blocks] == IF k = 0 THEN 0 ELSE sum[k - 1] + sums[k]
                exact == sum[blocks] * Powers(n, blocks)[blocks - 1]
            IN  2 * cal_vmean(n, sums) \in (2 * exact)..(2 * exact + Powers(n, blocks)[blocks] - 1)

(* Between packets the snapshot holds the running capture and nothing else:
   as many samples as were received, each of a packet of this capture, and
   the probes that has_data() reports do not share a byte. *)
SnapshotIsCapture ==
    Alive /\ capturing /\ feeder = Idle /\ ~snap.memory_failed =>
        /\ snap.sample_count = received
        /\ \A start \in 0..(snap.sample_count - 1) :
             LET bytes == {get_samples(snap, start, probe) :
                             probe \in {p \in Probes : has_data(snap, p)}}
             IN  /\ Cardinality(bytes) = Cardinality(snap.ch_enable)
                 /\ \A p \in bytes : Byte(snap, p)[1] > base

(* The envelope of level l of every channel is that of the samples held. *)
LevelFollowsData(s, l) ==
    \A i \in 0..(s.channel_num - 1) :
       get_envelope_section(s, s.sample_count, i, l)
          = [k \in 0..(s.sample_count \div Scale[l] - 1) |->
               Bytes(s, i, (k * Scale[l])..((k + 1) * Scale[l] - 1))]

Stored == feeder.at = "append" /\ feeder' = Idle /\ feeder.n # 0 /\ snap.envelope_en

(* After a packet is stored with the envelope on, every level shows the data
   as it is now, in an instant capture, and in a repetitive one whose frames
   have been of one length; switching the envelope off and on in between,
   short packets and reused buffers do not matter. *)
EnvelopeFollowsData ==
    [][Stored /\ Alive' /\ (config.instant \/ steady') =>
         \A l \in Steps : LevelFollowsData(snap, l)']_vars

(* "Generate the first mip-map from the data" (dsosnapshot.cpp:165): after
   every packet, whatever the lengths of the frames. *)
FirstLevelFollowsData ==
    [][Stored /\ Alive' => LevelFollowsData(snap, 0)']_vars
============================================================================
