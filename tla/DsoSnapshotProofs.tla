------------------------- MODULE DsoSnapshotProofs -------------------------
(***************************************************************************)
(* Proofs about DsoSnapshot for any number of probes and levels, any       *)
(* limits and block size, and any number of captures and packets: samples  *)
(* stay in the buffer, whatever the two threads do to it, and are those of *)
(* the running capture; what cal_vmean() makes of them is close to their   *)
(* mean. The envelope has a module of its own.                             *)
(***************************************************************************)
EXTENDS DsoSnapshot, FiniteSetTheorems, NaturalNumbers, TLAPS

Members == {"data", "data_size", "capacity", "channel_num", "sample_count",
            "total_sample_count", "memory_failed", "last_ended", "instant",
            "ch_enable", "envelope_en", "envelope_done", "envelope_levels", "fault"}

(* The members that hold a number or a flag. *)
MembersInv(s) ==
    /\ DOMAIN s = Members
    /\ s.data_size \in Nat /\ s.capacity \in Nat /\ s.channel_num \in Nat \ {0}
    /\ s.sample_count \in Nat /\ s.total_sample_count \in Nat
    /\ s.last_ended \in BOOLEAN /\ s.instant \in BOOLEAN

FeederInv ==
    /\ feeder \in [at : {"idle", "first", "malloc", "malloc_envelope", "append"},
                   n : Nat, toggled : BOOLEAN]
    /\ config \in Configs /\ capturing \in BOOLEAN /\ received \in Nat

(* Except where it is about to be replaced, the buffer has the size of the
   members it is read with; where it is replaced there is nothing to read. *)
BufferInv ==
    /\ feeder.at # "malloc" /\ snap.data_size # 0 =>
          snap.data_size = snap.total_sample_count * snap.channel_num + Pad
    /\ feeder.at = "malloc" \/ snap.data_size = 0 => snap.sample_count = 0
    /\ snap.sample_count <= snap.total_sample_count
    /\ snap.sample_count # 0 => snap.total_sample_count \in Limits

(* From its first packet on, the members are those of the running capture, and
   what is stored and fed of it stays within its limit. *)
CaptureInv ==
    /\ feeder.at # "idle" => capturing
    /\ feeder.at \in {"first", "malloc", "malloc_envelope"} => snap.last_ended
    /\ capturing /\ snap.last_ended => snap.sample_count = 0
    /\ feeder.at \in {"malloc", "malloc_envelope", "append"}
         \/ (feeder.at = "idle" /\ capturing /\ ~snap.last_ended) =>
          /\ snap.total_sample_count = config.limit
          /\ snap.channel_num = Cardinality(config.ch_enable)
          /\ snap.instant = config.instant
    /\ capturing /\ config.instant => snap.sample_count <= received
    /\ feeder.at # "idle" =>
          feeder.n + (IF config.instant THEN received ELSE 0) <= config.limit

SampleInv == MembersInv(snap) /\ FeederInv /\ BufferInv /\ CaptureInv /\ SamplesFit

----------------------------------------------------------------------------
(* Whole blocks of n samples are no more samples than n. *)
LEMMA WholeBlocks ==
    ASSUME NEW n \in Nat, NEW f \in Nat \ {0}
    PROVE  n \div f \in Nat /\ (n \div f) * f <= n
OBVIOUS

(* A sample count below the total is not wrapped. *)
LEMMA NoWrap ==
    ASSUME NEW n \in Nat, NEW m \in Nat, n <= m
    PROVE  n % (m + 1) = n
OBVIOUS

(* a samples and n more, of c channels each, are within m samples. *)
LEMMA InterleavedFit ==
    ASSUME NEW a \in Nat, NEW n \in Nat, NEW m \in Nat, NEW c \in Nat, a + n <= m
    PROVE  a * c + n * c <= m * c /\ a * c \in Nat /\ n * c \in Nat /\ m * c \in Nat
OBVIOUS

(* The channels of a packet are a number of probes, at least one. *)
LEMMA PacketChannels ==
    ASSUME NEW c \in Configs
    PROVE  Cardinality(c.ch_enable) \in Nat \ {0} /\ c.limit \in Nat /\ c.limit \in Limits
<1>1. 0 \in Int /\ ProbeCount - 1 \in Int
  BY SnapshotAssumption
<1>2. IsFiniteSet(Probes)
  BY <1>1, FS_Interval DEF Probes
<1>3. c.ch_enable \in SUBSET Probes /\ c.ch_enable # {}
  BY DEF Configs
<1>4. c.limit \in Limits
  BY DEF Configs
<1>5. IsFiniteSet(c.ch_enable)
  BY <1>2, <1>3, FS_Subset
<1>6. Cardinality(c.ch_enable) \in Nat /\ Cardinality(c.ch_enable) # 0
  BY <1>3, <1>5, FS_CardinalityType, FS_EmptySet
<1> QED
  BY <1>4, <1>6, SnapshotAssumption

(* Building the envelope changes nothing of the samples, and reads none that
   the buffer does not have if the samples counted are in it. *)
LEMMA EnvelopeKeepsSamples ==
    ASSUME NEW s, NEW header, MembersInv(s), s.fault # "overrun",
           s.sample_count * s.channel_num <= s.data_size
    PROVE  LET e == append_payload_to_envelope_levels(s, header)
           IN  /\ MembersInv(e) /\ e.fault # "overrun"
               /\ e.data_size = s.data_size /\ e.capacity = s.capacity
               /\ e.channel_num = s.channel_num /\ e.sample_count = s.sample_count
               /\ e.total_sample_count = s.total_sample_count
               /\ e.last_ended = s.last_ended /\ e.instant = s.instant
               /\ e.data = s.data /\ e.ch_enable = s.ch_enable
<1> DEFINE len == s.sample_count \div EnvelopeScaleFactor
           c == s.channel_num
<1>1. len \in Nat /\ len * EnvelopeScaleFactor \in Nat
      /\ len * EnvelopeScaleFactor <= s.sample_count /\ c \in Nat /\ s.sample_count \in Nat
  BY WholeBlocks, SnapshotAssumption DEF MembersInv
<1>2. len * EnvelopeScaleFactor * c <= s.data_size
  <2> DEFINE blocks == len * EnvelopeScaleFactor
  <2>1. blocks \in Nat /\ blocks + 0 <= s.sample_count
    BY <1>1
  <2> HIDE DEF blocks
  <2>2. blocks * c + 0 * c <= s.sample_count * c /\ blocks * c \in Nat /\ s.sample_count * c \in Nat
    BY <2>1, <1>1, InterleavedFit
  <2>3. blocks * c <= s.data_size
    BY <2>2, <1>1 DEF MembersInv
  <2> QED
    BY <2>3 DEF blocks
<1> QED
  BY <1>2 DEF append_payload_to_envelope_levels, MembersInv, Members

(* The samples counted are in the buffer, at every step of either thread. *)
LEMMA CountedInBuffer ==
    ASSUME SampleInv
    PROVE  snap.sample_count * snap.channel_num <= snap.data_size
<1> DEFINE n == snap.sample_count
           m == snap.total_sample_count
           c == snap.channel_num
<1>1. n \in Nat /\ m \in Nat /\ c \in Nat /\ snap.data_size \in Nat /\ n + 0 <= m /\ Pad \in Nat
  BY SnapshotAssumption DEF SampleInv, MembersInv, BufferInv
<1>2. CASE n = 0
  BY <1>1, <1>2
<1>3. CASE n # 0
  <2>1. snap.data_size = m * c + Pad
    BY <1>3 DEF SampleInv, BufferInv
  <2> HIDE DEF n, m, c
  <2>2. n * c + 0 * c <= m * c /\ n * c \in Nat /\ m * c \in Nat
    BY <1>1, InterleavedFit
  <2> QED
    BY <2>1, <2>2, <1>1 DEF n, m, c
<1> QED
  BY <1>2, <1>3

----------------------------------------------------------------------------
(* A snapshot starts empty, with its invariant. *)
LEMMA SampleInit == Init => SampleInv
<1> SUFFICES ASSUME Init PROVE SampleInv
  OBVIOUS
<1> USE DEF Init, NewSnapshot, Idle
<1>1. MembersInv(snap)
  BY DEF MembersInv, Members
<1>2. FeederInv
  BY DEF FeederInv
<1>3. BufferInv /\ CaptureInv /\ SamplesFit
  BY DEF BufferInv, CaptureInv, SamplesFit
<1> QED
  BY <1>1, <1>2, <1>3 DEF SampleInv

(* A packet that is stored goes where the buffer has room for it: behind the
   samples of an instant capture, over those of a repetitive one. *)
LEMMA PacketStored ==
    ASSUME SampleInv, feeder.at = "append"
    PROVE  LET n == feeder.n
               c == snap.channel_num
               start == IF snap.instant THEN snap.sample_count ELSE 0
               written == (start * c)..(start * c + n * c - 1)
           IN  /\ n \in Nat /\ c \in Nat \ {0} /\ start \in Nat
               /\ start + n <= snap.total_sample_count
               /\ snap.data_size # 0 =>
                    append_data(snap, n) =
                      [snap EXCEPT !.data = [p \in DOMAIN snap.data \cup written |->
                                               IF p \in written THEN packets + 1
                                                                ELSE snap.data[p]],
                                   !.sample_count = start + n]
<1> DEFINE n == feeder.n
           c == snap.channel_num
           m == snap.total_sample_count
           start == IF snap.instant THEN snap.sample_count ELSE 0
           offset == IF snap.instant THEN snap.sample_count * c ELSE 0
<1>1. /\ n \in Nat /\ c \in Nat \ {0} /\ m \in Nat /\ start \in Nat
      /\ snap.sample_count \in Nat /\ snap.data_size \in Nat /\ Pad \in Nat /\ m = config.limit
  BY SnapshotAssumption DEF SampleInv, MembersInv, FeederInv, CaptureInv
<1>2. start + n <= m
  BY <1>1 DEF SampleInv, CaptureInv, FeederInv, MembersInv
<1>3. offset = start * c
  BY <1>1
<1>4. offset + n * c <= m * c /\ m * c \in Nat /\ offset + n * c \in Nat
  <2> HIDE DEF n, c, m, start, offset
  <2> QED
    BY <1>1, <1>2, <1>3, InterleavedFit
<1>5. snap.data_size # 0 => snap.data_size = m * c + Pad
  BY DEF SampleInv, BufferInv
<1>6. ~(snap.data_size # 0 /\ offset + n * c > snap.data_size)
  <2> HIDE DEF n, c, m, offset
  <2> QED
    BY <1>1, <1>4, <1>5
<1>7. snap.instant => (snap.sample_count + n) % (m + 1) = snap.sample_count + n
  <2> SUFFICES ASSUME snap.instant PROVE (snap.sample_count + n) % (m + 1) = snap.sample_count + n
    OBVIOUS
  <2>1. snap.sample_count + n \in Nat /\ snap.sample_count + n <= m /\ m \in Nat
    BY <1>1, <1>2
  <2> QED
    BY <2>1, NoWrap
<1>8. (IF snap.instant THEN snap.sample_count + n ELSE n) = start + n
  BY <1>1
<1> DEFINE written == offset..(offset + n * c - 1)
           filled == [p \in DOMAIN snap.data \cup written |->
                        IF p \in written THEN packets + 1 ELSE snap.data[p]]
<1>9. snap.data_size # 0 =>
        append_data(snap, n) =
          [snap EXCEPT !.data = filled,
                       !.sample_count = IF snap.instant THEN snap.sample_count + n ELSE n]
  BY <1>6, <1>7 DEF append_data
<1> QED
  BY <1>1, <1>2, <1>3, <1>8, <1>9

(* It is then counted, and the invariant's parts about the two follow. *)
LEMMA PacketFits ==
    ASSUME SampleInv, feeder.at = "append"
    PROVE  LET stored == append_data(snap, feeder.n)
           IN  /\ MembersInv(stored) /\ stored.fault # "overrun"
               /\ stored.data_size = snap.data_size /\ stored.capacity = snap.capacity
               /\ stored.channel_num = snap.channel_num
               /\ stored.total_sample_count = snap.total_sample_count
               /\ stored.last_ended = snap.last_ended /\ stored.instant = snap.instant
               /\ stored.sample_count <= stored.total_sample_count
               /\ stored.data_size = 0 => stored.sample_count = 0
               /\ config.instant => stored.sample_count <= received + feeder.n
<1> DEFINE n == feeder.n
           c == snap.channel_num
           m == snap.total_sample_count
           start == IF snap.instant THEN snap.sample_count ELSE 0
<1>1. /\ n \in Nat /\ c \in Nat /\ m \in Nat /\ start \in Nat /\ received \in Nat
      /\ snap.sample_count \in Nat /\ snap.data_size \in Nat
  BY SnapshotAssumption DEF SampleInv, MembersInv, FeederInv, CaptureInv
<1>2. start + n <= m
  BY PacketStored
<1>3. /\ snap.sample_count <= m /\ (snap.data_size = 0 => snap.sample_count = 0)
      /\ config.instant => snap.sample_count <= received
      /\ snap.instant = config.instant
      /\ DOMAIN snap = Members /\ snap.fault # "overrun"
  <2>1. snap.sample_count <= m /\ (snap.data_size = 0 => snap.sample_count = 0)
    BY DEF SampleInv, BufferInv
  <2>2. config.instant => snap.sample_count <= received
    BY DEF SampleInv, CaptureInv
  <2>3. snap.instant = config.instant
    BY DEF SampleInv, CaptureInv
  <2> QED
    BY <2>1, <2>2, <2>3 DEF SampleInv, MembersInv, SamplesFit
<1>4. CASE snap.data_size = 0
  BY <1>1, <1>3, <1>4 DEF append_data, SampleInv, MembersInv, Members
<1>5. CASE snap.data_size # 0
  <2> DEFINE written == (start * c)..(start * c + n * c - 1)
             filled == [p \in DOMAIN snap.data \cup written |->
                          IF p \in written THEN packets + 1 ELSE snap.data[p]]
             count == start + n
  <2>1. append_data(snap, n) = [snap EXCEPT !.data = filled, !.sample_count = count]
    BY <1>5, PacketStored
  <2>2. count \in Nat /\ count <= m /\ (config.instant => count <= received + n)
    BY <1>1, <1>2, <1>3
  <2> HIDE DEF filled, count, m, c, start, written
  <2>3. append_data(snap, n).sample_count = count
    BY <2>1, <1>3 DEF Members
  <2> QED
    BY <2>1, <2>2, <2>3, <1>1, <1>3, <1>5 DEF SampleInv, MembersInv, Members, m
<1> QED
  BY <1>4, <1>5

(* And so do the samples counted after it. *)
LEMMA StoredInBuffer ==
    ASSUME SampleInv, feeder.at = "append"
    PROVE  LET stored == append_data(snap, feeder.n)
           IN  stored.sample_count * stored.channel_num <= stored.data_size
<1> DEFINE stored == append_data(snap, feeder.n)
           n == stored.sample_count
           m == snap.total_sample_count
           c == snap.channel_num
<1>1. /\ MembersInv(stored) /\ stored.data_size = snap.data_size /\ stored.channel_num = c
      /\ n <= m /\ (stored.data_size = 0 => n = 0)
  BY PacketFits
<1>2. n \in Nat /\ m \in Nat /\ c \in Nat /\ n + 0 <= m /\ Pad \in Nat
  BY <1>1, SnapshotAssumption DEF SampleInv, MembersInv
<1>3. stored.data_size # 0 => stored.data_size = m * c + Pad
  BY <1>1 DEF SampleInv, BufferInv
<1> HIDE DEF n, m, c, stored
<1>4. n * c + 0 * c <= m * c /\ n * c \in Nat /\ m * c \in Nat
  BY <1>2, InterleavedFit
<1>5. n * c <= stored.data_size
  <2>1. n = 0 => n * c = 0
    BY <1>2
  <2> QED
    BY <1>1, <1>2, <1>3, <1>4, <2>1
<1>6. stored.sample_count * stored.channel_num <= stored.data_size
  BY <1>1, <1>5 DEF n
<1> QED
  BY <1>6 DEF stored

(* The members an action of the other thread leaves as they are. *)
KeepsShape == /\ snap'.data_size = snap.data_size /\ snap'.channel_num = snap.channel_num
              /\ snap'.total_sample_count = snap.total_sample_count
              /\ snap'.instant = snap.instant

(* Capturing threads and the one that switches the envelope, step by step. *)
LEMMA SampleNext == SampleInv /\ [Next]_vars => SampleInv'
<1> SUFFICES ASSUME SampleInv, [Next]_vars PROVE SampleInv'
  OBVIOUS
<1> USE DEF Members
<1>0. /\ MembersInv(snap) /\ FeederInv /\ BufferInv /\ CaptureInv /\ snap.fault # "overrun"
      /\ Pad \in Nat
  BY SnapshotAssumption DEF SampleInv, SamplesFit
<1>1. ASSUME NEW c \in Configs, StartCapture(c) PROVE SampleInv'
  <2>1. MembersInv(snap') /\ KeepsShape /\ snap'.sample_count = 0 /\ snap'.last_ended
        /\ snap'.fault = snap.fault
    BY <1>0, <1>1 DEF StartCapture, init, MembersInv, KeepsShape
  <2>2. feeder' = feeder /\ feeder.at = "idle" /\ config' = c /\ capturing' = TRUE /\ received' = 0
    BY <1>0, <1>1 DEF StartCapture, CaptureInv, FeederInv
  <2>3. FeederInv'
    BY <1>0, <2>2 DEF FeederInv
  <2>4. BufferInv'
    BY <1>0, <2>1, <2>2 DEF BufferInv, KeepsShape, MembersInv
  <2>5. CaptureInv'
    BY <2>1, <2>2 DEF CaptureInv
  <2> QED
    BY <1>0, <2>1, <2>3, <2>4, <2>5 DEF SampleInv, SamplesFit, MembersInv
<1>2. ASSUME EndCapture PROVE SampleInv'
  <2>1. MembersInv(snap') /\ KeepsShape /\ snap'.sample_count = snap.sample_count
        /\ snap'.fault = snap.fault
    BY <1>0, <1>2 DEF EndCapture, MembersInv, KeepsShape
  <2>2. /\ feeder' = feeder /\ feeder.at = "idle" /\ capturing' = FALSE
        /\ config' = config /\ received' = received
    BY <1>2 DEF EndCapture, Idle
  <2> QED
    BY <1>0, <2>1, <2>2
       DEF SampleInv, SamplesFit, MembersInv, FeederInv, BufferInv, CaptureInv, KeepsShape
<1>3. ASSUME Clear PROVE SampleInv'
  <2>1. /\ MembersInv(snap') /\ snap'.sample_count = 0 /\ snap'.last_ended /\ snap'.fault = snap.fault
        /\ snap'.channel_num = snap.channel_num
        /\ snap'.total_sample_count = snap.total_sample_count
        /\ snap'.data_size = 0
    BY <1>0, <1>3 DEF Clear, clear, free_data, free_envelop, init, MembersInv
  <2>2. feeder' = feeder /\ UNCHANGED captureVars /\ ~capturing /\ feeder.at = "idle"
    BY <1>0, <1>3 DEF Clear, CaptureInv, FeederInv
  <2> QED
    BY <1>0, <2>1, <2>2
       DEF SampleInv, SamplesFit, MembersInv, FeederInv, BufferInv, CaptureInv, captureVars
<1>4. ASSUME NEW enable \in BOOLEAN, EnableEnvelope(enable) PROVE SampleInv'
  <2>1. /\ MembersInv(snap') /\ KeepsShape /\ snap'.sample_count = snap.sample_count
        /\ snap'.last_ended = snap.last_ended /\ snap'.fault # "overrun"
    <3> DEFINE e == IF ~snap.envelope_done /\ enable
                      THEN append_payload_to_envelope_levels(snap, TRUE) ELSE snap
    <3>1. /\ MembersInv(e) /\ e.fault # "overrun"
          /\ e.data_size = snap.data_size /\ e.channel_num = snap.channel_num
          /\ e.sample_count = snap.sample_count /\ e.last_ended = snap.last_ended
          /\ e.total_sample_count = snap.total_sample_count /\ e.instant = snap.instant
      BY <1>0, CountedInBuffer, EnvelopeKeepsSamples
    <3>2. snap' = [e EXCEPT !.envelope_en = enable]
      BY <1>4 DEF EnableEnvelope
    <3> HIDE DEF e
    <3> QED
      BY <3>1, <3>2 DEF MembersInv, KeepsShape
  <2>2. feeder' = feeder /\ UNCHANGED captureVars
    BY <1>4 DEF EnableEnvelope
  <2> QED
    BY <1>0, <2>1, <2>2
       DEF SampleInv, SamplesFit, MembersInv, FeederInv, BufferInv, CaptureInv, KeepsShape, captureVars
<1>5. ASSUME NEW n \in 0..config.limit, NEW toggled \in BOOLEAN, FeedDso(n, toggled)
      PROVE  SampleInv'
  <2>1. /\ UNCHANGED <<snap, captureVars>> /\ capturing /\ feeder.at = "idle"
        /\ config.instant => received + n <= config.limit
        /\ feeder' = [at |-> IF snap.last_ended THEN "first" ELSE "append",
                      n |-> n, toggled |-> toggled]
    BY <1>5 DEF FeedDso, Idle
  <2>2. n \in Nat /\ n <= config.limit
    BY <1>0, PacketChannels DEF FeederInv
  <2> QED
    BY <1>0, <2>1, <2>2
       DEF SampleInv, SamplesFit, MembersInv, FeederInv, BufferInv, CaptureInv, captureVars
<1>6. ASSUME FirstPayload PROVE SampleInv'
  <2> DEFINE channels == Cardinality(config.ch_enable)
  <2>1. channels \in Nat \ {0} /\ config.limit \in Nat /\ config.limit \in Limits
        /\ config.instant \in BOOLEAN
    BY <1>0, PacketChannels DEF FeederInv, Configs
  <2>2. /\ MembersInv(snap') /\ snap'.sample_count = snap.sample_count
        /\ snap'.last_ended = snap.last_ended /\ snap'.fault = snap.fault
        /\ snap'.data_size = snap.data_size
        /\ snap'.total_sample_count = config.limit /\ snap'.channel_num = channels
        /\ snap'.instant = config.instant
    BY <1>0, <1>6, <2>1 DEF FirstPayload, MembersInv
  <2>3. /\ feeder.at = "first" /\ UNCHANGED captureVars
        /\ feeder' = [feeder EXCEPT !.at = IF Realloc THEN "malloc" ELSE "append"]
    BY <1>6 DEF FirstPayload, Goto
  <2>4. snap.sample_count = 0 /\ capturing /\ snap.last_ended
    BY <1>0, <2>3 DEF CaptureInv
  <2>5. ~Realloc => config.limit = snap.total_sample_count /\ channels = snap.channel_num
    BY DEF Realloc
  <2> HIDE DEF channels
  <2> QED
    BY <1>0, <2>1, <2>2, <2>3, <2>4, <2>5
       DEF SampleInv, SamplesFit, FeederInv, BufferInv, CaptureInv, captureVars, channels
<1>7. ASSUME AllocateData \/ AllocateDataFails PROVE SampleInv'
  <2>1. snap.total_sample_count * snap.channel_num \in Nat /\ NewSize \in Nat
    BY <1>0, InterleavedFit DEF MembersInv, NewSize
  <2>2. /\ MembersInv(snap') /\ snap'.sample_count = 0
        /\ snap'.last_ended = snap.last_ended /\ snap'.fault = snap.fault
        /\ snap'.total_sample_count = snap.total_sample_count
        /\ snap'.channel_num = snap.channel_num /\ snap'.instant = snap.instant
        /\ snap'.data_size = IF AllocateData THEN NewSize ELSE 0
    <3>1. feeder.at = "malloc" /\ snap.sample_count = 0
      BY <1>0, <1>7 DEF AllocateData, AllocateDataFails, BufferInv
    <3>2. LET f == free_data(snap)
          IN  /\ MembersInv(f) /\ f.data_size = 0 /\ f.sample_count = 0
              /\ f.last_ended = snap.last_ended /\ f.fault = snap.fault
              /\ f.total_sample_count = snap.total_sample_count
              /\ f.channel_num = snap.channel_num /\ f.instant = snap.instant
      BY <1>0, <3>1 DEF free_data, MembersInv
    <3>3. CASE AllocateData
      BY <2>1, <3>2, <3>3 DEF AllocateData, MembersInv
    <3>4. CASE AllocateDataFails /\ ~AllocateData
      BY <2>1, <3>2, <3>4 DEF AllocateDataFails, MembersInv
    <3> QED
      BY <1>7, <3>3, <3>4
  <2>3. /\ feeder.at = "malloc" /\ UNCHANGED captureVars
        /\ feeder' = [feeder EXCEPT !.at = IF AllocateData THEN "malloc_envelope" ELSE "append"]
    BY <1>7 DEF AllocateData, AllocateDataFails, Goto
  <2> QED
    BY <1>0, <2>1, <2>2, <2>3
       DEF SampleInv, SamplesFit, FeederInv, BufferInv, CaptureInv, captureVars, NewSize
<1>8. ASSUME AllocateEnvelope PROVE SampleInv'
  <2>1. snap.total_sample_count * snap.channel_num \in Nat /\ NewSize \in Nat
    BY <1>0, InterleavedFit DEF MembersInv, NewSize
  <2>2. /\ MembersInv(snap') /\ KeepsShape /\ snap'.sample_count = snap.sample_count
        /\ snap'.last_ended = snap.last_ended /\ snap'.fault = snap.fault
    BY <1>0, <1>8, <2>1 DEF AllocateEnvelope, MembersInv, KeepsShape
  <2>3. /\ feeder.at = "malloc_envelope" /\ UNCHANGED captureVars
        /\ feeder' = [feeder EXCEPT !.at = "append"]
    BY <1>8 DEF AllocateEnvelope, Goto
  <2> QED
    BY <1>0, <2>2, <2>3
       DEF SampleInv, SamplesFit, FeederInv, BufferInv, CaptureInv, captureVars, KeepsShape, MembersInv
<1>9. ASSUME AllocateEnvelopeFails PROVE SampleInv'
  <2>1. /\ MembersInv(snap') /\ snap'.sample_count = 0 /\ snap'.data_size = 0
        /\ snap'.last_ended = snap.last_ended /\ snap'.fault = snap.fault
        /\ snap'.total_sample_count = snap.total_sample_count
    <3>1. snap.data_size = 0 => snap.sample_count = 0
      BY <1>0 DEF BufferInv
    <3> QED
      BY <1>0, <1>9, <3>1 DEF AllocateEnvelopeFails, free_envelop, free_data, MembersInv
  <2>2. feeder.at = "malloc_envelope" /\ UNCHANGED captureVars /\ feeder' = Idle
    BY <1>9 DEF AllocateEnvelopeFails
  <2>3. snap.last_ended
    BY <1>0, <2>2 DEF CaptureInv
  <2> QED
    BY <1>0, <2>1, <2>2, <2>3
       DEF SampleInv, SamplesFit, MembersInv, FeederInv, BufferInv, CaptureInv, captureVars, Idle
<1>10. ASSUME AppendPayload PROVE SampleInv'
  <2> DEFINE stored == append_data(snap, feeder.n)
             summed == IF snap.envelope_en
                         THEN append_payload_to_envelope_levels(stored, feeder.toggled)
                         ELSE stored
             last == IF feeder.n = 0 THEN snap
                     ELSE IF stored.fault # "none" THEN stored ELSE summed
  <2>1. feeder.at = "append" /\ capturing /\ feeder' = Idle
        /\ UNCHANGED <<config, capturing, base>>
    BY <1>0, <1>10 DEF AppendPayload, CaptureInv
  <2>2. snap' = [last EXCEPT !.last_ended = FALSE]
    BY <1>10 DEF AppendPayload
  <2>3. received' = IF feeder.n # 0 /\ ~config.instant THEN feeder.n ELSE received + feeder.n
    BY <1>0, <1>10 DEF AppendPayload, FeederInv
  <2>4. /\ MembersInv(stored) /\ stored.fault # "overrun"
        /\ stored.data_size = snap.data_size /\ stored.channel_num = snap.channel_num
        /\ stored.total_sample_count = snap.total_sample_count
        /\ stored.last_ended = snap.last_ended /\ stored.instant = snap.instant
        /\ stored.sample_count <= stored.total_sample_count
        /\ stored.data_size = 0 => stored.sample_count = 0
        /\ config.instant => stored.sample_count <= received + feeder.n
    BY <2>1, PacketFits
  <2>5. stored.sample_count * stored.channel_num <= stored.data_size
    BY <2>1, StoredInBuffer
  <2>6. /\ MembersInv(last) /\ last.fault # "overrun"
        /\ last.data_size = snap.data_size /\ last.channel_num = snap.channel_num
        /\ last.total_sample_count = snap.total_sample_count /\ last.instant = snap.instant
        /\ last.sample_count <= last.total_sample_count
        /\ last.data_size = 0 => last.sample_count = 0
        /\ config.instant => last.sample_count <= received + feeder.n
    <3> DEFINE SameStore(s) ==
                 /\ MembersInv(s) /\ s.fault # "overrun"
                 /\ s.data_size = snap.data_size /\ s.channel_num = snap.channel_num
                 /\ s.total_sample_count = snap.total_sample_count /\ s.instant = snap.instant
                 /\ s.sample_count <= s.total_sample_count
                 /\ s.data_size = 0 => s.sample_count = 0
                 /\ config.instant => s.sample_count <= received + feeder.n
    <3>1. SameStore(snap)
      BY <1>0, <2>1 DEF BufferInv, CaptureInv, FeederInv, MembersInv
    <3>2. SameStore(stored)
      BY <2>4
    <3> HIDE DEF stored
    <3>3. SameStore(summed)
      BY <2>4, <2>5, EnvelopeKeepsSamples
    <3> QED
      BY <3>1, <3>2, <3>3
  <2>7. /\ MembersInv(snap') /\ KeepsShape /\ ~snap'.last_ended /\ snap'.fault = last.fault
        /\ snap'.sample_count = last.sample_count
    <3> HIDE DEF last
    <3> QED
      BY <2>2, <2>6 DEF MembersInv, KeepsShape
  <2>8. /\ snap.total_sample_count = config.limit /\ snap.instant = config.instant
        /\ snap.channel_num = Cardinality(config.ch_enable) /\ config.limit \in Limits
    BY <1>0, <2>1, PacketChannels DEF CaptureInv, FeederInv
  <2>9. FeederInv' /\ feeder'.at = "idle" /\ capturing' /\ config' = config
    BY <1>0, <2>1, <2>3 DEF FeederInv, Idle
  <2> HIDE DEF last
  <2>10. BufferInv'
    BY <1>0, <2>1, <2>6, <2>7, <2>8, <2>9 DEF BufferInv, KeepsShape
  <2>11. CaptureInv'
    <3>1. config.instant => received' = received + feeder.n
      BY <2>3
    <3> QED
      BY <2>1, <2>6, <2>7, <2>8, <2>9, <3>1 DEF CaptureInv, KeepsShape
  <2> QED
    BY <2>6, <2>7, <2>9, <2>10, <2>11 DEF SampleInv, SamplesFit
<1>11. CASE UNCHANGED vars
  BY <1>0, <1>11 DEF vars, SampleInv, SamplesFit, MembersInv, FeederInv, BufferInv, CaptureInv
<1> QED
  BY <1>1, <1>2, <1>3, <1>4, <1>5, <1>6, <1>7, <1>8, <1>9, <1>10, <1>11 DEF Next

(* The invariant holds throughout. *)
THEOREM SnapshotInvariant == Spec => []SampleInv
BY SampleInit, SampleNext, PTL DEF Spec

(* However first_payload(), append_payload(), clear() and enable_envelope()
   follow each other, with any limits, channels and modes: no sample is copied
   to a place outside the buffer, and none outside it is read for the envelope. *)
THEOREM SnapshotSamplesFit == Spec => []SamplesFit
<1>1. SampleInv => SamplesFit
  BY DEF SampleInv
<1> QED
  BY SnapshotInvariant, <1>1, PTL

----------------------------------------------------------------------------
(* All bytes of the samples counted are of packets of the running capture. *)
Stamped(s) ==
    \A p \in 0..(s.sample_count * s.channel_num - 1) : p \in DOMAIN s.data /\ s.data[p] > base

(* While a capture runs, the samples counted are those received of it. *)
HeldInv ==
    /\ packets \in Nat /\ base \in Nat /\ base <= packets
    /\ capturing /\ snap.last_ended => received = 0
    /\ capturing /\ Alive => snap.sample_count = received /\ Stamped(snap)
    /\ capturing /\ (~snap.last_ended \/ feeder.at \in {"malloc", "malloc_envelope", "append"})
          => snap.ch_enable = config.ch_enable

(* With no samples there is nothing to be stamped. *)
LEMMA NothingStamped ==
    ASSUME NEW s, s.sample_count = 0, s.channel_num \in Nat
    PROVE  Stamped(s)
<1>1. s.sample_count * s.channel_num = 0
  OBVIOUS
<1> QED
  BY <1>1 DEF Stamped

(* A packet that is stored leaves the samples stamped, and is counted. *)
LEMMA PacketHeld ==
    ASSUME SampleInv, HeldInv, feeder.at = "append", Alive, snap.data_size # 0
    PROVE  LET stored == append_data(snap, feeder.n)
           IN  /\ stored.sample_count = IF config.instant THEN received + feeder.n
                                                          ELSE feeder.n
               /\ Stamped(stored) /\ stored.ch_enable = snap.ch_enable
               /\ stored.channel_num = snap.channel_num /\ stored.fault = snap.fault
<1> DEFINE n == feeder.n
           c == snap.channel_num
           start == IF snap.instant THEN snap.sample_count ELSE 0
           written == (start * c)..(start * c + n * c - 1)
           filled == [p \in DOMAIN snap.data \cup written |->
                        IF p \in written THEN packets + 1 ELSE snap.data[p]]
           stored == append_data(snap, n)
<1>1. n \in Nat /\ c \in Nat \ {0} /\ start \in Nat
      /\ stored = [snap EXCEPT !.data = filled, !.sample_count = start + n]
  BY PacketStored
<1>2. capturing /\ snap.instant = config.instant /\ DOMAIN snap = Members
  BY DEF SampleInv, CaptureInv, MembersInv
<1>3. snap.sample_count = received /\ Stamped(snap) /\ packets + 1 > base
  BY <1>2 DEF HeldInv
<1>4. start * c + n * c = (start + n) * c /\ start * c \in Nat /\ n * c \in Nat
  BY <1>1
<1> HIDE DEF written, filled, stored, start
<1>5. /\ stored.data = filled /\ stored.sample_count = start + n
      /\ stored.channel_num = c /\ stored.fault = snap.fault
      /\ stored.ch_enable = snap.ch_enable
  BY <1>1, <1>2 DEF Members
<1>6. ASSUME NEW p \in 0..((start + n) * c - 1)
      PROVE  p \in DOMAIN filled /\ filled[p] > base
  <2>1. CASE p \in written
    BY <2>1, <1>3 DEF filled
  <2>2. CASE p \notin written
    <3>1. p < start * c
      <4> DEFINE a == start * c
                 b == n * c
      <4>1. a \in Nat /\ b \in Nat /\ p \in 0..(a + b - 1) /\ p \notin a..(a + b - 1)
        BY <1>4, <2>2 DEF written
      <4> HIDE DEF a, b
      <4>2. p < a
        BY <4>1
      <4> QED
        BY <4>2 DEF a
    <3>2. start = snap.sample_count
      <4>1. start = 0 => start * c = 0
        BY <1>1
      <4> QED
        BY <3>1, <4>1 DEF start
    <3>3. p \in DOMAIN snap.data /\ snap.data[p] > base
      <4> DEFINE a == start * c
      <4>1. a \in Nat /\ p \in 0..(a - 1)
        BY <1>4, <3>1
      <4> QED
        BY <1>3, <3>2, <4>1 DEF Stamped
    <3> QED
      BY <2>2, <3>3 DEF filled
  <2> QED
    BY <2>1, <2>2
<1>7. Stamped(stored)
  BY <1>5, <1>6 DEF Stamped
<1>8. stored.sample_count = IF config.instant THEN received + n ELSE n
  BY <1>1, <1>2, <1>3, <1>5 DEF start
<1> QED
  BY <1>5, <1>7, <1>8 DEF stored

(* A snapshot starts with nothing held. *)
LEMMA HeldInit == Init => HeldInv
BY DEF Init, HeldInv

(* What a step leaves of the samples: all of them, or none. *)
KeepsHeld == /\ snap'.sample_count = snap.sample_count /\ snap'.channel_num = snap.channel_num
             /\ snap'.data = snap.data

(* Every step keeps the samples held those of the running capture. *)
LEMMA HeldNext == SampleInv /\ HeldInv /\ [Next]_vars => HeldInv'
<1> SUFFICES ASSUME SampleInv, HeldInv, [Next]_vars PROVE HeldInv'
  OBVIOUS
<1>0. /\ MembersInv(snap) /\ FeederInv /\ BufferInv /\ CaptureInv /\ SampleInv'
      /\ DOMAIN snap = Members /\ snap.channel_num \in Nat /\ snap.fault # "overrun"
      /\ snap'.channel_num \in Nat
  BY SampleNext DEF SampleInv, MembersInv, SamplesFit
<1>1. ASSUME NEW c \in Configs, StartCapture(c) PROVE HeldInv'
  <2>1. /\ snap'.sample_count = 0 /\ snap'.last_ended /\ base' = packets /\ received' = 0
        /\ packets' = packets /\ feeder' = feeder /\ feeder.at = "idle"
    BY <1>0, <1>1 DEF StartCapture, init, CaptureInv, Members
  <2>2. Stamped(snap)'
    BY <1>0, <2>1, NothingStamped DEF Stamped
  <2> QED
    BY <2>1, <2>2 DEF HeldInv
<1>2. ASSUME EndCapture \/ Clear PROVE HeldInv'
  BY <1>2 DEF EndCapture, Clear, captureVars, HeldInv
<1>3. ASSUME NEW enable \in BOOLEAN, EnableEnvelope(enable) PROVE HeldInv'
  <2> DEFINE e == IF ~snap.envelope_done /\ enable
                    THEN append_payload_to_envelope_levels(snap, TRUE) ELSE snap
  <2>1. /\ MembersInv(e) /\ e.channel_num = snap.channel_num
        /\ e.sample_count = snap.sample_count /\ e.last_ended = snap.last_ended
        /\ e.data = snap.data /\ e.ch_enable = snap.ch_enable
    BY <1>0, CountedInBuffer, EnvelopeKeepsSamples
  <2>2. Alive /\ snap' = [e EXCEPT !.envelope_en = enable] /\ UNCHANGED <<feeder, captureVars>>
    BY <1>3 DEF EnableEnvelope
  <2> HIDE DEF e
  <2>3. KeepsHeld /\ snap'.last_ended = snap.last_ended /\ snap'.ch_enable = snap.ch_enable
    BY <2>1, <2>2 DEF MembersInv, Members, KeepsHeld
  <2> QED
    BY <2>2, <2>3 DEF HeldInv, KeepsHeld, Stamped, captureVars
<1>4. ASSUME NEW n \in 0..config.limit, NEW toggled \in BOOLEAN, FeedDso(n, toggled)
      PROVE  HeldInv'
  BY <1>4 DEF FeedDso, HeldInv, Stamped, Alive, captureVars
<1>5. ASSUME FirstPayload PROVE HeldInv'
  <2>1. /\ feeder.at = "first" /\ Alive /\ UNCHANGED captureVars
        /\ snap'.sample_count = snap.sample_count /\ snap'.last_ended = snap.last_ended
        /\ snap'.ch_enable = config.ch_enable
    BY <1>0, <1>5 DEF FirstPayload, Members
  <2>2. snap.sample_count = 0 /\ capturing /\ snap.last_ended
    BY <1>0, <2>1 DEF CaptureInv
  <2>3. Stamped(snap)'
    BY <1>0, <2>1, <2>2, NothingStamped DEF Stamped
  <2> QED
    BY <2>1, <2>2, <2>3 DEF HeldInv, captureVars
<1>6. ASSUME AllocateData \/ AllocateDataFails PROVE HeldInv'
  <2>1. /\ feeder.at = "malloc" /\ Alive /\ UNCHANGED captureVars
        /\ snap.sample_count = 0 /\ capturing /\ snap.last_ended
    BY <1>0, <1>6 DEF AllocateData, AllocateDataFails, CaptureInv, BufferInv
  <2>2. LET f == free_data(snap)
        IN  /\ DOMAIN f = Members /\ f.sample_count = 0
            /\ f.last_ended = snap.last_ended /\ f.ch_enable = snap.ch_enable
    BY <1>0, <2>1 DEF free_data, Members
  <2>3. snap'.sample_count = 0 /\ snap'.last_ended /\ snap'.ch_enable = snap.ch_enable
    BY <1>6, <2>1, <2>2 DEF AllocateData, AllocateDataFails, Members
  <2>4. Stamped(snap)'
    BY <1>0, <2>3, NothingStamped DEF Stamped
  <2> QED
    BY <2>1, <2>3, <2>4 DEF HeldInv, captureVars
<1>7. ASSUME AllocateEnvelope PROVE HeldInv'
  <2>1. /\ KeepsHeld /\ snap'.last_ended = snap.last_ended /\ snap'.ch_enable = snap.ch_enable
        /\ feeder.at = "malloc_envelope" /\ Alive /\ UNCHANGED captureVars
    BY <1>0, <1>7 DEF AllocateEnvelope, Members, KeepsHeld
  <2> QED
    BY <1>0, <2>1 DEF HeldInv, KeepsHeld, Stamped, captureVars, CaptureInv
<1>8. ASSUME AllocateEnvelopeFails PROVE HeldInv'
  <2>1. feeder.at = "malloc_envelope" /\ UNCHANGED captureVars /\ feeder' = Idle
    BY <1>8 DEF AllocateEnvelopeFails
  <2>2. snap.last_ended /\ (snap.data_size = 0 => snap.sample_count = 0)
    BY <1>0, <2>1 DEF CaptureInv, BufferInv
  <2>3. snap'.sample_count = 0 /\ snap'.last_ended = snap.last_ended
        /\ snap'.ch_enable = snap.ch_enable
    BY <1>0, <1>8, <2>2 DEF AllocateEnvelopeFails, free_envelop, free_data, Members
  <2>4. Stamped(snap)'
    BY <1>0, <2>3, NothingStamped DEF Stamped
  <2> QED
    BY <2>1, <2>2, <2>3, <2>4 DEF HeldInv, captureVars, Idle
<1>9. ASSUME AppendPayload PROVE HeldInv'
  <2> DEFINE n == feeder.n
             stored == append_data(snap, n)
             summed == IF snap.envelope_en
                         THEN append_payload_to_envelope_levels(stored, feeder.toggled)
                         ELSE stored
             last == IF n = 0 THEN snap
                     ELSE IF stored.fault # "none" THEN stored ELSE summed
  <2>1. /\ feeder.at = "append" /\ capturing /\ Alive /\ n \in Nat
        /\ snap' = [last EXCEPT !.last_ended = FALSE]
        /\ feeder' = Idle /\ packets' = packets + 1
        /\ UNCHANGED <<config, capturing, base>>
        /\ received' = IF n = 0 THEN received
                       ELSE IF config.instant THEN received + n ELSE n
    BY <1>0, <1>9 DEF AppendPayload, CaptureInv, FeederInv
  <2>2. base' <= packets' /\ packets' \in Nat /\ base' \in Nat
    BY <2>1 DEF HeldInv
  <2>3. snap.ch_enable = config.ch_enable
    BY <2>1 DEF HeldInv
  <2>4. /\ MembersInv(stored) /\ stored.fault # "overrun"
        /\ stored.sample_count * stored.channel_num <= stored.data_size
        /\ stored.ch_enable = snap.ch_enable
    <3>1. MembersInv(stored) /\ stored.fault # "overrun"
      BY <2>1, PacketFits
    <3>2. stored.ch_enable = snap.ch_enable
      BY <1>0 DEF append_data, Members
    <3>3. stored.sample_count * stored.channel_num <= stored.data_size
      BY <2>1, StoredInBuffer
    <3> QED
      BY <3>1, <3>2, <3>3
  <2>5. /\ DOMAIN summed = Members
        /\ summed.sample_count = stored.sample_count /\ summed.channel_num = stored.channel_num
        /\ summed.data = stored.data /\ summed.ch_enable = stored.ch_enable
    <3> HIDE DEF stored
    <3> QED
      BY <2>4, EnvelopeKeepsSamples DEF MembersInv
  <2>6. DOMAIN last = Members /\ last.ch_enable = snap.ch_enable
    BY <1>0, <2>4, <2>5 DEF MembersInv
  <2>7. snap'.ch_enable = config'.ch_enable /\ ~snap'.last_ended
    <3> HIDE DEF last
    <3> QED
      BY <2>1, <2>3, <2>6 DEF Members
  <2>8. ASSUME Alive' PROVE snap'.sample_count = received' /\ Stamped(snap)'
    <3>1. /\ last.fault = "none" /\ snap'.sample_count = last.sample_count
          /\ snap'.channel_num = last.channel_num /\ snap'.data = last.data
      <4> HIDE DEF last
      <4> QED
        BY <2>1, <2>6, <2>8 DEF Members, Alive
    <3>2. last.sample_count = received' /\ Stamped(last)
      <4>1. CASE n = 0
        BY <2>1, <4>1 DEF HeldInv
      <4>2. CASE n # 0
        <5>1. stored.fault = "none"
          BY <3>1, <4>2
        <5>2. snap.data_size # 0
          BY <1>0, <5>1 DEF append_data, Members
        <5>3. stored.sample_count = received' /\ Stamped(stored)
          BY <2>1, <4>2, <5>2, PacketHeld
        <5>4. last = summed
          BY <4>2, <5>1
        <5> HIDE DEF stored, summed, last
        <5> QED
          BY <2>5, <5>3, <5>4 DEF Stamped
      <4> QED
        BY <4>1, <4>2
    <3> HIDE DEF last
    <3> QED
      BY <2>1, <3>1, <3>2 DEF Stamped
  <2> HIDE DEF last
  <2> QED
    BY <2>1, <2>2, <2>7, <2>8 DEF HeldInv
<1>10. CASE UNCHANGED vars
  BY <1>10 DEF vars, HeldInv, Stamped, Alive
<1> QED
  BY <1>1, <1>2, <1>3, <1>4, <1>5, <1>6, <1>7, <1>8, <1>9, <1>10 DEF Next

(* Two values are two. *)
LEMMA TwoValues ==
    ASSUME NEW x, NEW y, x # y
    PROVE  Cardinality({x} \cup {y}) = 2
<1>1. IsFiniteSet({x}) /\ Cardinality({x}) = 1 /\ y \notin {x}
  BY FS_Singleton
<1> HIDE DEF Cardinality
<1>2. Cardinality({x} \cup {y}) = Cardinality({x}) + 1
  <2> DEFINE S == {x}
  <2>1. IsFiniteSet(S) /\ y \notin S
    BY <1>1
  <2> HIDE DEF S
  <2>2. Cardinality(S \cup {y}) = Cardinality(S) + 1
    BY <2>1, FS_AddElement
  <2> QED
    BY <2>2 DEF S
<1> QED
  BY <1>1, <1>2

(* Where the probes of E, of c channels in all, find a sample. *)
SampleBytes(start, c, E) == {start * c + (IF c # 1 THEN index ELSE 0) : index \in E}

(* The two probes of an oscilloscope, or one of them: the bytes of a sample are
   as many as the probes enabled, and lie one behind the other. *)
LEMMA TwoProbes ==
    ASSUME ProbeCount <= 2, NEW E \in SUBSET Probes, E # {},
           NEW start \in Nat, NEW c \in Nat, c = Cardinality(E)
    PROVE  /\ Cardinality(SampleBytes(start, c, E)) = c
           /\ SampleBytes(start, c, E) \subseteq (start * c)..(start * c + c - 1)
<1> DEFINE bytes == SampleBytes(start, c, E)
<1> HIDE DEF bytes
<1>1. \A x \in E : x = 0 \/ x = 1
  BY SnapshotAssumption DEF Probes
<1>2. CASE \E x : E = {x}
  <2>1. PICK x : E = {x}
    BY <1>2
  <2>2. c = 1
    BY <2>1, FS_Singleton
  <2>3. bytes = {start}
    BY <2>1, <2>2 DEF bytes, SampleBytes
  <2>4. Cardinality(bytes) = 1
    BY <2>3, FS_Singleton
  <2>5. bytes \subseteq start..start
    BY <2>3
  <2>6. start * c = start /\ start * c + c - 1 = start
    BY <2>2
  <2> QED
    BY <2>2, <2>4, <2>5, <2>6 DEF bytes
<1>3. CASE ~ \E x : E = {x}
  <2>1. 0 \in E /\ 1 \in E
    <3>1. PICK x : x \in E
      OBVIOUS
    <3>2. PICK y \in E : y # x
      BY <1>3, <3>1
    <3> QED
      BY <1>1, <3>1, <3>2
  <2>2. E = {0} \cup {1}
    BY <1>1, <2>1
  <2>3. c = 2
    <3> DEFINE one == 1
    <3>1. 0 # one
      OBVIOUS
    <3> HIDE DEF one
    <3>2. Cardinality({0} \cup {one}) = 2
      BY <3>1, TwoValues
    <3> QED
      BY <2>2, <3>2 DEF one
  <2>4. bytes = {start * c} \cup {start * c + 1}
    BY <2>2, <2>3 DEF bytes, SampleBytes
  <2> DEFINE a == start * c
  <2>5. a \in Nat /\ a # a + 1 /\ bytes = {a} \cup {a + 1}
    BY <2>3, <2>4
  <2> HIDE DEF a
  <2>6. Cardinality(bytes) = 2
    BY <2>5, TwoValues
  <2>7. bytes \subseteq a..(a + c - 1)
    BY <2>3, <2>5
  <2> QED
    BY <2>3, <2>6, <2>7 DEF a, bytes
<1> QED
  BY <1>2, <1>3

(* Between packets the snapshot is the running capture and nothing else, with
   the two probes that an oscilloscope has: the samples counted are those
   received, all of this capture, and no two enabled probes share a byte. *)
THEOREM SnapshotHoldsCapture ==
    ASSUME ProbeCount <= 2
    PROVE  Spec => []SnapshotIsCapture
<1>1. Spec => []HeldInv
  BY HeldInit, HeldNext, SnapshotInvariant, PTL DEF Spec
<1>2. ASSUME SampleInv, HeldInv PROVE SnapshotIsCapture
  <2> SUFFICES ASSUME Alive, capturing, feeder = Idle
               PROVE  /\ snap.sample_count = received
                      /\ \A start \in 0..(snap.sample_count - 1) :
                           LET bytes == {get_samples(snap, start, probe) :
                                           probe \in {p \in Probes : has_data(snap, p)}}
                           IN  /\ Cardinality(bytes) = Cardinality(snap.ch_enable)
                               /\ \A p \in bytes : Byte(snap, p)[1] > base
    BY DEF SnapshotIsCapture
  <2>1. snap.sample_count = received /\ Stamped(snap) /\ snap.sample_count \in Nat
    BY <1>2 DEF HeldInv, SampleInv, MembersInv
  <2> SUFFICES ASSUME NEW start \in 0..(snap.sample_count - 1)
               PROVE  LET bytes == {get_samples(snap, start, probe) :
                                      probe \in {p \in Probes : has_data(snap, p)}}
                      IN  /\ Cardinality(bytes) = Cardinality(snap.ch_enable)
                          /\ \A p \in bytes : Byte(snap, p)[1] > base
    BY <2>1
  <2> DEFINE E == snap.ch_enable
             c == snap.channel_num
             n == snap.sample_count
  <2>2. n # 0 /\ start \in Nat /\ start + 1 <= n
    BY <2>1
  <2>3. ~snap.last_ended /\ feeder.at = "idle"
    BY <1>2, <2>2 DEF SampleInv, CaptureInv, Idle
  <2>4. E = config.ch_enable /\ c = Cardinality(E) /\ c \in Nat \ {0} /\ config \in Configs
    BY <1>2, <2>3 DEF SampleInv, CaptureInv, HeldInv, MembersInv, FeederInv
  <2>5. E \in SUBSET Probes /\ E # {}
    BY <2>4 DEF Configs
  <2>6. {get_samples(snap, start, probe) : probe \in {p \in Probes : has_data(snap, p)}}
           = SampleBytes(start, c, E)
    BY <2>5 DEF SampleBytes, get_samples, has_data
  <2> HIDE DEF E, c, n
  <2> DEFINE bytes == SampleBytes(start, c, E)
  <2>7. Cardinality(bytes) = c /\ bytes \subseteq (start * c)..(start * c + c - 1)
    BY <2>2, <2>4, <2>5, TwoProbes
  <2>8. start * c + c <= n * c /\ start * c \in Nat /\ n * c \in Nat
    <3>1. start * c + 1 * c <= n * c /\ start * c \in Nat /\ n * c \in Nat /\ 1 * c = c
      BY <2>1, <2>2, <2>4, InterleavedFit DEF n
    <3> QED
      BY <3>1
  <2> HIDE DEF bytes
  <2>9. bytes \subseteq 0..(n * c - 1)
    <3> DEFINE a == start * c
               b == n * c
    <3>1. a \in Nat /\ b \in Nat /\ a + c <= b /\ bytes \subseteq a..(a + c - 1)
      BY <2>7, <2>8
    <3> HIDE DEF a, b
    <3>2. bytes \subseteq 0..(b - 1)
      BY <2>4, <3>1
    <3> QED
      BY <3>2 DEF b
  <2>10. \A p \in bytes : Byte(snap, p)[1] > base
    BY <2>1, <2>9 DEF Stamped, Byte, n, c
  <2> QED
    BY <2>4, <2>6, <2>7, <2>10 DEF bytes, E
<1> QED
  BY <1>1, <1>2, SnapshotInvariant, PTL

----------------------------------------------------------------------------
(* What cal_vmean() has after k blocks of a snapshot of n samples: the mean m,
   scaled by power, the n to the k-th; the sum of the blocks; and carried, what
   the mean is too large, scaled by n once more. *)
Carries(n, top, k, power, m, sum, carried) ==
    /\ n * m = sum * power + carried
    /\ n * n * m <= power * top * (k * n + k * k)
    /\ 6 * (n * n) * carried <= power * top * (3 * (k * k) * n + 2 * (k * k * k))

(* Another block, with at most the largest sum, keeps the bounds. *)
LEMMA CarriesOn ==
    ASSUME NEW n \in Nat, NEW top \in Nat, NEW k \in Nat, k <= n, NEW power \in Nat,
           NEW m \in Nat, NEW sum \in Nat, NEW carried \in Nat, NEW s \in Nat, s <= top,
           Carries(n, top, k, power, m, sum, carried)
    PROVE  Carries(n, top, k + 1, n * power, m * n + (m + s * power), sum + s,
                   n * carried + n * m)
<1> DEFINE q == power * top
           a == k * n + k * k
           b == (k + 1) * n + (k + 1) * (k + 1)
           c == 3 * (k * k) * n + 2 * (k * k * k)
           d == 3 * ((k + 1) * (k + 1)) * n + 2 * ((k + 1) * (k + 1) * (k + 1))
<1>1. q \in Nat /\ a \in Nat /\ b \in Nat /\ c \in Nat /\ d \in Nat /\ n * n \in Nat
      /\ s * power \in Nat
  BY Product
<1>2. n * m = sum * power + carried /\ n * n * m <= q * a /\ 6 * (n * n) * carried <= q * c
  BY DEF Carries
<1>3. n * (m * n + (m + s * power)) = (sum + s) * (n * power) + (n * carried + n * m)
  BY <1>2
<1>4. (n + 1) * a + n * n <= n * b
  <2>1. k * k <= k * n /\ k * k \in Nat /\ k * n \in Nat
    BY ScaledUp
  <2>2. n * b = (n + 1) * a + n * n + (2 * (k * n) + n - k * n - k * k)
    OBVIOUS
  <2> QED
    BY <1>1, <2>1, <2>2
<1>5. n * n * (m * n + (m + s * power)) <= n * power * top * b
  <2>1. (n + 1) * (n * n * m) <= (n + 1) * (q * a)
    BY <1>1, <1>2, Product, ScaledUp
  <2>2. s * power <= q
    BY ScaledUp
  <2>3. n * n * (s * power) <= n * n * q
    BY <1>1, <2>2, ScaledUp
  <2>4. q * ((n + 1) * a + n * n) <= q * (n * b)
    BY <1>1, <1>4, Product, ScaledUp
  <2>5. n * n * (m * n + (m + s * power)) = (n + 1) * (n * n * m) + n * n * (s * power)
    OBVIOUS
  <2>6. (n + 1) * (q * a) + n * n * q = q * ((n + 1) * a + n * n)
    BY <1>1
  <2>7. n * power * top * b = q * (n * b)
    BY <1>1
  <2> QED
    BY <1>1, <2>1, <2>3, <2>4, <2>5, <2>6, <2>7
<1>6. c + 6 * a <= d
  <2>1. d = c + 6 * a + (3 * n + 6 * k + 2)
    OBVIOUS
  <2> QED
    BY <1>1, <2>1
<1>7. 6 * (n * n) * (n * carried + n * m) <= n * power * top * d
  <2>1. n * (6 * (n * n) * carried) <= n * (q * c)
    BY <1>1, <1>2, Product, ScaledUp
  <2>2. (6 * n) * (n * n * m) <= (6 * n) * (q * a)
    BY <1>1, <1>2, Product, ScaledUp
  <2>3. (n * q) * (c + 6 * a) <= (n * q) * d
    BY <1>1, <1>6, Product, ScaledUp
  <2>4. 6 * (n * n) * (n * carried + n * m)
          = n * (6 * (n * n) * carried) + (6 * n) * (n * n * m)
    OBVIOUS
  <2>5. n * (q * c) + (6 * n) * (q * a) = (n * q) * (c + 6 * a)
    BY <1>1
  <2>6. n * power * top * d = (n * q) * d
    BY <1>1
  <2> QED
    BY <1>1, <2>1, <2>2, <2>3, <2>4, <2>5, <2>6
<1> QED
  BY <1>3, <1>5, <1>7 DEF Carries

(* With blocks of f samples and bytes below f, the bound is below half. *)
LEMMA BelowHalf ==
    ASSUME NEW n \in Nat \ {0}, NEW f \in Nat \ {0}, NEW b \in Nat, b * f <= n
    PROVE  f * (f - 1) * (3 * (b * b) * n + 2 * (b * b * b)) < 3 * (n * n * n)
<1> DEFINE w == b * f
           g == f - 1
           c == 3 * (b * b) * n + 2 * (b * b * b)
<1>1. w \in Nat /\ g \in Nat /\ c \in Nat /\ w <= n /\ w * w \in Nat /\ n * n \in Nat
  BY Product
<1>2. w * w <= n * n
  BY <1>1
<1>3. (f * f) * c = 3 * ((w * w) * n) + 2 * ((w * w) * b)
  OBVIOUS
<1>4. (w * w) * n <= n * n * n /\ (w * w) * b <= (n * n) * b
  BY <1>1, <1>2, ScaledUp
<1>5. (f * f) * c <= 3 * (n * n * n) + 2 * ((n * n) * b)
  BY <1>1, <1>3, <1>4, Product
<1>6. g * b <= n
  BY <1>1
<1>7. (n * n) * (g * b) <= n * n * n
  BY <1>1, <1>6, Product, ScaledUp
<1>8. g * ((f * f) * c) <= g * (3 * (n * n * n) + 2 * ((n * n) * b))
  BY <1>1, <1>5, Product, ScaledUp
<1>9. g * (3 * (n * n * n) + 2 * ((n * n) * b)) = 3 * (g * (n * n * n)) + 2 * ((n * n) * (g * b))
  BY <1>1
<1>10. f * (3 * (n * n * n)) = 3 * (g * (n * n * n)) + 3 * (n * n * n)
  OBVIOUS
<1>11. n * n * n \in Nat \ {0}
  BY ProductPositive
<1>12. g * ((f * f) * c) < f * (3 * (n * n * n))
  BY <1>1, <1>7, <1>8, <1>9, <1>10, <1>11, Product
<1>13. g * ((f * f) * c) = f * (f * (f - 1) * c)
  OBVIOUS
<1> DEFINE x == f * (f - 1) * c
           y == 3 * (n * n * n)
<1>14. x \in Nat /\ y \in Nat
  BY <1>1, <1>11, Product
<1>15. x * f < y * f
  BY <1>12, <1>13
<1> HIDE DEF x, y
<1>16. x < y
  BY <1>14, <1>15, CancelFactor
<1> QED
  BY <1>16 DEF x, y

(* The powers of n. *)
LEMMA PowersValues ==
    ASSUME NEW n \in Nat \ {0}, NEW b \in Nat
    PROVE  /\ DOMAIN Powers(n, b) = 0..b
           /\ \A k \in 0..b : /\ Powers(n, b)[k] \in Nat \ {0}
                              /\ Powers(n, b)[k] = IF k = 0 THEN 1 ELSE n * Powers(n, b)[k - 1]
<1> DEFINE V == Nat \ {0}
           next == [k \in Nat |-> [v \in V |-> n * v]]
           power == Powers(n, b)
           Is(f) == f = [k \in 0..b |-> IF k = 0 THEN 1 ELSE n * f[k - 1]]
<1>1. /\ 1 \in V /\ next \in [Nat -> [V -> V]]
      /\ \A k \in Nat : \A v \in V : next[k][v] = n * v
  BY ProductPositive
<1> HIDE DEF V, next
<1>2. PICK g \in [0..b -> V] : Solves(g, b, 1, next)
  BY <1>1, RecursionSolved
<1>3. ASSUME NEW k \in 0..b PROVE g[k] = IF k = 0 THEN 1 ELSE n * g[k - 1]
  <2>1. k # 0 => k - 1 \in 0..b /\ k \in Nat
    OBVIOUS
  <2>2. k # 0 => g[k - 1] \in V
    BY <1>2, <2>1
  <2>3. g[k] = IF k = 0 THEN 1 ELSE next[k][g[k - 1]]
    BY <1>2 DEF Solves
  <2> QED
    BY <1>1, <2>1, <2>2, <2>3
<1>4. Is(g)
  BY <1>2, <1>3
<1>5. power = CHOOSE f : Is(f)
  BY DEF Powers
<1> HIDE DEF Is, power
<1>6. Is(power)
  BY <1>4, <1>5
<1>7. /\ DOMAIN power = 0..b
      /\ \A k \in 0..b : power[k] = IF k = 0 THEN 1 ELSE n * power[k - 1]
  BY <1>6 DEF Is
<1> DEFINE S == {k \in 0..b : power[k] \in V}
<1>8. 0 \in S
  BY <1>1, <1>7
<1>9. ASSUME NEW k \in 1..b, k - 1 \in S PROVE k \in S
  <2>1. k \in 0..b /\ k # 0 /\ power[k - 1] \in V
    BY <1>9
  <2> QED
    BY <1>7, <2>1, ProductPositive DEF V
<1> HIDE DEF S
<1>10. 0..b \subseteq S
  BY <1>8, <1>9, InductionUpTo
<1>11. \A k \in 0..b : power[k] \in Nat \ {0}
  BY <1>10 DEF S, V
<1> QED
  BY <1>7, <1>11 DEF power

(* The sums of the first blocks. *)
BlockSums(b, sums) ==
    LET sum[k \in 0..b] == IF k = 0 THEN 0 ELSE sum[k - 1] + sums[k]
    IN  sum

(* Each is the one before and its block. *)
LEMMA BlockSumsValues ==
    ASSUME NEW b \in Nat, NEW sums \in [1..b -> Nat]
    PROVE  \A k \in 0..b :
              /\ BlockSums(b, sums)[k] \in Nat
              /\ BlockSums(b, sums)[k] = IF k = 0 THEN 0
                                         ELSE BlockSums(b, sums)[k - 1] + sums[k]
<1> DEFINE at == [k \in Nat |-> IF k \in 1..b THEN sums[k] ELSE 0]
           next == [k \in Nat |-> [v \in Nat |-> v + at[k]]]
           sum == BlockSums(b, sums)
           Is(f) == f = [k \in 0..b |-> IF k = 0 THEN 0 ELSE f[k - 1] + sums[k]]
<1>1. at \in [Nat -> Nat] /\ \A k \in 1..b : at[k] = sums[k]
  OBVIOUS
<1> HIDE DEF at
<1>2. /\ next \in [Nat -> [Nat -> Nat]]
      /\ \A k \in Nat : \A v \in Nat : next[k][v] = v + at[k]
  BY <1>1
<1> HIDE DEF next
<1>3. PICK g \in [0..b -> Nat] : Solves(g, b, 0, next)
  BY <1>2, RecursionSolved
<1>4. ASSUME NEW k \in 0..b PROVE g[k] = IF k = 0 THEN 0 ELSE g[k - 1] + sums[k]
  <2>1. k # 0 => k - 1 \in 0..b /\ k \in Nat /\ k \in 1..b
    OBVIOUS
  <2>2. k # 0 => g[k - 1] \in Nat
    BY <1>3, <2>1
  <2>3. g[k] = IF k = 0 THEN 0 ELSE next[k][g[k - 1]]
    BY <1>3 DEF Solves
  <2> QED
    BY <1>1, <1>2, <2>1, <2>2, <2>3
<1>5. Is(g)
  BY <1>3, <1>4
<1>6. sum = CHOOSE f : Is(f)
  BY DEF BlockSums
<1> HIDE DEF Is, sum
<1>7. Is(sum)
  BY <1>5, <1>6
<1>8. \A k \in 0..b : sum[k] = IF k = 0 THEN 0 ELSE sum[k - 1] + sums[k]
  BY <1>7 DEF Is
<1> DEFINE S == {k \in 0..b : sum[k] \in Nat}
<1>9. 0 \in S
  BY <1>8
<1>10. ASSUME NEW k \in 1..b, k - 1 \in S PROVE k \in S
  <2>1. k \in 0..b /\ k # 0 /\ sum[k - 1] \in Nat
    BY <1>10
  <2>2. sums[k] \in Nat
    OBVIOUS
  <2>3. \A v, w \in Nat : v + w \in Nat
    OBVIOUS
  <2>4. sum[k - 1] + sums[k] \in Nat
    BY <2>1, <2>2, <2>3, Zenon
  <2> QED
    BY <1>8, <2>1, <2>4
<1> HIDE DEF S
<1>11. 0..b \subseteq S
  BY <1>9, <1>10, InductionUpTo
<1>12. \A k \in 0..b : sum[k] \in Nat
  BY <1>11 DEF S
<1> QED
  BY <1>8, <1>12 DEF sum

(* What cal_vmean() has after each of the blocks. *)
BlockMeans(n, b, sums) ==
    LET mean[k \in 0..b] ==
          IF k = 0 THEN 0 ELSE mean[k - 1] * n + (mean[k - 1] + sums[k] * Powers(n, b)[k - 1])
    IN  mean

(* Each comes from the one before, which is not reset. *)
LEMMA BlockMeansValues ==
    ASSUME NEW n \in Nat \ {0}, NEW b \in Nat, NEW sums \in [1..b -> Nat]
    PROVE  \A k \in 0..b :
              /\ BlockMeans(n, b, sums)[k] \in Nat
              /\ BlockMeans(n, b, sums)[k] =
                   IF k = 0 THEN 0
                   ELSE BlockMeans(n, b, sums)[k - 1] * n
                          + (BlockMeans(n, b, sums)[k - 1] + sums[k] * Powers(n, b)[k - 1])
<1> DEFINE power == Powers(n, b)
           at == [k \in Nat |-> IF k \in 1..b THEN sums[k] * power[k - 1] ELSE 0]
           next == [k \in Nat |-> [v \in Nat |-> v * n + (v + at[k])]]
           mean == BlockMeans(n, b, sums)
           Is(f) == f = [k \in 0..b |-> IF k = 0 THEN 0
                                        ELSE f[k - 1] * n + (f[k - 1] + sums[k] * power[k - 1])]
<1>1. \A k \in 1..b : sums[k] * power[k - 1] \in Nat
  <2> SUFFICES ASSUME NEW k \in 1..b PROVE sums[k] * power[k - 1] \in Nat
    OBVIOUS
  <2>1. k - 1 \in 0..b /\ sums[k] \in Nat
    OBVIOUS
  <2>2. power[k - 1] \in Nat
    BY <2>1, PowersValues
  <2> QED
    BY <2>1, <2>2, Product
<1> HIDE DEF power
<1>2. at \in [Nat -> Nat] /\ \A k \in 1..b : at[k] = sums[k] * power[k - 1]
  BY <1>1
<1> HIDE DEF at
<1>3. /\ next \in [Nat -> [Nat -> Nat]]
      /\ \A k \in Nat : \A v \in Nat : next[k][v] = v * n + (v + at[k])
  <2>1. \A v, w \in Nat : v * n + (v + w) \in Nat
    BY Product
  <2>2. \A k \in Nat : \A v \in Nat : v * n + (v + at[k]) \in Nat
    BY <1>2, <2>1, Zenon
  <2> QED
    BY <2>2
<1> HIDE DEF next
<1>4. PICK g \in [0..b -> Nat] : Solves(g, b, 0, next)
  BY <1>3, RecursionSolved
<1>5. ASSUME NEW k \in 0..b
      PROVE  g[k] = IF k = 0 THEN 0
                    ELSE g[k - 1] * n + (g[k - 1] + sums[k] * power[k - 1])
  <2>1. k # 0 => k - 1 \in 0..b /\ k \in Nat /\ k \in 1..b
    OBVIOUS
  <2>2. k # 0 => g[k - 1] \in Nat
    BY <1>4, <2>1
  <2>3. g[k] = IF k = 0 THEN 0 ELSE next[k][g[k - 1]]
    BY <1>4 DEF Solves
  <2>4. k # 0 => next[k][g[k - 1]] = g[k - 1] * n + (g[k - 1] + sums[k] * power[k - 1])
    BY <1>2, <1>3, <2>1, <2>2
  <2> QED
    BY <2>3, <2>4
<1>6. Is(g)
  BY <1>4, <1>5
<1>7. mean = CHOOSE f : Is(f)
  BY DEF BlockMeans, power
<1> HIDE DEF Is, mean
<1>8. Is(mean)
  BY <1>6, <1>7
<1>9. \A k \in 0..b : mean[k] = IF k = 0 THEN 0
                                ELSE mean[k - 1] * n + (mean[k - 1] + sums[k] * power[k - 1])
  BY <1>8 DEF Is
<1> DEFINE S == {k \in 0..b : mean[k] \in Nat}
<1>10. 0 \in S
  BY <1>9
<1>11. ASSUME NEW k \in 1..b, k - 1 \in S PROVE k \in S
  <2>1. k \in 0..b /\ k # 0 /\ mean[k - 1] \in Nat /\ sums[k] * power[k - 1] \in Nat
    BY <1>1, <1>11
  <2>2. mean[k - 1] * n \in Nat
    BY <2>1, Product
  <2>3. \A u, v, w \in Nat : u + (v + w) \in Nat
    OBVIOUS
  <2>4. mean[k - 1] * n + (mean[k - 1] + sums[k] * power[k - 1]) \in Nat
    BY <2>1, <2>2, <2>3, Zenon
  <2> QED
    BY <1>9, <2>1, <2>4
<1> HIDE DEF S
<1>12. 0..b \subseteq S
  BY <1>10, <1>11, InductionUpTo
<1>13. \A k \in 0..b : mean[k] \in Nat
  BY <1>12 DEF S
<1> QED
  BY <1>9, <1>13 DEF mean, power

(* The bounds hold after every block. *)
LEMMA CarriedBounded ==
    ASSUME NEW n \in Nat \ {0}, NEW b \in Nat, b <= n, NEW top \in Nat,
           NEW sums \in [1..b -> 0..top]
    PROVE  \E carried \in Nat :
              Carries(n, top, b, Powers(n, b)[b], BlockMeans(n, b, sums)[b],
                      BlockSums(b, sums)[b], carried)
<1> DEFINE power == Powers(n, b)
           mean == BlockMeans(n, b, sums)
           sum == BlockSums(b, sums)
           S == {k \in 0..b : \E carried \in Nat :
                    Carries(n, top, k, power[k], mean[k], sum[k], carried)}
<1>1. sums \in [1..b -> Nat] /\ \A k \in 1..b : sums[k] \in Nat /\ sums[k] <= top
  OBVIOUS
<1>2. \A k \in 0..b : power[k] \in Nat /\ power[k] = IF k = 0 THEN 1 ELSE n * power[k - 1]
  BY PowersValues
<1>3. \A k \in 0..b : sum[k] \in Nat /\ sum[k] = IF k = 0 THEN 0 ELSE sum[k - 1] + sums[k]
  BY <1>1, BlockSumsValues
<1>4. \A k \in 0..b :
         /\ mean[k] \in Nat
         /\ mean[k] = IF k = 0 THEN 0
                      ELSE mean[k - 1] * n + (mean[k - 1] + sums[k] * power[k - 1])
  BY <1>1, BlockMeansValues
<1> HIDE DEF power, mean, sum
<1>5. 0 \in S
  <2>1. power[0] = 1 /\ mean[0] = 0 /\ sum[0] = 0
    BY <1>2, <1>3, <1>4
  <2>2. Carries(n, top, 0, 1, 0, 0, 0)
    BY DEF Carries
  <2> QED
    BY <2>1, <2>2
<1>6. ASSUME NEW k \in 1..b, k - 1 \in S PROVE k \in S
  <2> DEFINE j == k - 1
  <2>1. j \in Nat /\ j \in 0..b /\ j <= n /\ j + 1 = k /\ k \in 0..b /\ k # 0
    OBVIOUS
  <2>2. PICK carried \in Nat : Carries(n, top, j, power[j], mean[j], sum[j], carried)
    BY <1>6
  <2>3. /\ power[k] = n * power[j] /\ sum[k] = sum[j] + sums[k]
        /\ mean[k] = mean[j] * n + (mean[j] + sums[k] * power[j])
    BY <1>2, <1>3, <1>4, <2>1
  <2> HIDE DEF j
  <2>4. power[j] \in Nat /\ mean[j] \in Nat /\ sum[j] \in Nat /\ sums[k] \in Nat
        /\ sums[k] <= top
    BY <1>1, <1>2, <1>3, <1>4, <2>1
  <2>5. Carries(n, top, j + 1, n * power[j], mean[j] * n + (mean[j] + sums[k] * power[j]),
                sum[j] + sums[k], n * carried + n * mean[j])
    BY <2>1, <2>2, <2>4, CarriesOn
  <2>6. n * carried + n * mean[j] \in Nat
    BY <2>4, Product
  <2> QED
    BY <2>1, <2>3, <2>5, <2>6
<1> HIDE DEF S
<1>7. 0..b \subseteq S
  BY <1>5, <1>6, InductionUpTo
<1>8. b \in S
  BY <1>7
<1> QED
  BY <1>8 DEF S, power, mean, sum

(* So the mean is not below the exact one, and less than half a step above. *)
LEMMA MeanClose ==
    ASSUME NEW n \in Nat \ {0}, NEW f \in Nat \ {0}, NEW b \in Nat, b * f <= n,
           NEW q \in Nat \ {0}, NEW m \in Nat, NEW sum \in Nat, NEW carried \in Nat,
           Carries(n, f * (f - 1), b, n * q, m, sum, carried)
    PROVE  2 * m \in (2 * (sum * q))..(2 * (sum * q) + n * q - 1)
<1> DEFINE top == f * (f - 1)
           e == sum * q
           p == n * q
           c == 3 * (b * b) * n + 2 * (b * b * b)
<1>1. e \in Nat /\ p \in Nat \ {0} /\ top \in Nat /\ c \in Nat
  BY Product, ProductPositive
<1>2. n * m = sum * p + carried /\ 6 * (n * n) * carried <= p * top * c
  BY DEF Carries
<1>3. sum * p = n * e
  OBVIOUS
<1>4. top * c < 3 * (n * n * n)
  BY BelowHalf
<1> HIDE DEF e, p, top, c
<1>5. e <= m
  <2>1. m < e => m * n + n <= e * n
    BY <1>1, CancelFactor
  <2>2. m * n = n * m /\ e * n = n * e /\ n * m \in Nat /\ n * e \in Nat
    BY <1>1
  <2> QED
    BY <1>1, <1>2, <1>3, <2>1, <2>2
<1> DEFINE d == m - e
<1>6. d \in Nat /\ m = e + d
  BY <1>1, <1>5
<1> HIDE DEF d
<1>7. carried = n * d
  <2>1. n * (e + d) = n * e + n * d /\ n * e \in Nat /\ n * d \in Nat
    BY <1>1, <1>6
  <2> QED
    BY <1>2, <1>3, <1>6, <2>1
<1> DEFINE x == n * n * n
<1>8. x \in Nat \ {0} /\ top * c \in Nat
  BY <1>1, Product, ProductPositive
<1>9. 3 * x * (2 * d) <= p * (top * c)
  <2>1. 6 * (n * n) * (n * d) = 3 * x * (2 * d)
    BY <1>6
  <2>2. p * top * c = p * (top * c)
    BY <1>1
  <2> QED
    BY <1>2, <1>7, <2>1, <2>2
<1> DEFINE y == top * c
<1> HIDE DEF x, y
<1>10. p * y < p * (3 * x)
  <2>1. y \in Nat /\ 3 * x \in Nat /\ y < 3 * x
    BY <1>4, <1>8 DEF x, y
  <2> DEFINE z == 3 * x
  <2> HIDE DEF z
  <2>2. y * p + p <= z * p
    BY <1>1, <2>1, CancelFactor DEF z
  <2>3. z \in Nat
    BY <2>1 DEF z
  <2>4. y * p = p * y /\ z * p = p * z /\ p * y \in Nat /\ p * z \in Nat
    BY <1>1, <2>1, <2>3, Product
  <2>5. p * y < p * z
    BY <1>1, <2>2, <2>4
  <2> QED
    BY <2>5 DEF z
<1>11. 2 * d < p
  <2> DEFINE z == 3 * x
             w == 2 * d
  <2>1. z \in Nat \ {0} /\ w \in Nat
    BY <1>6, <1>8
  <2>2. z * w < p * z
    <3>1. z * w \in Nat /\ p * z \in Nat /\ p * y \in Nat
      BY <1>1, <1>8, <2>1, Product DEF y
    <3>2. z * w <= p * y /\ p * y < p * z
      BY <1>9, <1>10 DEF y
    <3> HIDE DEF z, w
    <3> QED
      BY <3>1, <3>2
  <2> HIDE DEF z, w
  <2>3. w * z < p * z
    BY <1>1, <2>1, <2>2
  <2>4. w < p
    BY <1>1, <2>1, <2>3, CancelFactor
  <2> QED
    BY <2>4 DEF w
<1>12. 2 * m = 2 * e + 2 * d
  BY <1>1, <1>6
<1>13. 2 * m \in (2 * e)..(2 * e + p - 1)
  BY <1>1, <1>6, <1>11, <1>12
<1> QED
  BY <1>13 DEF e, p

(* cal_vmean() and the sum of the blocks are what the recursions come to. *)
LEMMA MeanOfBlocks ==
    ASSUME NEW n, NEW b \in Nat, NEW sums, DOMAIN sums = 1..b
    PROVE  cal_vmean(n, sums) = BlockMeans(n, b, sums)[b]
<1>1. Cardinality(1..b) = b
  <2>1. 1 \in Int /\ b \in Int
    OBVIOUS
  <2>2. Cardinality(1..b) = IF 1 > b THEN 0 ELSE b - 1 + 1
    BY <2>1, FS_Interval
  <2> QED
    BY <2>2
<1>2. Cardinality(DOMAIN sums) = b
  BY <1>1
<1> QED
  BY <1>2 DEF cal_vmean, BlockMeans

(* Whatever the bytes of a full snapshot, the mean that cal_vmean() gets is not
   below theirs and less than half a step of the converter above, although
   every block adds to it what the ones before have left in vmean. Limits are
   at least a block. *)
THEOREM SnapshotMeanClose ==
    ASSUME \A limit \in Limits : EnvelopeScaleFactor <= limit
    PROVE  Spec => []MeanWithinHalfStep
<1>1. MeanWithinHalfStep
  <2> DEFINE n == snap.sample_count
             f == EnvelopeScaleFactor
             b == n \div f
  <2> SUFFICES ASSUME n \in Limits,
                      NEW sums \in [1..b -> 0..(f * (f - 1))]
               PROVE  2 * cal_vmean(n, sums)
                        \in (2 * (BlockSums(b, sums)[b] * Powers(n, b)[b - 1]))
                              ..(2 * (BlockSums(b, sums)[b] * Powers(n, b)[b - 1])
                                   + Powers(n, b)[b] - 1)
    BY DEF MeanWithinHalfStep, BlockSums
  <2>1. n \in Nat \ {0} /\ f \in Nat \ {0} /\ f <= n
    BY SnapshotAssumption
  <2> DEFINE r == n % f
  <2>2. b \in Nat /\ r \in Nat /\ r < f /\ n = b * f + r
    BY <2>1, DivMod
  <2> HIDE DEF n, f, b, r
  <2>3. b # 0 /\ b * f <= n /\ b <= n /\ b * f \in Nat
    <3>1. b * f \in Nat /\ (b = 0 => b * f = 0)
      BY <2>1, <2>2
    <3>2. b # 0 /\ b * f <= n
      BY <2>1, <2>2, <3>1
    <3>3. b * 1 <= b * f
      BY <2>1, <2>2, ScaledUp
    <3> QED
      BY <2>1, <2>2, <3>1, <3>2, <3>3
  <2> DEFINE top == f * (f - 1)
             q == Powers(n, b)[b - 1]
             m == BlockMeans(n, b, sums)[b]
             sum == BlockSums(b, sums)[b]
  <2>4. top \in Nat
    <3>1. f - 1 \in Nat
      BY <2>1
    <3> QED
      BY <2>1, <3>1, Product
  <2>5. sums \in [1..b -> 0..top] /\ sums \in [1..b -> Nat] /\ DOMAIN sums = 1..b
    BY <2>4
  <2>6. b \in 0..b /\ b - 1 \in 0..b
    BY <2>2, <2>3
  <2>7. Powers(n, b)[b] = n * q /\ q \in Nat \ {0}
    BY <2>1, <2>2, <2>3, <2>6, PowersValues
  <2>8. m \in Nat /\ sum \in Nat
    BY <2>1, <2>2, <2>5, <2>6, BlockMeansValues, BlockSumsValues
  <2> HIDE DEF top, q, m, sum
  <2>9. PICK carried \in Nat : Carries(n, top, b, n * q, m, sum, carried)
    <3>1. \E carried \in Nat :
             Carries(n, top, b, Powers(n, b)[b], BlockMeans(n, b, sums)[b],
                     BlockSums(b, sums)[b], carried)
      BY <2>1, <2>2, <2>3, <2>4, <2>5, CarriedBounded
    <3> QED
      BY <2>7, <3>1 DEF m, sum
  <2>10. Carries(n, f * (f - 1), b, n * q, m, sum, carried)
    BY <2>9 DEF top
  <2>11. 2 * m \in (2 * (sum * q))..(2 * (sum * q) + n * q - 1)
    BY <2>1, <2>2, <2>3, <2>7, <2>8, <2>10, MeanClose
  <2>12. cal_vmean(n, sums) = m
    BY <2>2, <2>5, MeanOfBlocks DEF m
  <2> QED
    BY <2>7, <2>11, <2>12 DEF q, sum
<1> QED
  BY <1>1, PTL
=============================================================================
