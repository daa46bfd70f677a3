-------------------------- MODULE DsoMeasureProofs --------------------------
(***************************************************************************)
(* Proofs about DsoMeasure, for any number of probes, any block size and   *)
(* all limits that are whole blocks: whatever becomes of the samples in    *)
(* the meantime, a walk reads inside the buffer it began with.             *)
(***************************************************************************)
EXTENDS DsoMeasure, DsoSnapshotProofs

(* The buffer has room for the walk's count, at a limit that need no longer be
   the snapshot's. *)
RoomFor(n) ==
    \E limit \in Limits : n <= limit /\ snap.data_size = limit * snap.channel_num + Pad

(* While a walk is not a stray there is a buffer, which no one is replacing,
   and its count is one that this buffer has had. *)
WalkInv ==
    /\ walk \in [at : {"none", "begin", "blocks", "stray"}, count : Nat]
    /\ walk.at \in {"begin", "blocks"} => snap.data_size # 0
    /\ walk.at = "blocks" => walk.count # 0 /\ RoomFor(walk.count)

MeasureInv == SampleInv /\ WalkInv

----------------------------------------------------------------------------
(* The positions of the i-th channel in whole blocks that begin before the end
   of n samples are positions of m samples, if m is whole blocks too. *)
LEMMA BlocksWithin ==
    ASSUME NEW f \in Nat \ {0}, NEW c \in Nat \ {0}, NEW k \in Nat,
           NEW n \in Nat, n <= k * f,
           NEW b \in Nat, b * f * c < n * c,
           NEW j \in Nat, j <= (b + 1) * f - 1, NEW r \in Nat, r < c
    PROVE  r + j * c \in 0..(k * f * c - 1)
<1>1. b * f \in Nat /\ k * f \in Nat
  OBVIOUS
<1>2. b * f < n
  <2> DEFINE w == b * f
  <2>1. w \in Nat /\ w * c < n * c
    BY <1>1
  <2> HIDE DEF w
  <2>2. w < n
    BY <2>1
  <2> QED
    BY <2>2 DEF w
<1>3. b < k
  BY <1>1, <1>2
<1>4. (b + 1) * f <= k * f /\ (b + 1) * f \in Nat
  BY <1>3
<1>5. j + 1 <= k * f
  BY <1>1, <1>4
<1> DEFINE m == k * f
<1>6. m \in Nat /\ j + 1 <= m
  BY <1>1, <1>5
<1> HIDE DEF m
<1>7. (j + 1) * c <= m * c /\ (j + 1) * c = j * c + c /\ j * c \in Nat /\ m * c \in Nat
  BY <1>6
<1>8. r + j * c \in 0..(m * c - 1)
  BY <1>7
<1> QED
  BY <1>8 DEF m

----------------------------------------------------------------------------
(* The steps of the walk leave the snapshot as it is; the others are steps of
   the snapshot. *)
LEMMA MeasureSteps ==
    MeasureNext => \/ UNCHANGED vars /\ (MeasureBegin \/ MeasureCount \/ MeasureEnd)
                   \/ Next
BY DEF MeasureNext, MeasureBegin, MeasureCount, MeasureEnd, FirstPayloadUnder, Freeing,
       Keeping, Next

(* A count that is not zero, read while there is a buffer, fits into it. *)
LEMMA CountHasRoom ==
    ASSUME SampleInv, snap.sample_count # 0
    PROVE  RoomFor(snap.sample_count)
<1>1. feeder.at # "malloc" /\ snap.data_size # 0
  BY DEF SampleInv, BufferInv
<1> QED BY <1>1 DEF SampleInv, BufferInv, RoomFor

(* What a walk knows of its buffer stays true as long as neither the buffer's
   size nor the number of channels changes. *)
LEMMA RoomKept ==
    ASSUME WalkInv, UNCHANGED walk, snap'.data_size = snap.data_size,
           snap'.channel_num = snap.channel_num
    PROVE  WalkInv'
BY DEF WalkInv, RoomFor

(* Packets, captures and the envelope leave the buffer where it is. *)
LEMMA KeepingKeeps ==
    ASSUME SampleInv, Keeping
    PROVE  snap'.data_size = snap.data_size /\ snap'.channel_num = snap.channel_num
<1>m. MembersInv(snap) /\ snap.fault # "overrun"
  BY DEF SampleInv, SamplesFit
<1> USE <1>m DEF MembersInv, Members
<1>1. ASSUME NEW c \in Configs, StartCapture(c)
      PROVE  snap'.data_size = snap.data_size /\ snap'.channel_num = snap.channel_num
  BY <1>1 DEF StartCapture, init
<1>2. CASE EndCapture
  BY <1>2 DEF EndCapture
<1>3. ASSUME NEW enable \in BOOLEAN, EnableEnvelope(enable)
      PROVE  snap'.data_size = snap.data_size /\ snap'.channel_num = snap.channel_num
  BY <1>3 DEF EnableEnvelope, append_payload_to_envelope_levels
<1>4. ASSUME NEW n \in 0..config.limit, NEW toggled \in BOOLEAN, FeedDso(n, toggled)
      PROVE  snap'.data_size = snap.data_size /\ snap'.channel_num = snap.channel_num
  BY <1>4 DEF FeedDso
<1>5. CASE AllocateEnvelope
  BY <1>5 DEF AllocateEnvelope
<1>6. CASE AppendPayload
  BY <1>6 DEF AppendPayload, append_data, append_payload_to_envelope_levels
<1> QED BY <1>1, <1>2, <1>3, <1>4, <1>5, <1>6 DEF Keeping

(* Every step of a walk, and of the threads around it. *)
LEMMA WalkInductive == SampleInv /\ WalkInv /\ [MeasureNext]_measureVars => WalkInv'
<1> SUFFICES ASSUME SampleInv, WalkInv, [MeasureNext]_measureVars PROVE WalkInv'
  OBVIOUS
<1>c. snap.sample_count \in Nat
  BY DEF SampleInv, MembersInv
<1>k. ASSUME UNCHANGED <<snap, walk>> PROVE WalkInv'
  BY <1>k, RoomKept
<1>e. ASSUME walk' = NoWalk \/ walk' = StrayWalk PROVE WalkInv'
  BY <1>e DEF NoWalk, StrayWalk, WalkInv
<1>n. ASSUME walk' = Counted(snap.sample_count), UNCHANGED snap, snap.data_size # 0 PROVE WalkInv'
  <2>1. CASE snap.sample_count = 0
    BY <1>e, <1>n, <2>1 DEF Counted
  <2>2. CASE snap.sample_count # 0
    <3>1. walk' = [at |-> "blocks", count |-> snap.sample_count]
      BY <1>n, <2>2 DEF Counted
    <3>2. RoomFor(snap.sample_count) /\ snap' = snap
      BY <1>n, <2>2, CountHasRoom
    <3> QED BY <1>c, <1>n, <2>2, <3>1, <3>2 DEF WalkInv, RoomFor
  <2> QED BY <2>1, <2>2
<1>1. CASE MeasureBegin
  <2>1. UNCHANGED snap
    BY <1>1 DEF MeasureBegin, vars
  <2>2. CASE walk' = [at |-> "begin", count |-> 0] /\ snap.data_size # 0
    BY <2>1, <2>2 DEF WalkInv
  <2>3. \/ walk' = StrayWalk
        \/ walk' = [at |-> "begin", count |-> 0] /\ snap.data_size # 0
        \/ walk' = Counted(snap.sample_count) /\ snap.data_size # 0
    BY <1>1 DEF MeasureBegin
  <2> QED BY <1>e, <1>n, <2>1, <2>2, <2>3
<1>2. CASE MeasureCount
  BY <1>2, <1>n DEF MeasureCount, vars, WalkInv
<1>3. CASE MeasureEnd
  BY <1>3, <1>e DEF MeasureEnd
<1>4. CASE FirstPayloadUnder
  <2>1. snap'.data_size = snap.data_size
    BY <1>4 DEF FirstPayloadUnder, FirstPayload, SampleInv, MembersInv, Members
  <2> QED BY <1>4, <1>e, <2>1, RoomKept DEF FirstPayloadUnder, Stray
<1>5. CASE Freeing /\ Stray
  BY <1>5, <1>e DEF Stray
<1>6. CASE Keeping /\ UNCHANGED walk
  BY <1>6, KeepingKeeps, RoomKept
<1>7. CASE UNCHANGED measureVars
  BY <1>7, <1>k DEF measureVars
<1> QED BY <1>1, <1>2, <1>3, <1>4, <1>5, <1>6, <1>7 DEF MeasureNext

(* Snapshot and walk together. *)
LEMMA MeasureInvHolds == MeasureSpec => []MeasureInv
<1>1. MeasureInit => MeasureInv
  BY SampleInit DEF MeasureInit, MeasureInv, WalkInv, NoWalk
<1>2. MeasureInv /\ [MeasureNext]_measureVars => MeasureInv'
  <2> SUFFICES ASSUME MeasureInv, [MeasureNext]_measureVars PROVE MeasureInv'
    OBVIOUS
  <2>1. [Next]_vars
    BY MeasureSteps DEF measureVars, vars
  <2> QED BY <2>1, SampleNext, WalkInductive DEF MeasureInv
<1> QED BY <1>1, <1>2, PTL DEF MeasureSpec

(* With limits that are whole blocks, cal_vrms() and cal_vmean() read inside
   the buffer at every moment of the walk, though they hold no lock and their
   count may be one of an earlier packet or capture - as long as the buffer is
   not freed under them and the number of channels stays. *)
THEOREM MeasuresFit ==
    ASSUME \A limit \in Limits : \E k \in Nat : limit = k * EnvelopeScaleFactor
    PROVE  MeasureSpec => []MeasuresStayInBuffer
<1>1. ASSUME MeasureInv PROVE MeasuresStayInBuffer
  <2> SUFFICES ASSUME walk.at = "blocks" PROVE MeasuresStayInBuffer
    BY DEF MeasuresStayInBuffer
  <2>1. PICK m \in Limits : walk.count <= m /\ snap.data_size = m * snap.channel_num + Pad
    BY <1>1 DEF MeasureInv, WalkInv, RoomFor
  <2>2. PICK k \in Nat : m = k * EnvelopeScaleFactor
    BY <2>1
  <2> DEFINE n == walk.count
             c == snap.channel_num
             f == EnvelopeScaleFactor
  <2>3. n \in Nat /\ m \in Nat /\ c \in Nat \ {0} /\ f \in Nat \ {0} /\ Pad \in Nat
    BY <1>1, <2>1, SnapshotAssumption DEF MeasureInv, WalkInv, SampleInv, MembersInv
  <2> SUFFICES ASSUME NEW index \in Probes, NEW b \in 0..n, NEW j \in Block(b),
                      (index % c) + b * f * c < n * c
               PROVE  (index % c) + j * c \in 0..(snap.data_size - 1)
    <3>1. \A index \in Probes : \A p \in MeasureReads(n, c, index) :
             \E b \in 0..n : \E j \in Block(b) :
                (index % c) + b * f * c < n * c /\ p = (index % c) + j * c
      BY Zenon DEF MeasureReads
    <3> QED BY <3>1, Zenon DEF MeasuresStayInBuffer
  <2>4. b \in Nat /\ b * f \in Nat /\ j \in Nat /\ j <= (b + 1) * f - 1
    BY <2>3 DEF Block
  <2>5. b * f * c < n * c
    <3>1. index % c \in Nat /\ b * f * c \in Nat /\ n * c \in Nat
      BY <2>3, <2>4, SnapshotAssumption DEF Probes
    <3> QED BY <3>1
  <2>6. index % c \in Nat /\ index % c < c
    BY <2>3, SnapshotAssumption DEF Probes
  <2>7. n <= k * f
    BY <2>1, <2>2
  <2> DEFINE r == index % c
  <2> HIDE DEF n, c, f, r
  <2>8. r + j * c \in 0..(k * f * c - 1)
    BY <2>3, <2>4, <2>5, <2>6, <2>7, BlocksWithin DEF r
  <2>9. m = k * f
    BY <2>2 DEF f
  <2>10. m * c \in Nat
    BY <2>3
  <2>11. r + j * c \in 0..((m * c + Pad) - 1)
    BY <2>3, <2>8, <2>9, <2>10
  <2>12. (index % c) + j * c \in 0..((m * c + Pad) - 1)
    BY <2>11 DEF r
  <2>13. snap.data_size = m * c + Pad
    BY <2>1 DEF c
  <2> QED BY <2>12, <2>13, Zenon
<1> QED BY MeasureInvHolds, <1>1, PTL
============================================================================
