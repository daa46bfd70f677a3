----------------------------- MODULE DsoMeasure -----------------------------
(***************************************************************************)
(* cal_vrms() and cal_vmean() of dsosnapshot.cpp on another thread: a walk *)
(* over the samples that reads the buffer's pointer, the count of samples  *)
(* and the number of channels at different times, and holds no lock while  *)
(* DsoSnapshot's threads replace, fill and forget the samples.             *)
(***************************************************************************)
EXTENDS DsoSnapshot

VARIABLE walk   \* where the walk is, and the count that ends it; "stray": the
                \* buffer or the number of channels is no longer the walk's

measureVars == <<snap, feeder, config, capturing, packets, base, received, steady, walk>>

NoWalk == [at |-> "none", count |-> 0]
StrayWalk == [at |-> "stray", count |-> 0]

MeasureInit == Init /\ walk = NoWalk

----------------------------------------------------------------------------
Counted(count) == IF count = 0 THEN NoWalk ELSE [at |-> "blocks", count |-> count]

(* It reads the pointer and the count, in an order that C++ leaves open. With
   the count first, all that could matter between the two is a new buffer, and
   that makes a stray of the walk. *)
MeasureBegin ==
    /\ Alive /\ walk = NoWalk
    /\ walk' \in IF snap.data_size = 0 THEN {StrayWalk}
                 ELSE {[at |-> "begin", count |-> 0], Counted(snap.sample_count)}
    /\ UNCHANGED vars

MeasureCount ==
    /\ Alive /\ walk.at = "begin"
    /\ walk' = Counted(snap.sample_count)
    /\ UNCHANGED vars

(* From here on it may read any of its blocks at any time, until it returns. *)
MeasureEnd ==
    /\ Alive /\ walk.at \in {"blocks", "stray"}
    /\ walk' = NoWalk
    /\ UNCHANGED vars

MeasureReadsPast(count, c, index) ==     \* mutant: <= instead of < in the loop's condition
    {(index % c) + j * c : j \in UNION {Block(b) :
       b \in {b \in 0..count : (index % c) + b * EnvelopeScaleFactor * c <= count * c}}}

(* The positions it reads with c channels: whole blocks, of which the last one
   begins before the end of the samples counted. *)
MeasureReads(count, c, index) ==
    {(index % c) + j * c : j \in UNION {Block(b) :
       b \in {b \in 0..count : (index % c) + b * EnvelopeScaleFactor * c < count * c}}}

----------------------------------------------------------------------------
(* The buffer is freed under the walk, or has another number of channels. *)
Stray == walk' = IF walk = NoWalk THEN NoWalk ELSE StrayWalk

(* first_payload() changes the number of channels before it frees anything. *)
FirstPayloadUnder ==
    /\ FirstPayload
    /\ IF snap'.channel_num = snap.channel_num THEN UNCHANGED walk ELSE Stray

Freeing == Clear \/ AllocateData \/ AllocateDataFails \/ AllocateEnvelopeFails

(* Counts and samples change, the buffer does not. *)
Keeping ==
    \/ \E c \in Configs : StartCapture(c)
    \/ EndCapture
    \/ \E enable \in BOOLEAN : EnableEnvelope(enable)
    \/ \E n \in 0..config.limit, toggled \in BOOLEAN : FeedDso(n, toggled)
    \/ AllocateEnvelope
    \/ AppendPayload

MeasureNext ==
    \/ MeasureBegin \/ MeasureCount \/ MeasureEnd
    \/ FirstPayloadUnder
    \/ Freeing /\ Stray
    \/ Keeping /\ UNCHANGED walk

MeasureSpec == MeasureInit /\ [][MeasureNext]_measureVars

----------------------------------------------------------------------------
(* cal_vrms() and cal_vmean() read whole blocks without the lock, up to a count
   that packets, captures and restarts may since have changed or reset: with
   limits that are whole blocks no read is outside the buffer, at any moment of
   the walk, unless that buffer has been freed, or is about to be because the
   number of channels has changed. (Nothing prevents that: see the strays.) *)
MeasuresStayInBuffer ==
    Alive /\ walk.at = "blocks" =>
      \A index \in Probes :
        MeasureReads(walk.count, snap.channel_num, index) \subseteq 0..(snap.data_size - 1)
============================================================================
