--------------------------- MODULE CaptureService ---------------------------
(***************************************************************************)
(* What a capture session promises to a caller that lets its starts        *)
(* complete: one capture at a time, numbered in order, on one device from  *)
(* its first packet to its last; packets leave in the order of capture;    *)
(* a capture that was told to stop ends.                                   *)
(***************************************************************************)
EXTENDS Naturals, Sequences

CONSTANTS Devices, NoDevice

VARIABLES
    started,    \* captures started so far
    active,     \* the running capture, 0 if none
    device,     \* what it captures from
    stopping,   \* it has been told to stop
    packets     \* packets not yet taken, by the capture they come from

vars == <<started, active, device, stopping, packets>>

Init ==
    /\ started = 0 /\ active = 0 /\ device = NoDevice
    /\ stopping = FALSE /\ packets = <<>>

Begin(d) ==
    /\ active = 0
    /\ started' = started + 1 /\ active' = started + 1
    /\ device' = d
    /\ UNCHANGED <<stopping, packets>>

Deliver ==
    /\ active # 0
    /\ packets' = Append(packets, active)
    /\ UNCHANGED <<started, active, device, stopping>>

Stop ==
    /\ active # 0 /\ ~stopping
    /\ stopping' = TRUE
    /\ UNCHANGED <<started, active, device, packets>>

(* A capture also ends by itself. *)
End ==
    /\ active # 0
    /\ active' = 0 /\ device' = NoDevice /\ stopping' = FALSE
    /\ UNCHANGED <<started, packets>>

Take ==
    /\ packets # <<>>
    /\ packets' = Tail(packets)
    /\ UNCHANGED <<started, active, device, stopping>>

Next == (\E d \in Devices : Begin(d)) \/ Deliver \/ Stop \/ End \/ Take

SafeSpec == Init /\ [][Next]_vars

Spec == SafeSpec /\ WF_vars(End /\ stopping)
=============================================================================
