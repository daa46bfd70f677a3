---------------------------- MODULE MCSigSession ----------------------------
(* Two devices, one of them virtual, so that set_device() can replace one by
   the other and start_capture() sees both names. *)
EXTENDS SigSession

CONSTANTS hardware, virtual

MCDevices == {hardware, virtual}
MCVirtual == {virtual}
============================================================================
