--------------------------- MODULE MCDscopeSource ---------------------------
(* A DSCope, another instrument of the same maker and the virtual device, and
   the scans in which the DSCope is alone, found behind the virtual device,
   missing, or nothing is found. *)
EXTENDS DscopeSource

CONSTANTS dscope, dslogic, virtual

MCDevices == {dscope, dslogic, virtual}
MCVirtual == {virtual}
MCDSCope == {dscope}
MCScans == {<<>>, <<dscope>>, <<virtual, dscope>>, <<virtual, dslogic>>, <<virtual>>}
============================================================================
