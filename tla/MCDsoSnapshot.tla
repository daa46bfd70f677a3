--------------------------- MODULE MCDsoSnapshot ---------------------------
(* Two probes, blocks of two samples and two levels. The limits make a frame
   of two blocks per envelope array and one of four; eight samples of one
   channel need the same buffer as four samples of two. *)
EXTENDS DsoMeasure

MCLimits == {4, 8}
============================================================================
