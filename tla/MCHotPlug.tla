----------------------------- MODULE MCHotPlug -----------------------------
(* One oscilloscope that is plugged in and out, and one virtual device. *)
EXTENDS HotPlug

CONSTANTS scope, demo

MCHardware == {scope}
MCBuiltin == {demo}
============================================================================
