------------------------------ MODULE MCProbeSlots -----------------------------
(* ProbeSlots with sweeps of two services, and of one named twice. *)
EXTENDS ProbeSlots
CONSTANTS g, h
SweepsHere == {<<g, h>>, <<g, g>>}
================================================================================
