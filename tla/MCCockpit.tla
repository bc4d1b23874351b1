------------------------------ MODULE MCCockpit ------------------------------
(* Instances of Cockpit for TLC. *)
EXTENDS Cockpit

CONSTANTS pa, pb
=============================================================================
