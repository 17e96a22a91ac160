---------------------------- MODULE MCInputDevice ---------------------------
(* The keys of InputDevice: shift is bound to lshift.                      *)
EXTENDS InputDevice

CONSTANTS shift, lshift

MCKeys == {shift, lshift}
MCBinding == [k \in MCKeys |-> lshift]
=============================================================================
