-------------------------- MODULE MCZigbeeNetwork --------------------------
(* A small instance of ZigbeeNetwork for TLC.                              *)
EXTENDS ZigbeeNetwork

\* One inverter of the old kind, already bound, and a fresh one of the new.
MCInverters == {1, 2}
MCNew == {2}
MCFresh == {2}
=============================================================================
