----------------------------- MODULE MCSolarGate -----------------------------
(* Instances of SolarGate.                                                   *)
EXTENDS SolarGate

CONSTANT c1
=============================================================================
