---------------------------- MODULE MCCommander -----------------------------
(* Instances of Commander.  One unit of time is the command timeout (15 s in *)
(* the code, against a cooldown of 180 s by default).                        *)
EXTENDS Commander

CONSTANTS p1, p2, c1
=============================================================================
