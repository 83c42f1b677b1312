--------------------------- MODULE MCChargeControl ---------------------------
(* Instances of ChargeControl.  At 1 V a watt of surplus is an ampere; the   *)
(* samples find a charger short of surplus, or able to draw 9 A.             *)
EXTENDS ChargeControl

CONSTANT c1

MCSamples == { [grid |-> 3, solar |-> 0, consumption |-> 0],
               [grid |-> -9, solar |-> 0, consumption |-> 0] }

\* never short of surplus, and far enough apart to be adjusted to
MCSunny   == { [grid |-> -7, solar |-> 0, consumption |-> 0],
               [grid |-> -9, solar |-> 0, consumption |-> 0] }

MCConfig  == { [min |-> 6, max |-> 9, safe |-> 7] }
MCPlain   == { [min |-> 6, max |-> 9, safe |-> 6] }
=============================================================================
