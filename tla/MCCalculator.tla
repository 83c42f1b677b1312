---------------------------- MODULE MCCalculator ----------------------------
(* Instances of Calculator.  At 230 V the samples give ideal currents on     *)
(* both sides of every threshold the limits below have.                      *)
EXTENDS Calculator

CONSTANTS c1, c2

\* ideal currents 0, 6, 7, 8, 9, 10 and 34 A, from solar, consumption or grid
MCSamples ==
  { [grid |-> 500,   solar |-> 0,    consumption |-> 0],
    [grid |-> -1500, solar |-> 0,    consumption |-> 0],
    [grid |-> 0,     solar |-> 1700, consumption |-> 0],
    [grid |-> 800,   solar |-> 2200, consumption |-> 300],
    [grid |-> -2100, solar |-> 0,    consumption |-> 0],
    [grid |-> 0,     solar |-> 3000, consumption |-> 699],
    [grid |-> -8000, solar |-> 0,    consumption |-> 0] }

MCLimits == { [min |-> 6, max |-> 9], [min |-> 7, max |-> 8], [min |-> 6, max |-> 7] }
=============================================================================
