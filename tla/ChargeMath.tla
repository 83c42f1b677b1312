----------------------------- MODULE ChargeMath -----------------------------
(***************************************************************************)
(* The arithmetic of internal/domain/smartcharging/calculator.go as        *)
(* operators: from a meter sample to the surplus, from the surplus to a    *)
(* current, and the stop debouncer and hysteresis that turn the current    *)
(* into the answer given to the controller.  No state lives here: the      *)
(* modules Calculator and ChargeControl keep it.  Watts are integers.      *)
(***************************************************************************)
EXTENDS Integers

CONSTANT GridVolt     \* volts per phase, the gridVolt of NewCalculator

ASSUME GridVoltAssumption == GridVolt \in Nat \ {0}

StopConfirmTicks == 3     \* below-threshold computes before a stop
RunConfirmTicks  == 2     \* above-threshold computes before a resume
Hysteresis       == 2     \* amps

NoLimit == -1             \* lastLimit has no entry for this charger

Sample == [grid : Int, solar : Int, consumption : Int]

\* The limits of the calculator; config.validate guarantees min <= max.
Bounds == {b \in [min : Nat, max : Nat] : b.min <= b.max}

(***************************************************************************)
(* One entry of stopState together with the lastLimit entry of the same    *)
(* charger: both are keyed by the charger and only Compute touches them.   *)
(***************************************************************************)
Memory == [isStopped : BOOLEAN, below : 0 .. StopConfirmTicks,
           above : 0 .. RunConfirmTicks, last : Nat \cup {NoLimit}]

FreshMemory == [isStopped |-> FALSE, below |-> 0, above |-> 0, last |-> NoLimit]

AbsInt(x) == IF x < 0 THEN -x ELSE x

Surplus(s) ==
  IF s.solar > 0 \/ s.consumption > 0 THEN s.solar - s.consumption ELSE -s.grid

IdealAmps(s) == IF Surplus(s) < 0 THEN 0 ELSE Surplus(s) \div GridVolt

WouldStop(s, b) == IdealAmps(s) < b.min

\* How the debouncer reads a sample.
Readings == {"low", "high"}
Reading(s, b) == IF WouldStop(s, b) THEN "low" ELSE "high"

\* Mutants of Debounced: stops a tick late, stops a tick early, and counts low
\* readings that are not consecutive.
DebouncedLate(m, r) ==
  IF m.isStopped \/ r = "high" THEN [m EXCEPT !.below = IF m.isStopped THEN @ ELSE 0]
  ELSE [m EXCEPT !.isStopped = m.below + 1 > StopConfirmTicks, !.below = @ + 1]
DebouncedEarly(m, r) ==
  IF m.isStopped \/ r = "high" THEN [m EXCEPT !.below = IF m.isStopped THEN @ ELSE 0]
  ELSE [m EXCEPT !.isStopped = m.below + 1 >= StopConfirmTicks - 1, !.below = @ + 1]
DebouncedSum(m, r) ==
  IF m.isStopped \/ r = "high" THEN m
  ELSE [m EXCEPT !.isStopped = m.below + 1 >= StopConfirmTicks, !.below = @ + 1]

(***************************************************************************)
(* The debouncer: three consecutive computes below the minimum stop a      *)
(* charger, two above it resume it.                                        *)
(***************************************************************************)
Debounced(m, r) ==
  LET stops   == ~m.isStopped /\ r = "low" /\ m.below + 1 >= StopConfirmTicks
      resumes == m.isStopped /\ r = "high" /\ m.above + 1 >= RunConfirmTicks
  IN [isStopped |-> IF m.isStopped THEN ~resumes ELSE stops,
      below |-> IF m.isStopped THEN (IF resumes THEN 0 ELSE m.below)
                ELSE IF r = "low" THEN m.below + 1 ELSE 0,
      above |-> IF m.isStopped THEN (IF r = "low" THEN 0 ELSE m.above + 1)
                ELSE IF stops THEN 0 ELSE m.above,
      last  |-> m.last]

Capped(a, b) == IF a > b.max THEN b.max ELSE a

\* Mutant of InHysteresisBand: the band takes its own edge in.
InWideBand(m, a) == m.last > 0 /\ AbsInt(a - m.last) <= Hysteresis

InHysteresisBand(m, a) == m.last > 0 /\ AbsInt(a - m.last) < Hysteresis

\* Mutant of LimitFor: no cap at maxAmps.
LimitUncapped(m, s, b) ==
  IF m.isStopped THEN b.min
  ELSE IF WouldStop(s, b) THEN IF m.last >= b.min THEN m.last ELSE b.min
  ELSE IF InHysteresisBand(m, IdealAmps(s)) THEN m.last ELSE IdealAmps(s)

(***************************************************************************)
(* The limit Compute returns, given the memory after the debouncer ran.    *)
(* Every branch either returns the stored limit or stores what it returns, *)
(* so the returned LimitAmps is always the new lastLimit.                  *)
(***************************************************************************)
LimitFor(m, s, b) ==
  LET ideal == Capped(IdealAmps(s), b)
  IN IF m.isStopped THEN b.min
     ELSE IF WouldStop(s, b)
     THEN IF m.last >= b.min THEN m.last ELSE b.min
     ELSE IF InHysteresisBand(m, ideal) THEN m.last ELSE ideal

\* Compute: the new memory; its .last is LimitAmps, its .isStopped ShouldStop.
Computed(m, s, b) ==
  LET d == Debounced(m, Reading(s, b))
  IN [d EXCEPT !.last = LimitFor(d, s, b)]
=============================================================================
