----------------------------- MODULE Calculator -----------------------------
(***************************************************************************)
(* The smart-charging Calculator (internal/domain/smartcharging): one      *)
(* memory per charger, limits that the WebUI changes while the controller  *)
(* computes.  Compute and SetLimits each hold Calculator.mu from the first *)
(* read of the shared state to the last write, so each is one action.      *)
(***************************************************************************)
EXTENDS ChargeMath, Sequences

CONSTANTS
  Chargers,      \* charger IDs, the keys of stopState and lastLimit
  Samples,       \* the meter samples the controller can collect
  Limits         \* the limits the configuration can hold

ASSUME CalculatorAssumption ==
  /\ Samples \subseteq Sample
  /\ Limits \subseteq Bounds
  /\ Limits # {}

VARIABLES
  limits,        \* minAmps and maxAmps
  memory,        \* stopState and lastLimit, per charger
  \* History variables, in no branch of the code's control:
  seen,          \* per charger, up to 3 last readings, oldest first,
                 \* since the charger last stopped or resumed
  overshoot      \* per charger, consecutive computes that let it draw more than
                 \* both the minimum and what the surplus covers

vars == <<limits, memory, seen, overshoot>>

\* The last three readings of a window and one more.
Slide(w, r) ==
  IF Len(w) < StopConfirmTicks THEN Append(w, r) ELSE Tail(Append(w, r))

Init ==
  /\ limits \in Limits
  /\ memory = [c \in Chargers |-> FreshMemory]
  /\ seen = [c \in Chargers |-> <<>>]
  /\ overshoot = [c \in Chargers |-> 0]

SetLimits(b) ==
  /\ limits' = b
  /\ UNCHANGED <<memory, seen, overshoot>>

\* The charger is told to draw at least the hysteresis more than the surplus
\* covers, and more than the minimum, which no answer goes below.
Overshoots(m, s, b) == m.last >= IdealAmps(s) + Hysteresis /\ m.last > b.min

Compute(c, s) ==
  LET m   == memory[c]
      new == Computed(m, s, limits)
  IN /\ memory' = [memory EXCEPT ![c] = new]
     /\ seen' = [seen EXCEPT ![c] = IF new.isStopped <=> m.isStopped
                                    THEN Slide(@, Reading(s, limits)) ELSE <<>>]
     /\ overshoot' = [overshoot EXCEPT ![c] = IF Overshoots(new, s, limits) THEN @ + 1 ELSE 0]
     /\ UNCHANGED limits

Next ==
  \/ \E b \in Limits : SetLimits(b)
  \/ \E c \in Chargers, s \in Samples : Compute(c, s)

Spec == Init /\ [][Next]_vars

-----------------------------------------------------------------------------

\* Type invariant: stopState, lastLimit and the limits keep their shape, and
\* the two debounce counters never pass their thresholds.
TypeOK ==
  /\ limits \in Limits
  /\ memory \in [Chargers -> Memory]
  /\ seen \in [Chargers -> Seq(Readings)]
  /\ \A c \in Chargers : Len(seen[c]) <= StopConfirmTicks
  /\ overshoot \in [Chargers -> Nat]

\* Every limit the calculator remembers, hence every LimitAmps it returns,
\* lies between the minimum and the maximum of one configuration that was in
\* force, whatever the order of limit changes and computes.  In the branches
\* that hold a previous limit nothing re-checks it, so this is not local to
\* one call.
LimitFromSomeConfiguration ==
  \A c \in Chargers : memory[c].last # NoLimit =>
    \E b \in Limits : memory[c].last \in b.min .. b.max

\* Above the minimum no charger is told to draw 2 A more than the surplus for
\* more than two computes in a row: the hold branch of the stop debounce, the
\* hysteresis band and limit changes together never outlast the debounce.  The
\* minimum itself has no such bound: once it decides to stop the calculator
\* goes on to answer minAmps for as long as the sun is away, and a controller
\* with no gate to stop the charger keeps it at that, surplus or not.
OvershootBounded == \A c \in Chargers : overshoot[c] < StopConfirmTicks

\* "Clamp to [min_amps, max_amps]": an answer that differs from the previous
\* one lies inside the limits in force.  Only an answer that was held (while a
\* stop is debounced, or inside the hysteresis band) may be above a maximum
\* that was lowered in the meantime.
NewLimitsClamped ==
  [][\A c \in Chargers : memory'[c].last # memory[c].last =>
       memory'[c].last \in limits.min .. limits.max]_vars

Debouncer == INSTANCE StopDebounce WITH
  stopped <- [c \in Chargers |-> memory[c].isStopped]

\* The counters of the calculator implement the abstract debouncer: a charger
\* is told to stop exactly after three low readings in a row and to resume
\* exactly after two high ones, although belowCount is not reset when the
\* charger stops, aboveCount is not reset when it resumes, and SetLimits moves
\* the threshold in between.
ImplementsDebouncer == Debouncer!Spec
=============================================================================
