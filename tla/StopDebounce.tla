---------------------------- MODULE StopDebounce ----------------------------
(***************************************************************************)
(* What the stop/start debouncing of the calculator promises, stated over  *)
(* the readings themselves and without any counter ("3 consecutive         *)
(* below-threshold ticks to stop, 2 above-threshold to resume"): a running *)
(* charger stops exactly when its last three readings since it resumed     *)
(* were all low, a stopped one resumes exactly when its last two readings  *)
(* since it stopped were both high.                                        *)
(***************************************************************************)
EXTENDS Naturals, Sequences

CONSTANT Chargers

VARIABLES
  stopped,   \* has the charger been told to stop?
  seen       \* up to three last readings since that changed

vars == <<stopped, seen>>

Init ==
  /\ stopped = [c \in Chargers |-> FALSE]
  /\ seen = [c \in Chargers |-> <<>>]

LastAre(w, n, r) ==
  /\ Len(w) >= n
  /\ \A i \in 1 .. n : w[Len(w) + 1 - i] = r

Flips(c, w) == IF stopped[c] THEN LastAre(w, 2, "high") ELSE LastAre(w, 3, "low")

\* A window never holds more than three readings before one is appended.
LastThree(w) == IF Len(w) <= 3 THEN w ELSE Tail(w)

Observe(c, r) ==
  LET w == Append(seen[c], r)
  IN /\ stopped' = [stopped EXCEPT ![c] = IF Flips(c, w) THEN ~@ ELSE @]
     /\ seen' = [seen EXCEPT ![c] = IF Flips(c, w) THEN <<>> ELSE LastThree(w)]

Next == \E c \in Chargers, r \in {"low", "high"} : Observe(c, r)

Spec == Init /\ [][Next]_vars
=============================================================================
