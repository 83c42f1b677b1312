------------------------------ MODULE SolarGate ------------------------------
(***************************************************************************)
(* The solar gate: runSolarGate of internal/adapter/outbound/ocpp/         *)
(* controller.go, which the controller goroutine runs in every tick that   *)
(* has fresh data.  Three ticks with too little production stop every      *)
(* charger, two with enough start them again.  The gate goes through the   *)
(* commander, whose contactor protection may refuse it; Home Assistant's   *)
(* start and stop commands, overrides and toggles, and the transactions    *)
(* the chargers report run between its steps.                              *)
(*                                                                         *)
(* A command is one step here: the module Commander opens it up.  What     *)
(* processCharger does when the gate lets a tick through is the matter of  *)
(* the module ChargeControl.                                               *)
(***************************************************************************)
EXTENDS Integers

CONSTANTS
  Chargers,
  Connectors,       \* connector IDs of a charger, without connector 0
  Obedient          \* a charger accepts every command that reaches it

ASSUME GateAssumption == Obedient \in BOOLEAN

solarGateStopTicks  == 3
solarGateStartTicks == 2

Keys == Chargers \X Connectors

VARIABLES
  enabled,          \* smart charging is on
  on,               \* the solar threshold is positive
  solar,            \* what a tick reads: production "low" or "high" against the
                    \* threshold, "unavailable", or all data "stale"
  online, override,
  session,          \* connectors with an active session
  below, above,     \* solarBelowTicks, solarAboveTicks, up to one past their use
  gateStopped,      \* the solarGateStopped map
  round,            \* what the controller does to which chargers and connectors
  locked,           \* chargers in the commander's cooldown
  asked,            \* External: what a charger agreed to do with a connector
  \* History:
  passed,           \* the last tick of the gate let processCharger run
  halted            \* per connector: "stopped" by the gate, "tried" to start
                    \* again by it since, or "no" (also after a disconnect)

gate     == <<below, above, gateStopped, round>>
switches == <<enabled, on, solar>>
vars     == <<switches, online, override, session, gate, locked, asked, passed, halted>>

Resting == [pc |-> "idle", todo |-> {}, left |-> {}]

Init ==
  /\ enabled = TRUE /\ on \in BOOLEAN /\ solar = "stale"
  /\ online = {} /\ override = {} /\ session = {}
  /\ below = 0 /\ above = 0 /\ gateStopped = {} /\ round = Resting
  /\ locked = {}
  /\ asked = [k \in Keys |-> "nothing"]
  /\ passed = TRUE /\ halted = [k \in Keys |-> "no"]

\* The counters are only compared with their thresholds.
Counted(n, threshold) == IF n > threshold THEN n ELSE n + 1

-----------------------------------------------------------------------------
(***************************************************************************)
(* Commander.RemoteStart/StopTransaction for connector k: refused while    *)
(* the charger is locked out, accepted, accepted with the answer lost      *)
(* (then nothing locks the charger out), or failed.                        *)
(***************************************************************************)
AllOutcomes == {"refused", "accepted", "lost", "failed"}
Done == {"accepted", "lost"}          \* the charger does as told

Outcomes(k) ==
  IF k[1] \in locked THEN {"refused"}
  ELSE IF k[1] \notin online THEN {"failed"}
  ELSE IF Obedient THEN {"accepted"} ELSE {"accepted", "lost", "failed"}

Command(k, what, out) ==
  /\ out \in Outcomes(k)
  /\ asked' = IF out \in Done THEN [asked EXCEPT ![k] = what] ELSE asked
  /\ locked' = IF out = "accepted" THEN locked \cup {k[1]} ELSE locked

-----------------------------------------------------------------------------
(* A tick up to the first command. *)

Tick == round.pc = "idle" /\ enabled /\ solar # "stale"

TickGateOff ==
  /\ Tick /\ ~on
  /\ below' = 0 /\ above' = 0
  /\ passed' = TRUE
  /\ UNCHANGED <<switches, online, override, session, gateStopped, round, locked, asked, halted>>

TickNoSolar ==
  /\ Tick /\ on /\ solar = "unavailable"
  /\ passed' = TRUE
  /\ UNCHANGED <<switches, online, override, session, gate, locked, asked, halted>>

Start(pc) == [pc |-> pc, todo |-> online, left |-> {}]

\* Mutant of TickLow: clears gateStopped for every charger.
TickLowForgets ==
  /\ Tick /\ on /\ solar = "low"
  /\ gateStopped' = {}
  /\ above' = 0
  /\ below' = Counted(below, solarGateStopTicks)
  /\ round' = IF below + 1 = solarGateStopTicks THEN Start("stop") ELSE round
  /\ passed' = FALSE
  /\ UNCHANGED <<switches, online, override, session, locked, asked, halted>>

TickLow ==
  /\ Tick /\ on /\ solar = "low"
  /\ gateStopped' = gateStopped \cap online
  /\ above' = 0
  /\ below' = Counted(below, solarGateStopTicks)
  /\ round' = IF below + 1 = solarGateStopTicks THEN Start("stop") ELSE round
  /\ passed' = FALSE
  /\ UNCHANGED <<switches, online, override, session, locked, asked, halted>>

\* Mutants of TickHigh: the low counter runs down instead of being reset, and
\* only the tick that resumes lets processCharger run.
TickHighRunsDown ==
  /\ Tick /\ on /\ solar = "high"
  /\ below' = below - 1
  /\ UNCHANGED <<switches, online, override, session, above, gateStopped, round,
                 locked, asked, passed, halted>>
TickHighPassesOnce ==
  /\ Tick /\ on /\ solar = "high"
  /\ gateStopped' = gateStopped \cap online
  /\ below' = 0
  /\ above' = Counted(above, solarGateStartTicks)
  /\ round' = IF above + 1 = solarGateStartTicks THEN Start("resume") ELSE round
  /\ passed' = (above + 1 = solarGateStartTicks)
  /\ UNCHANGED <<switches, online, override, session, locked, asked, halted>>

TickHigh ==
  /\ Tick /\ on /\ solar = "high"
  /\ gateStopped' = gateStopped \cap online
  /\ below' = 0
  /\ above' = Counted(above, solarGateStartTicks)
  /\ round' = IF above + 1 = solarGateStartTicks THEN Start("resume") ELSE round
  /\ passed' = (above + 1 >= solarGateStartTicks)
  /\ UNCHANGED <<switches, online, override, session, locked, asked, halted>>

-----------------------------------------------------------------------------
(* The rounds over the chargers of the copied list. *)

\* LoadOrStore records the charger before the gate knows of a session to stop.
StopCharger(c) ==
  /\ round.pc = "stop" /\ round.left = {} /\ c \in round.todo
  /\ LET skip == c \in override \/ c \in gateStopped
     IN /\ round' = [round EXCEPT !.todo = @ \ {c},
                                  !.left = IF skip THEN {} ELSE {c} \X Connectors]
        /\ gateStopped' = IF skip THEN gateStopped ELSE gateStopped \cup {c}
  /\ UNCHANGED <<switches, online, override, session, below, above, locked, asked, passed, halted>>

StopConnector(k, out) ==
  /\ round.pc = "stop" /\ k \in round.left
  /\ round' = [round EXCEPT !.left = @ \ {k}]
  /\ IF k \in session
     THEN /\ Command(k, "stop", out)
          /\ halted' = IF out \in Done THEN [halted EXCEPT ![k] = "stopped"] ELSE halted
     ELSE out = "failed" /\ UNCHANGED <<locked, asked, halted>>
  /\ UNCHANGED <<switches, online, override, session, below, above, gateStopped, passed>>

\* LoadAndDelete forgets the charger before the start was accepted.
ResumeCharger(c) ==
  /\ round.pc = "resume" /\ round.left = {} /\ c \in round.todo
  /\ gateStopped' = gateStopped \ {c}
  /\ round' = [round EXCEPT !.todo = @ \ {c},
                 !.left = IF c \in gateStopped THEN {c} \X Connectors ELSE {}]
  /\ halted' = [k \in Keys |-> IF k[1] = c /\ c \in gateStopped /\ halted[k] = "stopped"
                               THEN "tried" ELSE halted[k]]
  /\ UNCHANGED <<switches, online, override, session, below, above, locked, asked, passed>>

ResumeConnector(k, out) ==
  /\ round.pc = "resume" /\ k \in round.left
  /\ round' = [round EXCEPT !.left = @ \ {k}]
  /\ Command(k, "start", out)
  /\ halted' = IF out \in Done THEN [halted EXCEPT ![k] = "no"] ELSE halted
  /\ UNCHANGED <<switches, online, override, session, below, above, gateStopped, passed>>

RoundEnds ==
  /\ round.pc # "idle" /\ round.todo = {} /\ round.left = {}
  /\ round' = Resting
  /\ UNCHANGED <<switches, online, override, session, below, above, gateStopped,
                 locked, asked, passed, halted>>

Gate ==
  \/ TickGateOff \/ TickNoSolar \/ TickLow \/ TickHigh
  \/ \E c \in Chargers : StopCharger(c) \/ ResumeCharger(c)
  \/ \E k \in Keys, out \in AllOutcomes : StopConnector(k, out) \/ ResumeConnector(k, out)
  \/ RoundEnds

-----------------------------------------------------------------------------
(* Home Assistant: cmdBridge, one connector of a command at a time.        *)

\* startCharging skips a connector with an active session.
StartCharging(k, out) ==
  /\ k \notin session
  /\ Command(k, "start", out)
  /\ UNCHANGED <<switches, online, override, session, gate, passed, halted>>

StopCharging(k, out) ==
  /\ k \in session
  /\ Command(k, "stop", out)
  /\ halted' = IF out \in Done THEN [halted EXCEPT ![k] = "no"] ELSE halted
  /\ UNCHANGED <<switches, online, override, session, gate, passed>>

SetChargingMode(c, manual) ==
  /\ override' = IF manual THEN override \cup {c} ELSE override \ {c}
  /\ UNCHANGED <<switches, online, session, gate, locked, asked, passed, halted>>

SetSmartCharging(b) ==
  /\ enabled' = b
  /\ override' = IF b THEN {} ELSE override
  /\ UNCHANGED <<on, solar, online, session, gate, locked, asked, passed, halted>>

SetSolarThreshold(b) ==
  /\ on' = b
  /\ UNCHANGED <<enabled, solar, online, override, session, gate, locked, asked, passed, halted>>

HomeAssistant ==
  \/ \E k \in Keys, out \in AllOutcomes : StartCharging(k, out) \/ StopCharging(k, out)
  \/ \E c \in Chargers, m \in BOOLEAN : SetChargingMode(c, m)
  \/ \E b \in BOOLEAN : SetSmartCharging(b) \/ SetSolarThreshold(b)

-----------------------------------------------------------------------------
(* Chargers and weather.                                                   *)

Weather(w) ==
  /\ solar # w
  /\ solar' = w
  /\ UNCHANGED <<enabled, on, online, override, session, gate, locked, asked, passed, halted>>

Connect(c) ==
  /\ c \notin online
  /\ online' = online \cup {c}
  /\ UNCHANGED <<switches, override, session, gate, locked, asked, passed, halted>>

Disconnect(c) ==
  /\ c \in online
  /\ online' = online \ {c}
  /\ override' = override \ {c}
  /\ halted' = [k \in Keys |-> IF k[1] = c THEN "no" ELSE halted[k]]
  /\ UNCHANGED <<switches, session, gate, locked, asked, passed>>

\* A transaction starts because the charger agreed to, or because a driver
\* asked the charger.
StartTransaction(k) ==
  /\ k[1] \in online /\ k \notin session
  /\ session' = session \cup {k}
  /\ asked' = [asked EXCEPT ![k] = "nothing"]
  /\ halted' = [halted EXCEPT ![k] = "no"]
  /\ UNCHANGED <<switches, online, override, gate, locked, passed>>

StopTransaction(k) ==
  /\ k[1] \in online /\ k \in session
  /\ session' = session \ {k}
  /\ override' = override \ {k[1]}
  /\ asked' = [asked EXCEPT ![k] = "nothing"]
  /\ halted' = IF asked[k] = "stop" THEN halted ELSE [halted EXCEPT ![k] = "no"]
  /\ UNCHANGED <<switches, online, gate, locked, passed>>

CooldownEnds(c) ==
  /\ c \in locked
  /\ locked' = locked \ {c}
  /\ UNCHANGED <<switches, online, override, session, gate, asked, passed, halted>>

World ==
  \/ \E w \in {"low", "high", "unavailable", "stale"} : Weather(w)
  \/ \E c \in Chargers : Connect(c) \/ Disconnect(c) \/ CooldownEnds(c)
  \/ \E k \in Keys : StartTransaction(k) \/ StopTransaction(k)

Next == Gate \/ HomeAssistant \/ World

Spec == Init /\ [][Next]_vars

\* The ticker ticks, cooldowns end, and a charger does what it agreed to.
FairSpec ==
  /\ Spec /\ WF_vars(Gate)
  /\ \A c \in Chargers : WF_vars(CooldownEnds(c))
  /\ \A k \in Keys : /\ WF_vars(asked[k] = "start" /\ StartTransaction(k))
                     /\ WF_vars(asked[k] = "stop" /\ StopTransaction(k))

-----------------------------------------------------------------------------
(* Properties *)

\* The type invariant of the gate.
TypeOK ==
  /\ enabled \in BOOLEAN /\ on \in BOOLEAN /\ passed \in BOOLEAN
  /\ solar \in {"low", "high", "unavailable", "stale"}
  /\ online \subseteq Chargers /\ override \subseteq Chargers
  /\ session \subseteq Keys /\ halted \in [Keys -> {"no", "stopped", "tried"}]
  /\ below \in 0 .. solarGateStopTicks + 1 /\ above \in 0 .. solarGateStartTicks + 1
  /\ gateStopped \subseteq Chargers /\ locked \subseteq Chargers
  /\ round \in [pc : {"idle", "stop", "resume"}, todo : SUBSET Chargers, left : SUBSET Keys]
  /\ asked \in [Keys -> {"nothing", "start", "stop"}]

\* A connector that the gate stopped stays recorded in gateStopped, so that the
\* sun's return finds it, until the gate tries to start it: through ticks
\* without data, overrides, toggles of the gate and lost answers.
StoppedIsRemembered == \A k \in Keys : halted[k] = "stopped" => k[1] \in gateStopped

\* Sun for good never leaves smart charging blocked by the gate.
SunnyPasses == <>[](enabled /\ on /\ solar = "high") => <>[]passed

Sunny(c) == enabled /\ on /\ solar = "high" /\ c \in online /\ c \notin override

\* "solar production sufficient -- resuming charge": with sun for good, a
\* connector that the gate stopped is asked to start again.
GateReopens ==
  \A k \in Keys : <>[]Sunny(k[1]) => []<>(halted[k] = "no")
=============================================================================
