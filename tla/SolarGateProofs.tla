--------------------------- MODULE SolarGateProofs ---------------------------
(***************************************************************************)
(* What the solar gate stopped it remembers, and stops once, for every set *)
(* of chargers and connectors.                                             *)
(***************************************************************************)
EXTENDS SolarGate, TLAPS

\* The stop round visits connectors of chargers it has recorded.
RoundRecorded == round.pc = "stop" => \A k \in round.left : k[1] \in gateStopped

\* A connector stopped by the gate belongs to a recorded charger that is still
\* online: the ticks drop only chargers that went away from the record.
StoppedOnline == \A k \in Keys : halted[k] = "stopped" => k[1] \in online

GInv == TypeOK /\ StoppedIsRemembered /\ RoundRecorded /\ StoppedOnline

USE DEF solarGateStopTicks, solarGateStartTicks

\* The initial states satisfy the invariant.
LEMMA GInit == Init => GInv
BY DEF Init, GInv, TypeOK, StoppedIsRemembered, RoundRecorded, StoppedOnline, Resting

\* A command keeps the types of what it changes, and is carried out only by a
\* charger that is online.
LEMMA CommandStep ==
  ASSUME TypeOK, NEW k \in Keys, NEW what \in {"start", "stop"}, NEW out, Command(k, what, out)
  PROVE  /\ asked' \in [Keys -> {"nothing", "start", "stop"}]
         /\ locked' \subseteq Chargers
         /\ out \in Done => k[1] \in online
<1>1. k[1] \in Chargers
  BY DEF Keys
<1>. QED BY <1>1 DEF Command, Outcomes, Done, TypeOK

\* Every action preserves the invariant.
LEMMA GNext == GInv /\ [Next]_vars => GInv'
<1> SUFFICES ASSUME GInv, [Next]_vars PROVE GInv'
  OBVIOUS
<1>k. \A k \in Keys : k[1] \in Chargers
  BY DEF Keys
<1>. USE DEF GInv
<1>1. CASE UNCHANGED vars
  BY <1>1 DEF vars, switches, gate, TypeOK, StoppedIsRemembered, RoundRecorded, StoppedOnline
<1>2. CASE TickGateOff
  BY <1>2 DEF TickGateOff, switches, TypeOK, StoppedIsRemembered, RoundRecorded, StoppedOnline
<1>3. CASE TickNoSolar
  BY <1>3 DEF TickNoSolar, switches, gate, TypeOK, StoppedIsRemembered, RoundRecorded, StoppedOnline
<1>4. CASE TickLow
  <2>1. /\ gateStopped' = gateStopped \cap online
        /\ above' = 0 /\ below' = Counted(below, 3)
        /\ round' = round \/ round' = [pc |-> "stop", todo |-> online, left |-> {}]
        /\ round.pc = "idle"
        /\ UNCHANGED <<enabled, on, solar, online, override, session, locked, asked, halted>>
    BY <1>4 DEF TickLow, Tick, Start, switches
  <2>2. below' \in 0 .. 4
    BY <2>1 DEF Counted, TypeOK
  <2>3. passed' \in BOOLEAN
    BY <1>4 DEF TickLow
  <2>4. TypeOK'
    BY <2>1, <2>2, <2>3 DEF TypeOK
  <2>5. RoundRecorded'
    BY <2>1 DEF RoundRecorded
  <2>. QED BY <1>k, <2>1, <2>4, <2>5 DEF StoppedIsRemembered, StoppedOnline
<1>5. CASE TickHigh
  <2>1. /\ gateStopped' = gateStopped \cap online
        /\ below' = 0 /\ above' = Counted(above, 2)
        /\ round' = round \/ round' = [pc |-> "resume", todo |-> online, left |-> {}]
        /\ round.pc = "idle"
        /\ UNCHANGED <<enabled, on, solar, online, override, session, locked, asked, halted>>
    BY <1>5 DEF TickHigh, Tick, Start, switches
  <2>2. above' \in 0 .. 3
    BY <2>1 DEF Counted, TypeOK
  <2>3. passed' \in BOOLEAN
    BY <1>5 DEF TickHigh
  <2>4. TypeOK'
    BY <2>1, <2>2, <2>3 DEF TypeOK
  <2>5. RoundRecorded'
    BY <2>1 DEF RoundRecorded
  <2>. QED BY <1>k, <2>1, <2>4, <2>5 DEF StoppedIsRemembered, StoppedOnline
<1>6. ASSUME NEW c \in Chargers, StopCharger(c)
      PROVE  GInv'
  <2>1. /\ round.pc = "stop" /\ round.left = {}
        /\ round' = [round EXCEPT !.todo = @ \ {c},
                       !.left = IF c \in override \/ c \in gateStopped THEN {} ELSE {c} \X Connectors]
        /\ gateStopped' = IF c \in override \/ c \in gateStopped
                          THEN gateStopped ELSE gateStopped \cup {c}
        /\ UNCHANGED <<enabled, on, solar, online, override, session, below, above, locked,
                       asked, passed, halted>>
    BY <1>6 DEF StopCharger, switches
  <2>2. {c} \X Connectors \subseteq Keys /\ \A k \in {c} \X Connectors : k[1] = c
    BY DEF Keys
  <2>3. round' \in [pc : {"idle", "stop", "resume"}, todo : SUBSET Chargers, left : SUBSET Keys]
    BY <2>1, <2>2 DEF TypeOK
  <2>4. TypeOK'
    BY <2>1, <2>3 DEF TypeOK
  <2>5. round'.left = {} \/ (round'.left = {c} \X Connectors /\ c \in gateStopped')
    BY <2>1 DEF TypeOK
  <2>6. RoundRecorded'
    BY <2>2, <2>5 DEF RoundRecorded
  <2>. QED BY <2>1, <2>4, <2>6 DEF StoppedIsRemembered, StoppedOnline
<1>7. ASSUME NEW c \in Chargers, ResumeCharger(c)
      PROVE  GInv'
  <2> DEFINE tried == [k \in Keys |-> IF k[1] = c /\ c \in gateStopped /\ halted[k] = "stopped"
                                      THEN "tried" ELSE halted[k]]
  <2>1. /\ round.pc = "resume"
        /\ round' = [round EXCEPT !.todo = @ \ {c},
                       !.left = IF c \in gateStopped THEN {c} \X Connectors ELSE {}]
        /\ gateStopped' = gateStopped \ {c}
        /\ halted' = tried
        /\ UNCHANGED <<enabled, on, solar, online, override, session, below, above, locked,
                       asked, passed>>
    BY <1>7 DEF ResumeCharger, switches
  <2>2. {c} \X Connectors \subseteq Keys
    BY DEF Keys
  <2>3. round' \in [pc : {"idle", "stop", "resume"}, todo : SUBSET Chargers, left : SUBSET Keys]
        /\ round'.pc = "resume"
    BY <2>1, <2>2 DEF TypeOK
  <2>4. halted' \in [Keys -> {"no", "stopped", "tried"}]
    BY <2>1 DEF TypeOK
  <2>5. TypeOK'
    BY <2>1, <2>3, <2>4 DEF TypeOK
  <2>6. ASSUME NEW k \in Keys, halted'[k] = "stopped"
        PROVE  halted[k] = "stopped" /\ k[1] \in gateStopped'
    <3>1. halted[k] = "stopped" /\ ~(k[1] = c /\ c \in gateStopped)
      BY <2>1, <2>6
    <3>. QED BY <2>1, <3>1 DEF StoppedIsRemembered
  <2>. QED BY <2>1, <2>3, <2>5, <2>6 DEF StoppedIsRemembered, StoppedOnline, RoundRecorded
<1>8. ASSUME NEW k \in Keys, NEW out \in AllOutcomes, StopConnector(k, out)
      PROVE  GInv'
  <2>1. /\ round.pc = "stop" /\ k \in round.left
        /\ round' = [round EXCEPT !.left = @ \ {k}]
        /\ UNCHANGED <<enabled, on, solar, online, override, session, below, above,
                       gateStopped, passed>>
    BY <1>8 DEF StopConnector, switches
  <2>2. /\ asked' \in [Keys -> {"nothing", "start", "stop"}]
        /\ locked' \subseteq Chargers
        /\ halted' = halted \/ (halted' = [halted EXCEPT ![k] = "stopped"] /\ k[1] \in online)
    <3>1. CASE k \in session
      BY <1>8, <3>1, CommandStep DEF StopConnector
    <3>2. CASE k \notin session
      BY <1>8, <3>2 DEF StopConnector, TypeOK
    <3>. QED BY <3>1, <3>2
  <2>3. k[1] \in gateStopped
    BY <2>1 DEF RoundRecorded
  <2>4. /\ round' \in [pc : {"idle", "stop", "resume"}, todo : SUBSET Chargers, left : SUBSET Keys]
        /\ round'.left \subseteq round.left
    BY <2>1 DEF TypeOK
  <2>5. halted' \in [Keys -> {"no", "stopped", "tried"}]
    BY <2>2 DEF TypeOK
  <2>6. TypeOK'
    BY <2>1, <2>2, <2>4, <2>5 DEF TypeOK
  <2>7. RoundRecorded'
    BY <2>1, <2>4 DEF RoundRecorded
  <2>8. \A j \in Keys : halted'[j] = "stopped" => halted[j] = "stopped" \/ (j = k /\ k[1] \in online)
    BY <2>2 DEF TypeOK
  <2>. QED BY <2>1, <2>3, <2>6, <2>7, <2>8 DEF StoppedIsRemembered, StoppedOnline
<1>9. ASSUME NEW k \in Keys, NEW out \in AllOutcomes, ResumeConnector(k, out)
      PROVE  GInv'
  <2>1. /\ round.pc = "resume"
        /\ round' = [round EXCEPT !.left = @ \ {k}]
        /\ halted' = halted \/ halted' = [halted EXCEPT ![k] = "no"]
        /\ UNCHANGED <<enabled, on, solar, online, override, session, below, above,
                       gateStopped, passed>>
    BY <1>9 DEF ResumeConnector, switches
  <2>2. asked' \in [Keys -> {"nothing", "start", "stop"}] /\ locked' \subseteq Chargers
    BY <1>9, CommandStep DEF ResumeConnector
  <2>3. /\ round' \in [pc : {"idle", "stop", "resume"}, todo : SUBSET Chargers, left : SUBSET Keys]
        /\ round'.pc = "resume"
    BY <2>1 DEF TypeOK
  <2>4. /\ halted' \in [Keys -> {"no", "stopped", "tried"}]
        /\ \A j \in Keys : halted'[j] = "stopped" => halted[j] = "stopped"
    BY <2>1 DEF TypeOK
  <2>5. TypeOK'
    BY <2>1, <2>2, <2>3, <2>4 DEF TypeOK
  <2>. QED BY <2>1, <2>3, <2>4, <2>5 DEF StoppedIsRemembered, StoppedOnline, RoundRecorded
<1>10. CASE RoundEnds
  BY <1>10 DEF RoundEnds, Resting, switches, TypeOK, StoppedIsRemembered, RoundRecorded, StoppedOnline
<1>11. CASE HomeAssistant
  <2> SUFFICES ASSUME /\ TypeOK' /\ online' = online /\ gateStopped' = gateStopped /\ round' = round
                      /\ \A j \in Keys : halted'[j] = "stopped" => halted[j] = "stopped"
               PROVE  GInv'
    <3>1. ASSUME NEW k \in Keys, NEW out \in AllOutcomes, StartCharging(k, out)
          PROVE  TypeOK' /\ UNCHANGED <<online, gate, halted>>
      BY <3>1, CommandStep DEF StartCharging, switches, gate, TypeOK
    <3>2. ASSUME NEW k \in Keys, NEW out \in AllOutcomes, StopCharging(k, out)
          PROVE  /\ TypeOK' /\ UNCHANGED <<online, gate>>
                 /\ \A j \in Keys : halted'[j] = "stopped" => halted[j] = "stopped"
      <4>1. asked' \in [Keys -> {"nothing", "start", "stop"}] /\ locked' \subseteq Chargers
        BY <3>2, CommandStep DEF StopCharging
      <4>2. halted' = halted \/ halted' = [halted EXCEPT ![k] = "no"]
        BY <3>2 DEF StopCharging
      <4>3. /\ halted' \in [Keys -> {"no", "stopped", "tried"}]
            /\ \A j \in Keys : halted'[j] = "stopped" => halted[j] = "stopped"
        BY <4>2 DEF TypeOK
      <4>. QED BY <3>2, <4>1, <4>3 DEF StopCharging, switches, gate, TypeOK
    <3>3. ASSUME NEW c \in Chargers, NEW m \in BOOLEAN, SetChargingMode(c, m)
          PROVE  TypeOK' /\ UNCHANGED <<online, gate, halted>>
      BY <3>3 DEF SetChargingMode, switches, gate, TypeOK
    <3>4. ASSUME NEW b \in BOOLEAN, SetSmartCharging(b)
          PROVE  TypeOK' /\ UNCHANGED <<online, gate, halted>>
      BY <3>4 DEF SetSmartCharging, gate, TypeOK
    <3>5. ASSUME NEW b \in BOOLEAN, SetSolarThreshold(b)
          PROVE  TypeOK' /\ UNCHANGED <<online, gate, halted>>
      BY <3>5 DEF SetSolarThreshold, gate, TypeOK
    <3>. QED BY <1>11, <3>1, <3>2, <3>3, <3>4, <3>5 DEF HomeAssistant, gate
  <2>. QED BY DEF StoppedIsRemembered, RoundRecorded, StoppedOnline
<1>12. CASE World
  <2>1. ASSUME NEW w \in {"low", "high", "unavailable", "stale"}, Weather(w)
        PROVE  GInv'
    BY <2>1 DEF Weather, gate, TypeOK, StoppedIsRemembered, RoundRecorded, StoppedOnline
  <2>2. ASSUME NEW c \in Chargers, Connect(c)
        PROVE  GInv'
    BY <2>2 DEF Connect, switches, gate, TypeOK, StoppedIsRemembered, RoundRecorded, StoppedOnline
  <2>3. ASSUME NEW c \in Chargers, Disconnect(c)
        PROVE  GInv'
    <3>1. /\ online' = online \ {c} /\ override' = override \ {c}
          /\ halted' = [k \in Keys |-> IF k[1] = c THEN "no" ELSE halted[k]]
          /\ UNCHANGED <<enabled, on, solar, session, below, above, gateStopped, round,
                         locked, asked, passed>>
      BY <2>3 DEF Disconnect, switches, gate
    <3>2. halted' \in [Keys -> {"no", "stopped", "tried"}]
      BY <3>1 DEF TypeOK
    <3>3. TypeOK'
      BY <3>1, <3>2 DEF TypeOK
    <3>4. \A k \in Keys : halted'[k] = "stopped" => halted[k] = "stopped" /\ k[1] # c
      BY <3>1
    <3>. QED BY <3>1, <3>3, <3>4 DEF StoppedIsRemembered, RoundRecorded, StoppedOnline
  <2>4. ASSUME NEW c \in Chargers, CooldownEnds(c)
        PROVE  GInv'
    BY <2>4 DEF CooldownEnds, switches, gate, TypeOK, StoppedIsRemembered, RoundRecorded, StoppedOnline
  <2>5. ASSUME NEW k \in Keys, StartTransaction(k)
        PROVE  GInv'
    <3>1. /\ session' = session \cup {k}
          /\ asked' = [asked EXCEPT ![k] = "nothing"]
          /\ halted' = [halted EXCEPT ![k] = "no"]
          /\ UNCHANGED <<enabled, on, solar, online, override, below, above, gateStopped,
                         round, locked, passed>>
      BY <2>5 DEF StartTransaction, switches, gate
    <3>2. TypeOK'
      BY <3>1 DEF TypeOK
    <3>3. \A j \in Keys : halted'[j] = "stopped" => halted[j] = "stopped"
      BY <3>1 DEF TypeOK
    <3>. QED BY <3>1, <3>2, <3>3 DEF StoppedIsRemembered, RoundRecorded, StoppedOnline
  <2>6. ASSUME NEW k \in Keys, StopTransaction(k)
        PROVE  GInv'
    <3>1. /\ session' = session \ {k} /\ override' = override \ {k[1]}
          /\ asked' = [asked EXCEPT ![k] = "nothing"]
          /\ halted' = halted \/ halted' = [halted EXCEPT ![k] = "no"]
          /\ UNCHANGED <<enabled, on, solar, online, below, above, gateStopped, round,
                         locked, passed>>
      BY <2>6 DEF StopTransaction, switches, gate
    <3>2. TypeOK'
      BY <3>1 DEF TypeOK
    <3>3. \A j \in Keys : halted'[j] = "stopped" => halted[j] = "stopped"
      BY <3>1 DEF TypeOK
    <3>. QED BY <3>1, <3>2, <3>3 DEF StoppedIsRemembered, RoundRecorded, StoppedOnline
  <2>. QED BY <1>12, <2>1, <2>2, <2>3, <2>4, <2>5, <2>6 DEF World
<1>. QED
  BY <1>1, <1>2, <1>3, <1>4, <1>5, <1>6, <1>7, <1>8, <1>9, <1>10, <1>11, <1>12 DEF Next, Gate

\* The invariant holds throughout.
THEOREM GInvHolds == Spec => []GInv
BY GInit, GNext, PTL DEF Spec

\* Type correctness of the gate.
THEOREM GateTypeCorrect == Spec => []TypeOK
BY GInvHolds, PTL DEF GInv

\* No connector that the gate stopped drops out of gateStopped before the gate
\* tries to start it again.
THEOREM StoppedRemembered == Spec => []StoppedIsRemembered
BY GInvHolds, PTL DEF GInv
-----------------------------------------------------------------------------
(* One stop for each hold                                                  *)

\* What the stop round has still to stop was not stopped by the gate before.
NotYet == round.pc = "stop" => \A k \in round.left : halted[k] # "stopped"

\* LoadOrStore: the gate does not tell a connector to stop a second time before
\* it has tried to start it, however often production falls and whatever the
\* charger made of the first command.
StopsOnce ==
  [][\A k \in Keys, out \in AllOutcomes : StopConnector(k, out) => halted[k] # "stopped"]_vars

\* A charger whose connectors the round takes up was not recorded, so the gate
\* holds none of them.
LEMMA TakesUp ==
  ASSUME GInv, NEW c \in Chargers, StopCharger(c)
  PROVE  NotYet'
<1>1. /\ round' = [round EXCEPT !.todo = @ \ {c},
                     !.left = IF c \in override \/ c \in gateStopped THEN {} ELSE {c} \X Connectors]
      /\ halted' = halted
  BY DEF StopCharger
<1>2. round'.left = {} \/ (round'.left = {c} \X Connectors /\ c \notin gateStopped)
  BY <1>1 DEF GInv, TypeOK
<1>3. \A k \in {c} \X Connectors : k \in Keys /\ k[1] = c
  BY DEF Keys
<1>4. c \notin gateStopped => \A k \in {c} \X Connectors : halted[k] # "stopped"
  BY <1>3 DEF GInv, StoppedIsRemembered
<1>. QED BY <1>1, <1>2, <1>4 DEF NotYet

\* A connector that was told to stop leaves the round.
LEMMA StopsAndLeaves ==
  ASSUME GInv, NotYet, NEW k \in Keys, NEW out \in AllOutcomes, StopConnector(k, out)
  PROVE  NotYet'
<1>1. /\ round.pc = "stop" /\ round' = [round EXCEPT !.left = @ \ {k}]
      /\ halted' = halted \/ halted' = [halted EXCEPT ![k] = "stopped"]
  BY DEF StopConnector
<1>2. round'.left = round.left \ {k} /\ round.left \subseteq Keys
  BY <1>1 DEF GInv, TypeOK
<1>3. \A j \in Keys : j # k => halted'[j] = halted[j]
  BY <1>1 DEF GInv, TypeOK
<1>. QED BY <1>1, <1>2, <1>3 DEF NotYet

\* Nothing else stops a connector in the gate's name, or gives the round more.
LEMMA NotYetElse ==
  ASSUME GInv, NotYet,
         \A k \in Keys : halted'[k] = "stopped" => halted[k] = "stopped",
         \/ round' = round
         \/ round'.pc # "stop" \/ round'.left = {}
  PROVE  NotYet'
<1>1. round.left \subseteq Keys
  BY DEF GInv, TypeOK
<1>. QED BY <1>1 DEF NotYet

\* Every step keeps it.
LEMMA NotYetStep == GInv /\ NotYet /\ [Next]_vars => NotYet'
<1> SUFFICES ASSUME GInv, NotYet, [Next]_vars PROVE NotYet'
  OBVIOUS
<1>h. halted \in [Keys -> {"no", "stopped", "tried"}] /\ round.left \subseteq Keys
  BY DEF GInv, TypeOK
<1>1. ASSUME NEW c \in Chargers, StopCharger(c) PROVE NotYet'
  BY <1>1, TakesUp
<1>2. ASSUME NEW k \in Keys, NEW out \in AllOutcomes, StopConnector(k, out) PROVE NotYet'
  BY <1>2, StopsAndLeaves
<1>3. CASE \/ UNCHANGED vars \/ TickGateOff \/ TickNoSolar \/ TickLow \/ TickHigh \/ RoundEnds
  <2>1. halted' = halted
    BY <1>3 DEF vars, TickGateOff, TickNoSolar, TickLow, TickHigh, RoundEnds
  <2>2. round' = round \/ round'.left = {}
    BY <1>3 DEF vars, gate, TickGateOff, TickNoSolar, TickLow, TickHigh, RoundEnds, Start, Resting
  <2>. QED BY <2>1, <2>2, NotYetElse
<1>4. ASSUME NEW c \in Chargers, ResumeCharger(c) PROVE NotYet'
  <2>1. /\ round.pc = "resume" /\ round'.pc = round.pc
        /\ halted' = [k \in Keys |-> IF k[1] = c /\ c \in gateStopped /\ halted[k] = "stopped"
                                     THEN "tried" ELSE halted[k]]
    BY <1>4 DEF ResumeCharger, GInv, TypeOK
  <2>. QED BY <2>1, NotYetElse
<1>5. ASSUME NEW k \in Keys, NEW out \in AllOutcomes, ResumeConnector(k, out) PROVE NotYet'
  <2>1. /\ round.pc = "resume" /\ round'.pc = round.pc
        /\ halted' = halted \/ halted' = [halted EXCEPT ![k] = "no"]
    BY <1>5 DEF ResumeConnector, GInv, TypeOK
  <2>. QED BY <1>h, <2>1, NotYetElse
<1>6. CASE HomeAssistant
  <2>1. round' = round /\ (halted' = halted \/ \E k \in Keys : halted' = [halted EXCEPT ![k] = "no"])
    BY <1>6 DEF HomeAssistant, StartCharging, StopCharging, SetChargingMode, SetSmartCharging,
       SetSolarThreshold, gate
  <2>. QED BY <1>h, <2>1, NotYetElse
<1>7. CASE World
  <2>1. /\ round' = round
        /\ \/ halted' = halted \/ \E k \in Keys : halted' = [halted EXCEPT ![k] = "no"]
           \/ \E c \in Chargers : halted' = [k \in Keys |-> IF k[1] = c THEN "no" ELSE halted[k]]
    BY <1>7 DEF World, Weather, Connect, Disconnect, CooldownEnds, StartTransaction,
       StopTransaction, gate
  <2>. QED BY <1>h, <2>1, NotYetElse
<1>. QED BY <1>1, <1>2, <1>3, <1>4, <1>5, <1>6, <1>7 DEF Next, Gate

\* Between two stops that the gate asks of a connector lies a try to start it.
THEOREM OneStopForEachHold == Spec => StopsOnce
<1>1. Init => NotYet
  BY DEF Init, Resting, NotYet
<1>2. NotYet => \A k \in Keys, out \in AllOutcomes : StopConnector(k, out) => halted[k] # "stopped"
  BY DEF NotYet, StopConnector
<1>. QED BY <1>1, <1>2, GInvHolds, NotYetStep, PTL DEF Spec, StopsOnce
=============================================================================
