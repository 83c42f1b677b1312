--------------------------- MODULE ChargeControl ----------------------------
(***************************************************************************)
(* The control loop of internal/adapter/outbound/ocpp/controller.go with   *)
(* what runs beside it: the MQTT command handler (cmdBridge in             *)
(* internal/csms/csms.go), the OCPP handler goroutines that serve the      *)
(* chargers, the WebUI that hot-applies charging parameters, and the       *)
(* chargers themselves.                                                    *)
(*                                                                         *)
(* The controller is one goroutine.  A tick reads the repositories into    *)
(* copies, then visits charger after charger and connector after           *)
(* connector, and blocks up to 15 s in each SetChargingProfile: every such *)
(* read and every command is a step of its own here, so that the other     *)
(* goroutines run between them.  The solar gate is off (threshold 0); the  *)
(* module SolarGate models it.                                             *)
(*                                                                         *)
(* ocpp-go keeps one outstanding request per charger and sends them in     *)
(* order, so a request that the commander gave up on is never applied      *)
(* after a later one: what may happen to a request is decided in one step. *)
(***************************************************************************)
EXTENDS ChargeMath, FiniteSets

CONSTANTS
  Chargers,           \* charger IDs
  Connectors,         \* connector IDs of a charger, without connector 0
  Samples,            \* the meter samples the energy source can deliver
  Configs,            \* records [min, max, safe]: charging parameters
  UserAmps,           \* currents a user sets from Home Assistant
  FactoryAmps,        \* what a charger offers before any profile
  \* What the environment does, besides charging and being commanded:
  AnswersGetLost,     \* a profile is applied but its confirmation is lost
  TxProfileRefused,   \* a charger may refuse to modify a running transaction
  ProfilesForgotten   \* a charger comes back from a disconnect without profiles

ASSUME ControlAssumption ==
  /\ Samples # {} /\ Samples \subseteq Sample
  /\ \A c \in Configs : /\ c.min \in Nat /\ c.max \in Nat /\ c.safe \in Nat
                        /\ c.min <= c.max
  /\ Configs # {}
  /\ UserAmps \subseteq Nat /\ FactoryAmps \in Nat
  /\ {AnswersGetLost, TxProfileRefused, ProfilesForgotten} \subseteq BOOLEAN

Keys == Chargers \X Connectors        \* "<chargerID>:<connectorID>"
Unset == -1

VARIABLES
  \* Repositories, as the OCPP handlers keep them
  online,         \* chargers marked online
  charging,       \* connectors whose status is Charging or SuspendedEVSE
  tx,             \* connectors with an active session
  \* Energy source
  stale,          \* no fresh energy data
  \* Controller and calculator
  enabled, override, safeAmps, limits, memory, lastSet,
  ctl,            \* where the controller goroutine is in its tick
  \* The two other goroutines with a step to finish
  man,            \* the MQTT handler, in applyAmps
  webui,          \* the WebUI, in UpdateCharging
  \* External: the chargers
  txDefault,      \* limit of the TxDefaultProfile a connector holds
  txProfile,      \* limit of the TxProfile of its running transaction
  \* History
  lowTicks        \* per charger, consecutive ticks that found it short of surplus

repos   == <<online, charging, tx>>
control == <<enabled, override, safeAmps, limits, memory, lastSet>>
devices == <<txDefault, txProfile>>
vars    == <<repos, stale, control, ctl, man, webui, devices, lowTicks>>

NoKey == <<>>
NoConfig == [min |-> Unset, max |-> Unset, safe |-> Unset]

\* The controller: `mode` is what this tick does, `todo` the chargers of the
\* copied list still to visit, `left` the connectors of the current one, `key`
\* and `amps` the command being sent.  The MQTT handler: `for` is the charger
\* of the command, `left` the connectors still to command, `sent` whether one
\* of them took it.
CtlIdle == [pc |-> "idle", mode |-> "none", todo |-> {}, left |-> {},
            key |-> NoKey, amps |-> Unset, sample |-> CHOOSE s \in Samples : TRUE]
ManIdle == [pc |-> "idle", for |-> {}, left |-> {}, key |-> NoKey, amps |-> Unset,
            sent |-> FALSE]

Init ==
  /\ online = {} /\ charging = {} /\ tx = {}
  /\ stale = TRUE
  /\ enabled = TRUE /\ override = {}
  /\ \E c \in Configs : limits = [min |-> c.min, max |-> c.max] /\ safeAmps = c.min
  /\ memory = [c \in Chargers |-> FreshMemory]
  /\ lastSet = [k \in Keys |-> Unset]
  /\ ctl = CtlIdle /\ man = ManIdle /\ webui = NoConfig
  /\ txDefault = [k \in Keys |-> Unset]
  /\ txProfile = [k \in Keys |-> Unset]
  /\ lowTicks = [c \in Chargers |-> 0]

\* The limit a charger enforces on a connector.
Effective(k) == IF txProfile[k] # Unset THEN txProfile[k]
                ELSE IF txDefault[k] # Unset THEN txDefault[k] ELSE FactoryAmps

-----------------------------------------------------------------------------
(***************************************************************************)
(* Commander.SetChargingProfile: a TxDefaultProfile, whose failure is an   *)
(* error, then, for a connector with an active session, a TxProfile whose  *)
(* failure is only logged.                                                 *)
(***************************************************************************)
DefaultOutcomes(k) ==
  {"failed"} \cup (IF k[1] \in online THEN {"ok"} ELSE {})
             \cup (IF AnswersGetLost /\ k[1] \in online THEN {"lost"} ELSE {})

TxOutcomes(k) ==
  (IF k[1] \in online THEN {"ok"} ELSE {"failed"})
  \cup (IF TxProfileRefused THEN {"failed"} ELSE {})

SendDefault(k, amps, out) ==
  /\ out \in DefaultOutcomes(k)
  /\ txDefault' = IF out = "failed" THEN txDefault ELSE [txDefault EXCEPT ![k] = amps]
  /\ UNCHANGED txProfile

SendTx(k, amps) ==
  /\ k \in tx
  /\ \E out \in TxOutcomes(k) :
       txProfile' = IF out = "failed" THEN txProfile ELSE [txProfile EXCEPT ![k] = amps]
  /\ UNCHANGED txDefault

-----------------------------------------------------------------------------
(* The controller goroutine.                                               *)

TickBegin ==
  /\ ctl.pc = "idle" /\ enabled
  /\ \E s \in Samples :
       ctl' = [CtlIdle EXCEPT !.pc = "chargers", !.todo = online,
                 !.mode = IF stale THEN "revert" ELSE "adjust",
                 !.amps = IF stale THEN safeAmps ELSE Unset,
                 !.sample = IF stale THEN @ ELSE s]
  /\ UNCHANGED <<repos, stale, control, man, webui, devices, lowTicks>>

\* Mutants of EnterCharger: the stale revert skips overridden chargers too, and
\* no tick skips one.
EnterChargerBothSkip(c) ==
  /\ ctl.pc = "chargers" /\ c \in ctl.todo
  /\ LET here == {k \in charging : k[1] = c /\ c \notin override}
     IN ctl' = [ctl EXCEPT !.todo = @ \ {c}, !.left = here,
                  !.pc = IF here = {} THEN "chargers" ELSE "connectors"]
  /\ UNCHANGED <<repos, stale, control, man, webui, devices, lowTicks>>
EnterChargerNoSkip(c) ==
  /\ ctl.pc = "chargers" /\ c \in ctl.todo
  /\ LET here == {k \in charging : k[1] = c}
     IN ctl' = [ctl EXCEPT !.todo = @ \ {c}, !.left = here,
                  !.pc = IF here = {} THEN "chargers" ELSE "connectors"]
  /\ UNCHANGED <<repos, stale, control, man, webui, devices, lowTicks>>

\* processCharger skips a charger under manual override; the stale revert does not.
EnterCharger(c) ==
  /\ ctl.pc = "chargers" /\ c \in ctl.todo
  /\ LET skip == ctl.mode = "adjust" /\ c \in override
         here == {k \in charging : k[1] = c /\ ~skip}
     IN /\ ctl' = [ctl EXCEPT !.todo = @ \ {c}, !.left = here,
                     !.pc = IF here = {} THEN "chargers" ELSE "connectors"]
        /\ lowTicks' = [lowTicks EXCEPT ![c] =
             IF ctl.mode # "adjust" \/ here = {} THEN @
             ELSE IF WouldStop(ctl.sample, limits) THEN IF @ < 3 THEN @ + 1 ELSE @ ELSE 0]
  /\ UNCHANGED <<repos, stale, control, man, webui, devices>>

TickEnd ==
  /\ ctl.pc = "chargers" /\ ctl.todo = {}
  /\ ctl' = CtlIdle
  /\ UNCHANGED <<repos, stale, control, man, webui, devices, lowTicks>>

\* The controller is done with connector k, and the state of its tick is t.
Leaving(t, k) ==
  [t EXCEPT !.left = @ \ {k}, !.key = NoKey,
            !.pc = IF t.left = {k} THEN "chargers" ELSE "connectors",
            !.amps = IF t.mode = "revert" THEN @ ELSE Unset]

\* A connector that already has the limit, as far as lastSetAmps knows, is left
\* alone; any other is sent the profile.
SendUnlessCached(k, amps) ==
  ctl' = IF lastSet[k] = amps THEN Leaving(ctl, k)
         ELSE [ctl EXCEPT !.pc = "default", !.key = k, !.amps = amps]

\* processConnector: Compute for the charger, then the command.
Adjust(k) ==
  /\ ctl.pc = "connectors" /\ ctl.mode = "adjust" /\ k \in ctl.left
  /\ LET new == Computed(memory[k[1]], ctl.sample, limits)
     IN /\ memory' = [memory EXCEPT ![k[1]] = new]
        /\ SendUnlessCached(k, IF new.isStopped THEN safeAmps ELSE new.last)
  /\ UNCHANGED <<repos, stale, enabled, override, safeAmps, limits, lastSet,
                 man, webui, devices, lowTicks>>

Revert(k) ==
  /\ ctl.pc = "connectors" /\ ctl.mode = "revert" /\ k \in ctl.left
  /\ SendUnlessCached(k, ctl.amps)
  /\ UNCHANGED <<repos, stale, control, man, webui, devices, lowTicks>>

\* Mutant of ControllerDefault: lastSetAmps is stored whatever the answer.
ControllerDefaultStores(out) ==
  /\ ctl.pc = "default"
  /\ SendDefault(ctl.key, ctl.amps, out)
  /\ ctl' = Leaving(ctl, ctl.key)
  /\ lastSet' = [lastSet EXCEPT ![ctl.key] = ctl.amps]
  /\ UNCHANGED <<repos, stale, enabled, override, safeAmps, limits, memory,
                 man, webui, lowTicks>>

\* The default profile is answered: an error leaves lastSetAmps alone, success
\* stores it, after the TxProfile when a session is active.
ControllerDefault(out) ==
  /\ ctl.pc = "default"
  /\ LET k == ctl.key
     IN /\ SendDefault(k, ctl.amps, out)
        /\ IF out = "ok" /\ k \in tx
           THEN ctl' = [ctl EXCEPT !.pc = "tx"] /\ UNCHANGED lastSet
           ELSE /\ ctl' = Leaving(ctl, k)
                /\ lastSet' = IF out = "ok" THEN [lastSet EXCEPT ![k] = ctl.amps] ELSE lastSet
  /\ UNCHANGED <<repos, stale, enabled, override, safeAmps, limits, memory,
                 man, webui, lowTicks>>

ControllerTx ==
  /\ ctl.pc = "tx"
  /\ IF ctl.key \in tx THEN SendTx(ctl.key, ctl.amps) ELSE UNCHANGED devices
  /\ lastSet' = [lastSet EXCEPT ![ctl.key] = ctl.amps]
  /\ ctl' = Leaving(ctl, ctl.key)
  /\ UNCHANGED <<repos, stale, enabled, override, safeAmps, limits, memory,
                 man, webui, lowTicks>>

Controller ==
  \/ TickBegin \/ TickEnd
  \/ \E c \in Chargers : EnterCharger(c)
  \/ \E k \in Keys : Adjust(k) \/ Revert(k)
  \/ \E out \in {"ok", "lost", "failed"} : ControllerDefault(out)
  \/ ControllerTx

-----------------------------------------------------------------------------
(* The MQTT handler goroutine: cmdBridge.                                  *)

\* OnSetAmps: applyAmps commands every connector of the charger and then, if
\* one of them took it, sets the manual override.  No amount is refused.
SetAmps(c, amps) ==
  /\ man.pc = "idle"
  /\ man' = [ManIdle EXCEPT !.pc = "connectors", !.for = {c}, !.left = {c} \X Connectors,
                          !.amps = amps]
  /\ UNCHANGED <<repos, stale, control, ctl, webui, devices, lowTicks>>

ManualDefault(k, out) ==
  /\ man.pc = "connectors" /\ k \in man.left
  /\ SendDefault(k, man.amps, out)
  /\ LET toTx == out = "ok" /\ k \in tx
     IN man' = [man EXCEPT !.sent = @ \/ out = "ok", !.left = @ \ {k},
                  !.key = IF toTx THEN k ELSE NoKey,
                  !.pc = IF toTx THEN "tx" ELSE "connectors"]
  /\ UNCHANGED <<repos, stale, control, ctl, webui, lowTicks>>

ManualTx ==
  /\ man.pc = "tx"
  /\ IF man.key \in tx THEN SendTx(man.key, man.amps) ELSE UNCHANGED devices
  /\ man' = [man EXCEPT !.pc = "connectors", !.key = NoKey]
  /\ UNCHANGED <<repos, stale, control, ctl, webui, lowTicks>>

ManualEnd ==
  /\ man.pc = "connectors" /\ man.left = {}
  /\ man' = ManIdle
  /\ override' = IF man.sent THEN override \cup man.for ELSE override
  /\ UNCHANGED <<repos, stale, enabled, safeAmps, limits, memory, lastSet, ctl,
                 webui, devices, lowTicks>>

\* OnSetSmartCharging: enabling clears every override.
SetSmartCharging(on) ==
  /\ man.pc = "idle"
  /\ enabled' = on
  /\ override' = IF on THEN {} ELSE override
  /\ UNCHANGED <<repos, stale, safeAmps, limits, memory, lastSet, ctl, man,
                 webui, devices, lowTicks>>

SetChargingMode(c, manual) ==
  /\ man.pc = "idle"
  /\ override' = IF manual THEN override \cup {c} ELSE override \ {c}
  /\ UNCHANGED <<repos, stale, enabled, safeAmps, limits, memory, lastSet, ctl,
                 man, webui, devices, lowTicks>>

-----------------------------------------------------------------------------
(* The WebUI: UpdateCharging sets the limits, then the safe amps.          *)

\* Mutant of UpdateLimits: the arguments of SetLimits swapped.
UpdateLimitsSwapped(c) ==
  /\ webui = NoConfig
  /\ limits' = [min |-> c.max, max |-> c.min]
  /\ webui' = c
  /\ UNCHANGED <<repos, stale, enabled, override, safeAmps, memory, lastSet,
                 ctl, man, devices, lowTicks>>

UpdateLimits(c) ==
  /\ webui = NoConfig
  /\ limits' = [min |-> c.min, max |-> c.max]
  /\ webui' = c
  /\ UNCHANGED <<repos, stale, enabled, override, safeAmps, memory, lastSet,
                 ctl, man, devices, lowTicks>>

UpdateSafeAmps ==
  /\ webui # NoConfig
  /\ safeAmps' = webui.safe
  /\ webui' = NoConfig
  /\ UNCHANGED <<repos, stale, enabled, override, limits, memory, lastSet, ctl,
                 man, devices, lowTicks>>

-----------------------------------------------------------------------------
(* Chargers, their OCPP handlers, and the energy source.                   *)

Connect(c) ==
  /\ c \notin online
  /\ online' = online \cup {c}
  /\ UNCHANGED <<charging, tx, stale, control, ctl, man, webui, devices, lowTicks>>

\* OnDisconnect clears the override; sessions and connectors stay recorded.
Disconnect(c) ==
  /\ c \in online
  /\ online' = online \ {c}
  /\ override' = override \ {c}
  /\ \/ UNCHANGED devices
     \/ /\ ProfilesForgotten
        /\ txDefault' = [k \in Keys |-> IF k[1] = c THEN Unset ELSE txDefault[k]]
        /\ txProfile' = [k \in Keys |-> IF k[1] = c THEN Unset ELSE txProfile[k]]
  /\ UNCHANGED <<charging, tx, stale, enabled, safeAmps, limits, memory, lastSet,
                 ctl, man, webui, lowTicks>>

StatusNotification(k) ==
  /\ k[1] \in online
  /\ charging' = IF k \in charging THEN charging \ {k} ELSE charging \cup {k}
  /\ UNCHANGED <<online, tx, stale, control, ctl, man, webui, devices, lowTicks>>

StartTransaction(k) ==
  /\ k[1] \in online /\ k \notin tx
  /\ tx' = tx \cup {k}
  /\ UNCHANGED <<online, charging, stale, control, ctl, man, webui, devices, lowTicks>>

\* A TxProfile ends with its transaction; OnStopTransaction clears the override.
StopTransaction(k) ==
  /\ k[1] \in online /\ k \in tx
  /\ tx' = tx \ {k}
  /\ txProfile' = [txProfile EXCEPT ![k] = Unset]
  /\ override' = override \ {k[1]}
  /\ UNCHANGED <<online, charging, stale, enabled, safeAmps, limits, memory,
                 lastSet, ctl, man, webui, txDefault, lowTicks>>

EnergyData ==
  /\ stale' = ~stale
  /\ UNCHANGED <<repos, control, ctl, man, webui, devices, lowTicks>>

-----------------------------------------------------------------------------
Manual ==
  \/ \E c \in Chargers, a \in UserAmps : SetAmps(c, a)
  \/ \E k \in Keys, out \in {"ok", "lost", "failed"} : ManualDefault(k, out)
  \/ ManualTx
  \/ ManualEnd

Toggles ==
  \/ \E on \in BOOLEAN : SetSmartCharging(on)
  \/ \E c \in Chargers, m \in BOOLEAN : SetChargingMode(c, m)

WebUI == UpdateSafeAmps \/ \E c \in Configs : UpdateLimits(c)

Environment ==
  \/ EnergyData
  \/ \E c \in Chargers : Connect(c) \/ Disconnect(c)
  \/ \E k \in Keys : StatusNotification(k) \/ StartTransaction(k) \/ StopTransaction(k)

Next == Controller \/ Manual \/ Toggles \/ WebUI \/ Environment

Spec == Init /\ [][Next]_vars

(***************************************************************************)
(* The goroutines of the program go on, and a charger that is commanded    *)
(* again and again while it is online takes a default profile now and      *)
(* then.  Nothing is assumed of users, of data, or of what chargers do.    *)
(***************************************************************************)
FairSpec ==
  /\ Spec
  /\ WF_vars(Controller)
  /\ WF_vars(Manual /\ man.pc # "idle")
  /\ WF_vars(UpdateSafeAmps)
  /\ \A k \in Keys : SF_vars(ctl.key = k /\ ControllerDefault("ok"))

-----------------------------------------------------------------------------
(* Properties *)

CtlState ==
  [pc : {"idle", "chargers", "connectors", "default", "tx"},
   mode : {"none", "adjust", "revert"}, todo : SUBSET Chargers, left : SUBSET Keys,
   key : Keys \cup {NoKey}, amps : Nat \cup {Unset}, sample : Samples]

ManState ==
  [pc : {"idle", "connectors", "tx"}, for : SUBSET Chargers, left : SUBSET Keys,
   key : Keys \cup {NoKey}, amps : UserAmps \cup {Unset}, sent : BOOLEAN]

\* The type invariant of the control loop.
TypeOK ==
  /\ online \subseteq Chargers /\ override \subseteq Chargers
  /\ charging \subseteq Keys /\ tx \subseteq Keys
  /\ {stale, enabled} \subseteq BOOLEAN
  /\ safeAmps \in Nat /\ limits \in Bounds
  /\ memory \in [Chargers -> Memory]
  /\ {lastSet, txDefault, txProfile} \subseteq [Keys -> Nat \cup {Unset}]
  /\ ctl \in CtlState /\ man \in ManState
  /\ webui \in Configs \cup {NoConfig}
  /\ lowTicks \in [Chargers -> 0 .. StopConfirmTicks]

\* processConnector and revertAllToSafe send nothing when lastSetAmps already
\* says so: between commands, the default profile a connector holds is the one
\* lastSetAmps records, through aborted commands, disconnects and new limits.
CacheCoherent ==
  \A k \in Keys : lastSet[k] # Unset /\ ctl.key # k => txDefault[k] = lastSet[k]

\* Compute's debouncer ("3 consecutive below-threshold ticks to stop"): a
\* charger stops only when three visits in a row found it short of surplus.
ThreeTicksToStop ==
  [][\A c \in Chargers : ~memory[c].isStopped /\ memory'[c].isStopped
                          => lowTicks[c] >= StopConfirmTicks]_vars

\* The data is stale for good, and connector k of an online charger charges.
StaleForGood(k, a) ==
  <>[](stale /\ enabled /\ k[1] \in online /\ k \in charging /\ safeAmps = a)

\* revertAllToSafe: with no data, the default limit of every charging connector
\* comes down to the safe current and stays there, whatever failed before.
DefaultComesDown ==
  \A k \in Keys : \A c \in Configs : \A a \in {c.min, c.safe} :
    StaleForGood(k, a) => <>[](txDefault[k] = a)

\* docs/home-assistant.md:278, "If no grid data for 60s, controller reverts to
\* 6A (safe state)": with no data, the current every charging connector may
\* draw comes down to the safe one.
StaleReverts ==
  \A k \in Keys : \A c \in Configs : \A a \in {c.min, c.safe} :
    StaleForGood(k, a) => <>[](Effective(k) <= a)

\* SetManualOverride, "the smart-charging controller will skip this charger":
\* once an override stays, the controller leaves the charger's limit alone but
\* for the tick that was under way.
OverrideSettles ==
  \A k \in Keys :
    <>[](k[1] \in override /\ k[1] \in online /\ ~stale /\ man.pc = "idle")
      => <>[][txDefault'[k] = txDefault[k]]_<<txDefault, ctl>>
=============================================================================
