-------------------------------- MODULE Policy --------------------------------
(***************************************************************************)
(* Which messages the vendor's cloud may see: internal/domain/proxy/       *)
(* policy.go.  A policy maps the actions of each direction to a decision.  *)
(* Names of actions are plain strings; those that the tables treat alike   *)
(* stand together.                                                         *)
(***************************************************************************)

Decisions == {"local_only", "upstream_only", "both", "drop"}

ShouldForward(decision) == decision \in {"upstream_only", "both"}

InboundBoth == {"BootNotification", "Heartbeat", "StartTransaction",
                "StopTransaction", "StatusNotification", "MeterValues"}
InboundUpstream == {"Authorize", "DataTransfer", "FirmwareStatusNotification",
                    "DiagnosticsStatusNotification"}

OutboundLocal == {"SetChargingProfile", "ClearChargingProfile"}
OutboundBoth == {"RemoteStartTransaction", "RemoteStopTransaction", "TriggerMessage",
                 "GetConfiguration", "ChangeConfiguration", "Reset",
                 "UnlockConnector", "GetLog", "GetDiagnostics"}
OutboundUpstream == {"ReserveNow", "CancelReservation", "UpdateFirmware", "ClearCache"}

DefaultPolicy ==
  [inbound  |-> [a \in InboundBoth \cup InboundUpstream |->
                   IF a \in InboundBoth THEN "both" ELSE "upstream_only"],
   outbound |-> [a \in OutboundLocal \cup OutboundBoth \cup OutboundUpstream |->
                   IF a \in OutboundLocal THEN "local_only"
                   ELSE IF a \in OutboundBoth THEN "both" ELSE "upstream_only"]]

\* Actions that no table names stay in the house.
Decide(policy, dir, action) ==
  IF action \in DOMAIN policy[dir] THEN policy[dir][action] ELSE "local_only"

\* The override of a charger replaces the decision where the action is known,
\* inbound first; an unknown one is taken for inbound.
Overlay(table, over) ==
  [a \in DOMAIN table \cup DOMAIN over |-> IF a \in DOMAIN over THEN over[a] ELSE table[a]]

Outbound(policy, actions) ==
  {a \in actions : a \notin DOMAIN policy.inbound /\ a \in DOMAIN policy.outbound}

\* Mutant of Merge: the overrides are left aside.
MergeIgnores(policy, overrides) == policy

Merge(policy, overrides) ==
  LET out == Outbound(policy, DOMAIN overrides)
      only(actions) == [a \in actions |-> overrides[a]]
  IN [inbound  |-> Overlay(policy.inbound, only(DOMAIN overrides \ out)),
      outbound |-> Overlay(policy.outbound, only(out))]
=============================================================================
