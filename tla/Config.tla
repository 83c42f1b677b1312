------------------------------- MODULE Config --------------------------------
(***************************************************************************)
(* The configuration of internal/config as a function of its fields: what  *)
(* a file and the environment make together (config.go), which values are  *)
(* accepted, which fields the environment hides from the WebUI             *)
(* (effective.go), and how disruptive a change is (reload.go).             *)
(*                                                                         *)
(* "cooldown" is contactor_cooldown_sec, "safe" default_amps, the current  *)
(* the controller falls back to.  One field stands for all that the code   *)
(* treats alike: "broker" for the fields that need a rebuild, "listen" for *)
(* those that need a new process, "energy" for energy.hass.*, which the    *)
(* form does not offer.                                                    *)
(***************************************************************************)
EXTENDS Integers

CONSTANTS
  KnownLevels,   \* log levels SetLogLevel accepts
  DefaultLevel,  \* what parseLogLevel makes of any other
  BuiltCooldown, \* the cooldown of a new Commander
  Unusable       \* values of "broker" and "listen" that validate refuses: a port
                 \* out of range, an unknown log format, an address without token

ASSUME ConfigAssumption ==
  /\ DefaultLevel \in KnownLevels /\ KnownLevels \subseteq Nat
  /\ BuiltCooldown \in Nat
  /\ Unusable \subseteq Nat

Fields == {"min", "max", "cooldown", "safe", "level", "broker", "listen", "energy"}

NoEnv  == -1     \* the variable is not set
Absent == 0      \* no energy entity

Configs == [Fields -> Nat]
Envs    == [Fields -> Nat \cup {NoEnv}]

\* validate
Valid(c) ==
  /\ c["min"] >= 6 /\ c["max"] <= 32 /\ c["min"] <= c["max"]
  /\ c["broker"] \notin Unusable /\ c["listen"] \notin Unusable

\* Load: the file, overlaid with the environment.
Effective(file, env) ==
  [f \in Fields |-> IF env[f] # NoEnv THEN env[f] ELSE file[f]]

\* diffKeys finds the fields that the environment changes; energy is not compared.
OverriddenByEnv(file, env) ==
  {f \in Fields \ {"energy"} : Effective(file, env)[f] # file[f]}

\* cloneConfig and applyFormValues: `form` maps the submitted fields to their
\* values.  The clone has no energy section.
Candidate(current, form) ==
  [f \in Fields |-> IF f = "energy" THEN Absent
                    ELSE IF f \in DOMAIN form THEN form[f] ELSE current[f]]

ApplyNone == 0
ApplyHot == 1
ApplyRebuild == 2
ApplyProcessRestart == 3

\* Mutant of ApplyClass: a new broker is taken for a hot change.
ApplyClassBrokerHot(f) ==
  CASE f \in {"min", "max", "cooldown", "safe", "level", "broker"} -> ApplyHot
    [] f = "listen" -> ApplyProcessRestart
    [] OTHER -> ApplyNone

ApplyClass(f) ==
  CASE f \in {"min", "max", "cooldown", "safe", "level"} -> ApplyHot
    [] f = "broker" -> ApplyRebuild
    [] f = "listen" -> ApplyProcessRestart
    [] OTHER -> ApplyNone

\* ClassifyChanges: the most disruptive of the changes.
Class(old, new) ==
  LET classes == {ApplyNone} \cup {ApplyClass(f) : f \in {g \in Fields : old[g] # new[g]}}
  IN CHOOSE c \in classes : \A d \in classes : d <= c

\* What a new facade runs with: New gives the commander its default cooldown
\* and the controller the minimum for its safe current, and takes an unknown
\* log level for info.
Built(c) ==
  [c EXCEPT !["cooldown"] = BuiltCooldown,
            !["safe"] = c["min"],
            !["level"] = IF c["level"] \in KnownLevels THEN c["level"] ELSE DefaultLevel]
=============================================================================
