----------------------------- MODULE ConfigApply ------------------------------
(***************************************************************************)
(* Saving the configuration from the WebUI, with the process around it:    *)
(* handlePostConfig of internal/adapter/inbound/webui/server.go, the       *)
(* atomic write of internal/config/writer.go, the applier of               *)
(* cmd/panya-charge-oss/applier.go and main.go, and the life of the facade *)
(* it stops and builds (internal/csms/csms.go).                            *)
(*                                                                         *)
(* The handler holds Server.mu for the whole request, so one request is at *)
(* work at a time; each of its calls is a step, between which sessions     *)
(* begin and end, facades start, subscribers come and go, and the process  *)
(* may be killed.  A request that is refused (an unreadable file, a field  *)
(* that the environment overrides, an invalid candidate) or that finds     *)
(* nothing to do changes nothing and is left out.                          *)
(***************************************************************************)
EXTENDS Config

CONSTANTS
  Files, Environments,   \* what the process may find when it is first started
  Forms,                 \* what a form may set: functions from some Fields
  MaxPosts,              \* bound: requests that are accepted
  MaxCrashes,            \* bound: times the process is killed
  MaxSubscribers         \* bound: subscribers of a facade at a time

ASSUME ApplyAssumption ==
  /\ Files \subseteq Configs /\ Environments \subseteq Envs
  /\ \A file \in Files : Valid(file)
  /\ \A form \in Forms : DOMAIN form \subseteq Fields \ {"energy"}
                         /\ \A f \in DOMAIN form : form[f] \in Nat
  /\ {MaxPosts, MaxCrashes, MaxSubscribers} \subseteq Nat

\* Every accepted request builds a facade at most, and so does every start.
Facades == 1 .. MaxPosts + MaxCrashes + 1
NoFacade == 0

VARIABLES
  stored,     \* the configuration file
  bak,        \* its .bak copy
  env,        \* the environment of the process
  facades,    \* the facades of this process: phase and running configuration
  current,    \* the applier's facade; NoFacade while the process is down
  confirm,    \* a confirmation is pending
  post,       \* the request at work: the configurations it compares, its step
  tx, known,  \* a car charges; the current facade has its session on record
  listed,     \* the current facade has the car's connector on record
  subs,       \* subscribers of the current facade
  posts, crashes,
  \* History
  behind,     \* some change was saved and not applied, or applied and not saved
  begun       \* HasActiveSession would find a session, and did not when asked

disk    == <<stored, bak, env>>
process == <<facades, current, confirm>>
cars    == <<tx, known, listed, begun>>
bounds  == <<posts, crashes>>
vars    == <<disk, process, post, cars, subs, bounds, behind>>

NoBackup == <<>>
Nothing == [f \in Fields |-> Absent]
Idle == [pc |-> "idle", old |-> Nothing, cand |-> Nothing]
NotBuilt == [phase |-> "none", runs |-> Nothing]

New(c) == [phase |-> "built", runs |-> Built(c)]

Init ==
  /\ stored \in Files /\ env \in Environments /\ Valid(Effective(stored, env))
  /\ bak = NoBackup
  /\ facades = [i \in Facades |-> IF i = 1 THEN New(Effective(stored, env)) ELSE NotBuilt]
  /\ current = 1 /\ confirm = FALSE
  /\ post = Idle
  /\ tx = FALSE /\ known = FALSE /\ listed = FALSE /\ begun = FALSE
  /\ subs = 0 /\ posts = 0 /\ crashes = 0
  /\ behind = FALSE

Phase == IF current = NoFacade THEN "none" ELSE facades[current].phase
Serving == Phase \in {"running", "leaked"}
\* started: from the beginning of Start to the end of Stop.
Started == \/ Phase \in {"starting", "straying", "running", "leaked", "stopping"}
           \/ Phase = "cancelled" /\ post.pc = "wait"
InPhase(p) == [facades EXCEPT ![current].phase = p]
Goto(pc) == [post EXCEPT !.pc = pc]
ClassOf(p) == Class(p.old, p.cand)

-----------------------------------------------------------------------------
(* handlePostConfig *)

\* Mutant of Accepted: the candidate is not validated.
AcceptedUnchecked(form, token) ==
  LET old == Effective(stored, env)
      cand == Candidate(old, form)
  IN /\ DOMAIN form \cap OverriddenByEnv(stored, env) = {}
     /\ Class(old, cand) # ApplyNone
     /\ (confirm /\ ~token) => (Class(old, cand) = ApplyHot)

\* The checks of the handler.  While a confirmation is pending, only a request
\* with some token gets on with a change that is not hot.
Accepted(form, token) ==
  LET old == Effective(stored, env)
      cand == Candidate(old, form)
  IN /\ Valid(old)
     /\ DOMAIN form \cap OverriddenByEnv(stored, env) = {}
     /\ Valid(cand)
     /\ Class(old, cand) # ApplyNone
     /\ (confirm /\ ~token) => (Class(old, cand) = ApplyHot)

Post(form, token) ==
  /\ post.pc = "idle" /\ current # NoFacade
  /\ posts < MaxPosts /\ posts' = posts + 1
  /\ Accepted(form, token)
  /\ LET old == Effective(stored, env)
         cand == Candidate(old, form)
     IN post' = [old |-> old, cand |-> cand,
                 pc |-> CASE Class(old, cand) = ApplyHot -> "charging"
                          [] Class(old, cand) = ApplyRebuild -> "ask"
                          [] OTHER -> "backup"]
  /\ UNCHANGED <<disk, process, cars, subs, crashes, behind>>

\* Mutant of HasActiveSession: a session does not stop the rebuild.
HasActiveSessionIgnored ==
  /\ post.pc = "ask"
  /\ post' = Goto("backup")
  /\ begun' = FALSE
  /\ UNCHANGED <<disk, process, tx, known, listed, subs, bounds, behind>>

\* A session on record asks for a confirmation; otherwise the rebuild goes on.
\* Sessions are looked for by the connectors on record, so one whose connector
\* has no record is not found.
HasActiveSession ==
  /\ post.pc = "ask"
  /\ IF known /\ listed THEN confirm' = TRUE /\ post' = Idle
                        ELSE post' = Goto("backup") /\ UNCHANGED confirm
  /\ begun' = FALSE
  /\ UNCHANGED <<disk, facades, current, tx, known, listed, subs, bounds, behind>>

ChargingFields == {"min", "max", "cooldown", "safe"}
ChargingChanged(p) == \E f \in ChargingFields : p.old[f] # p.cand[f]

\* applyHot, first half: UpdateCharging takes all charging parameters or none.
UpdateCharging ==
  /\ post.pc = "charging"
  /\ post' = Goto("level")
  /\ facades' = IF ~ChargingChanged(post) THEN facades
                ELSE [facades EXCEPT ![current].runs =
                        [f \in Fields |-> IF f \in ChargingFields THEN post.cand[f] ELSE @[f]]]
  /\ UNCHANGED <<disk, current, confirm, cars, subs, bounds, behind>>

\* Mutant of SetLogLevel: an unknown level is saved all the same.
SetLogLevelUnchecked ==
  /\ post.pc = "level"
  /\ post' = Goto("backup")
  /\ facades' = [facades EXCEPT ![current].runs["level"] = post.cand["level"]]
  /\ UNCHANGED <<disk, current, confirm, cars, subs, bounds, behind>>

\* applyHot, second half: an unknown level ends the request with nothing saved.
SetLogLevel ==
  /\ post.pc = "level"
  /\ LET level == post.cand["level"]
         refused == level # post.old["level"] /\ level \notin KnownLevels
     IN /\ post' = IF refused THEN Idle ELSE Goto("backup")
        /\ behind' = (behind \/ (refused /\ ChargingChanged(post)))
        /\ facades' = IF refused \/ level = post.old["level"] THEN facades
                      ELSE [facades EXCEPT ![current].runs["level"] = level]
  /\ UNCHANGED <<disk, current, confirm, cars, subs, bounds>>

-----------------------------------------------------------------------------
(* WriteAtomic: the old file is copied to .bak, then the new one renamed.  *)

\* Mutant of Backup: the file is opened for writing, and cut off, first.
BackupTruncates ==
  /\ post.pc = "backup"
  /\ bak' = stored /\ stored' = NoBackup
  /\ post' = Goto("rename")
  /\ UNCHANGED <<env, process, cars, subs, bounds, behind>>

Backup ==
  /\ post.pc = "backup"
  /\ bak' = stored
  /\ post' = Goto("rename")
  /\ UNCHANGED <<stored, env, process, cars, subs, bounds, behind>>

\* A change that waits for the next process leaves the facade behind the file.
Rename ==
  /\ post.pc = "rename"
  /\ stored' = post.cand
  /\ post' = IF ClassOf(post) = ApplyRebuild THEN Goto("stop") ELSE Idle
  /\ behind' = (behind \/ ClassOf(post) = ApplyProcessRestart)
  /\ UNCHANGED <<bak, env, process, cars, subs, bounds>>

\* The disk is full, or not writable: what was hot-applied stays applied.
WriteFails ==
  /\ post.pc \in {"backup", "rename"}
  /\ post' = Idle
  /\ behind' = (behind \/ ClassOf(post) = ApplyHot)
  /\ UNCHANGED <<disk, process, cars, subs, bounds>>

-----------------------------------------------------------------------------
(* webuiApplier.Rebuild and the facade                                     *)

\* Mutant of Stop: only the clients are closed, the controller is not cancelled.
StopWithoutCancel ==
  /\ post.pc = "stop"
  /\ post' = Goto("wait")
  /\ UNCHANGED <<disk, process, cars, subs, bounds, behind>>

\* CSMS.Stop cancels what Start began; before Start there is nothing to cancel,
\* and a Start that is under way goes on to a controller that ends at once.
Stop ==
  /\ post.pc = "stop"
  /\ facades' = CASE Serving -> InPhase("stopping")
                  [] Phase \in {"starting", "straying"} -> InPhase("cancelled")
                  [] Phase = "built" -> InPhase("early")
                  [] OTHER -> facades
  /\ post' = Goto("wait")
  /\ UNCHANGED <<disk, current, confirm, cars, subs, bounds, behind>>

\* Mutant of Stopped: the wait group is not waited for.
StoppedAtOnce ==
  /\ post.pc = "wait"
  /\ post' = Goto("build")
  /\ UNCHANGED <<disk, process, cars, subs, bounds, behind>>

\* wg.Wait: the controller ends once it is cancelled, and so must the goroutine
\* of each subscriber.  A facade that starts after Stop looked for its context
\* is not cancelled, and a controller that is not in the group yet not waited for.
Stopped ==
  /\ post.pc = "wait"
  /\ subs = 0 /\ ~Serving
  /\ facades' = IF Phase = "stopping" THEN InPhase("stopped") ELSE facades
  /\ post' = Goto("build")
  /\ UNCHANGED <<disk, current, confirm, cars, subs, bounds, behind>>

\* buildFacade: the new facade begins with empty repositories.  `c` is the
\* configuration it is made of, `i` its number.
BuildFacade(c, i) ==
  /\ i \in Facades /\ facades[i] = NotBuilt
  /\ \A j \in Facades : j < i => facades[j] # NotBuilt
  /\ facades' = [facades EXCEPT ![i] = New(c)]
  /\ current' = i
  /\ known' = FALSE /\ listed' = FALSE /\ begun' = FALSE
  /\ subs' = 0
  /\ behind' = FALSE

Build ==
  /\ post.pc = "build"
  /\ \E i \in Facades : BuildFacade(post.cand, i)
  /\ post' = Idle
  /\ UNCHANGED <<disk, confirm, tx, bounds>>

\* The applier keeps the stopped facade, and the file the new configuration.
BuildFails ==
  /\ post.pc = "build"
  /\ post' = Idle
  /\ behind' = TRUE
  /\ UNCHANGED <<disk, process, cars, subs, bounds>>

\* runFacade, in a goroutine of its own: Start finds a facade that was not
\* started, even one that was stopped already ("early", then "straying"), and
\* sets the context that Stop cancels.
Start(i) ==
  /\ facades[i].phase \in {"built", "early"}
  /\ facades' = [facades EXCEPT ![i].phase = IF @ = "built" THEN "starting" ELSE "straying"]
  /\ UNCHANGED <<disk, current, confirm, post, cars, subs, bounds, behind>>

\* Start goes on: the server opens, and the controller runs until its context
\* is cancelled.  (A server that was stopped before it is started stays closed.)
Run(i) ==
  /\ facades[i].phase \in {"starting", "straying", "cancelled"}
  /\ facades' = [facades EXCEPT ![i].phase = CASE @ = "starting" -> "running"
                                               [] @ = "straying" -> "leaked"
                                               [] OTHER -> "stopped"]
  /\ UNCHANGED <<disk, current, confirm, post, cars, subs, bounds, behind>>

\* Until wg.Wait is over, a facade still takes subscribers.
Subscribe ==
  /\ Started /\ subs < MaxSubscribers
  /\ subs' = subs + 1
  /\ UNCHANGED <<disk, process, post, cars, bounds, behind>>

\* A subscriber goes only when its own context ends.
Unsubscribe ==
  /\ subs > 0
  /\ subs' = subs - 1
  /\ UNCHANGED <<disk, process, post, cars, bounds, behind>>

-----------------------------------------------------------------------------
(* Cars, and the process *)

\* OnStartTransaction creates a session, and no connector.
StartTransaction ==
  /\ Serving /\ ~tx
  /\ tx' = TRUE /\ known' = TRUE
  /\ begun' = (begun \/ listed)
  /\ UNCHANGED <<disk, process, post, listed, subs, bounds, behind>>

\* Meter values of a transaction from before the facade bring its session back,
\* and then its connector (UpsertConnector).
MeterValues ==
  /\ Serving /\ tx /\ ~known
  /\ known' = TRUE
  /\ begun' = (begun \/ listed)
  /\ UNCHANGED <<disk, process, post, tx, listed, subs, bounds, behind>>

\* A status notification, or the end of a recovery, puts the connector on record.
UpsertConnector ==
  /\ Serving /\ ~listed
  /\ listed' = TRUE
  /\ begun' = (begun \/ known)
  /\ UNCHANGED <<disk, process, post, tx, known, subs, bounds, behind>>

\* Away from the central system a session on record stays on record.
StopTransaction ==
  /\ tx
  /\ tx' = FALSE
  /\ known' = (known /\ ~Serving)
  /\ UNCHANGED <<disk, process, post, listed, begun, subs, bounds, behind>>

Crash ==
  /\ current # NoFacade
  /\ crashes < MaxCrashes /\ crashes' = crashes + 1
  /\ current' = NoFacade
  /\ facades' = [i \in Facades |-> IF facades[i] = NotBuilt THEN NotBuilt
                                   ELSE [facades[i] EXCEPT !.phase = "gone"]]
  /\ confirm' = FALSE /\ post' = Idle
  /\ known' = FALSE /\ listed' = FALSE /\ begun' = FALSE /\ subs' = 0
  /\ UNCHANGED <<disk, tx, posts, behind>>

\* main: Load, and exit if the configuration is not valid.
Boot ==
  /\ current = NoFacade
  /\ Valid(Effective(stored, env))
  /\ \E i \in Facades : BuildFacade(Effective(stored, env), i)
  /\ UNCHANGED <<disk, confirm, post, tx, bounds>>

-----------------------------------------------------------------------------
Handler ==
  \/ HasActiveSession \/ UpdateCharging \/ SetLogLevel
  \/ Backup \/ Rename \/ WriteFails
  \/ Stop \/ Stopped \/ Build \/ BuildFails

Next ==
  \/ \E form \in Forms, token \in BOOLEAN : Post(form, token)
  \/ Handler
  \/ \E i \in Facades : Start(i) \/ Run(i)
  \/ Subscribe \/ Unsubscribe
  \/ StartTransaction \/ MeterValues \/ UpsertConnector \/ StopTransaction
  \/ Crash \/ Boot

Spec == Init /\ [][Next]_vars

\* The handler goes on, a goroutine that was started runs, and a process that
\* was killed is started again (by Docker, or by the add-on's supervisor).
FairSpec ==
  /\ Spec
  /\ WF_vars(Handler)
  /\ \A i \in Facades : WF_vars(Start(i) \/ Run(i))
  /\ WF_vars(Boot)
-----------------------------------------------------------------------------
(* Properties *)

Phases == {"none", "built", "early", "starting", "straying", "running", "leaked",
           "cancelled", "stopping", "stopped", "gone"}
Steps == {"idle", "ask", "charging", "level", "backup", "rename", "stop", "wait", "build"}

\* The variables have their types; facades are numbered without gaps, and the
\* file always holds a configuration, never a part of one.
TypeOK ==
  /\ stored \in Configs /\ bak \in Configs \cup {NoBackup} /\ env \in Envs
  /\ facades \in [Facades -> [phase : Phases, runs : Configs]]
  /\ current \in Facades \cup {NoFacade}
  /\ post \in [pc : Steps, old : Configs, cand : Configs]
  /\ {confirm, tx, known, listed, behind, begun} \subseteq BOOLEAN
  /\ subs \in 0 .. MaxSubscribers
  /\ posts \in 0 .. MaxPosts /\ crashes \in 0 .. MaxCrashes
  /\ \A i, j \in Facades : (i < j /\ facades[j] # NotBuilt) => facades[i] # NotBuilt

\* The controller and the handler of every facade compute with ordered limits
\* inside 6..32 A, and so will those of the next process: whatever is saved,
\* half saved or hot-applied, through failed writes and kills.
LimitsAreSafe ==
  /\ 6 <= stored["min"] /\ stored["min"] <= stored["max"] /\ stored["max"] <= 32
  /\ \A i \in Facades : facades[i] # NotBuilt =>
       /\ 6 <= facades[i].runs["min"] /\ facades[i].runs["max"] <= 32
       /\ facades[i].runs["min"] <= facades[i].runs["max"]

\* What a restart changes, exactly: unless a change is known not to be applied,
\* or not to be saved (`behind`), the facade runs with what the file gives the
\* next one, but for three things.  Fields that the environment sets: once a
\* save has put its value into the file, the form may change them and the
\* environment not.  Safe current and cooldown: they are either those of a new
\* facade, or, together, those of the file; then a restart sets them back.  The
\* energy entities: the facade keeps them when a save has dropped them from the
\* file.  ("listen" is the process's, not the facade's.)
RestartEquivalent ==
  (post.pc = "idle" /\ current # NoFacade /\ ~behind) =>
    LET runs == facades[current].runs
        next == Built(stored)
        Unset(fields) == \A f \in fields : env[f] = NoEnv
    IN /\ \A f \in {"min", "max", "level", "broker"} : Unset({f}) => runs[f] = next[f]
       /\ Unset({"min", "safe", "cooldown"}) =>
            \/ \A f \in {"safe", "cooldown"} : runs[f] = next[f]
            \/ \A f \in {"safe", "cooldown"} : runs[f] = stored[f]
       /\ Unset({"energy"}) => stored["energy"] \in {runs["energy"], Absent}

\* Only one facade drives the chargers: the controller of the old one has ended
\* when a new one is built.  (A facade that was stopped before its Start is the
\* exception, "leaked".)
RunningIsCurrent ==
  \A i \in Facades : facades[i].phase \in {"running", "stopping"} => i = current

\* No rebuild tears down a session that HasActiveSession could have found when
\* it was asked: if one can be found while the rebuild is at work, it began, or
\* its connector came on record, since.  (A session whose connector has no
\* record, because its charger sent no status since this facade began, is never
\* found, and torn down without a question.)
NoSilentTeardown ==
  (post.pc \in {"backup", "rename", "stop", "wait", "build"}
   /\ ClassOf(post) = ApplyRebuild /\ known /\ listed) => begun

\* Unless a subscriber stays, or a facade was stopped before its Start, every
\* request is answered, and the WebUI takes the next one.
PostReturns ==
  (<>[](subs = 0) /\ [](\A i \in Facades : facades[i].phase # "leaked"))
    => (post.pc # "idle" ~> post.pc = "idle")

=============================================================================
