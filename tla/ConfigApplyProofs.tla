-------------------------- MODULE ConfigApplyProofs ---------------------------
(***************************************************************************)
(* Saving the configuration, for every set of files, environments and      *)
(* forms and every number of requests, kills and subscribers: the variables *)
(* keep their types, limits stay safe, one facade drives the chargers, a   *)
(* rebuild tears down unasked no session that could be found, and what a   *)
(* restart changes is what RestartEquivalent excepts.                      *)
(***************************************************************************)
EXTENDS ConfigApply, TLAPS

Assumptions == ConfigAssumption /\ ApplyAssumption

\* A facade that is not current was stopped or never began; only Stop waits
\* for one to end, and Build finds none that runs.
OneFacade ==
  /\ \A i \in Facades : facades[i].phase = "none" <=> facades[i] = NotBuilt
  /\ current # NoFacade => facades[current].phase \notin {"none", "gone"}
  /\ current = NoFacade =>
       post.pc = "idle" /\ \A i \in Facades : facades[i].phase \in {"none", "gone"}
  /\ \A i \in Facades : facades[i].phase \in {"built", "starting"} => i = current
  /\ \A i \in Facades : facades[i].phase = "stopping" => post.pc = "wait"
  /\ RunningIsCurrent
  /\ post.pc \in {"wait", "build"} =>
       facades[current].phase \notin {"built", "starting", "running"}

\* What a request is about to apply or to save is as safe as what is saved.
SafeLimits ==
  /\ LimitsAreSafe
  /\ post.pc # "idle" => Valid(post.cand)

\* The steps of a hot change are taken for hot changes only.
Asked ==
  /\ NoSilentTeardown
  /\ post.pc # "idle" => ClassOf(post) \in {ApplyHot, ApplyRebuild, ApplyProcessRestart}
  /\ post.pc \in {"charging", "level"} => ClassOf(post) = ApplyHot
  /\ post.pc \in {"ask", "stop", "wait", "build"} => ClassOf(post) = ApplyRebuild

Checked == {"min", "max", "level", "broker"}
RunsWith(fields, c) ==
  \A f \in fields : env[f] = NoEnv => facades[current].runs[f] = Built(c)[f]

\* The safe current and the cooldown are those of a new facade, or of `c`.
TunedTo(c) ==
  (env["min"] = NoEnv /\ env["safe"] = NoEnv /\ env["cooldown"] = NoEnv) =>
    LET runs == facades[current].runs
    IN \/ runs["safe"] = c["min"] /\ runs["cooldown"] = BuiltCooldown
       \/ runs["safe"] = c["safe"] /\ runs["cooldown"] = c["cooldown"]

\* What the current facade runs with at each step of a request that is not
\* known to leave it behind the file.
Follows ==
  /\ post.pc \in {"ask", "charging", "level", "backup", "rename"} =>
       post.old = Effective(stored, env)
  /\ post.pc \in {"stop", "wait", "build"} => stored = post.cand
  /\ (current # NoFacade /\ ~behind) =>
       /\ post.pc \in {"idle", "ask", "charging"} =>
            RunsWith(Checked, stored) /\ TunedTo(stored)
       /\ post.pc = "level" => /\ RunsWith({"min", "max"}, post.cand)
                               /\ RunsWith({"level", "broker"}, stored)
                               /\ TunedTo(post.cand)
       /\ post.pc \in {"backup", "rename"} =>
            /\ ClassOf(post) = ApplyHot => RunsWith(Checked, post.cand) /\ TunedTo(post.cand)
            /\ ClassOf(post) # ApplyHot => RunsWith(Checked, stored) /\ TunedTo(stored)

\* A save gives up the energy entities, in the file and for good.
EnergyFollows ==
  /\ post.pc # "idle" => post.cand["energy"] = Absent
  /\ (current # NoFacade /\ env["energy"] = NoEnv) =>
       stored["energy"] \in {facades[current].runs["energy"], Absent}
-----------------------------------------------------------------------------
(* Configurations as values.                                               *)

\* What a facade makes of a configuration is one; only the cooldown, the safe
\* current and an unknown level come out different.
LEMMA BuiltFacts ==
  ASSUME Assumptions, NEW c \in Configs
  PROVE  /\ Built(c) \in Configs
         /\ \A f \in {"min", "max", "broker", "listen", "energy"} : Built(c)[f] = c[f]
         /\ Built(c)["level"] = IF c["level"] \in KnownLevels THEN c["level"] ELSE DefaultLevel
         /\ Built(c)["safe"] = c["min"] /\ Built(c)["cooldown"] = BuiltCooldown
<1> DEFINE lv == IF c["level"] \in KnownLevels THEN c["level"] ELSE DefaultLevel
<1>1. /\ c["level"] \in Nat /\ lv \in Nat /\ BuiltCooldown \in Nat
      /\ "min" \in Fields /\ c["min"] \in Nat
  BY DEF Assumptions, ConfigAssumption, Configs, Fields
<1>2. Built(c) = [c EXCEPT !["cooldown"] = BuiltCooldown, !["safe"] = c["min"],
                           !["level"] = lv]
  BY DEF Built
<1> HIDE DEF lv
<1>3. Built(c) \in Configs
  BY <1>1, <1>2 DEF Configs, Fields
<1>4. \A f \in {"min", "max", "broker", "listen", "energy"} : Built(c)[f] = c[f]
  BY <1>2 DEF Configs, Fields
<1>5. Built(c)["level"] = lv /\ Built(c)["safe"] = c["min"]
      /\ Built(c)["cooldown"] = BuiltCooldown
  BY <1>2 DEF Configs, Fields
<1>. QED BY <1>3, <1>4, <1>5 DEF lv

\* Load makes a configuration, and a variable that is not set changes nothing.
LEMMA EffectiveFacts ==
  ASSUME NEW c \in Configs, NEW e \in Envs
  PROVE  /\ Effective(c, e) \in Configs
         /\ \A f \in Fields : e[f] = NoEnv => Effective(c, e)[f] = c[f]
<1>1. \A f \in Fields : (IF e[f] # NoEnv THEN e[f] ELSE c[f]) \in Nat
  BY DEF Envs, Configs
<1>. QED BY <1>1 DEF Effective, Configs

\* So does the form.
LEMMA CandidateFacts ==
  ASSUME NEW c \in Configs, NEW form, DOMAIN form \subseteq Fields \ {"energy"},
         \A f \in DOMAIN form : form[f] \in Nat
  PROVE  Candidate(c, form) \in Configs /\ Candidate(c, form)["energy"] = Absent
<1>1. \A f \in Fields : (IF f = "energy" THEN Absent
                         ELSE IF f \in DOMAIN form THEN form[f] ELSE c[f]) \in Nat
  BY DEF Configs, Absent
<1>2. "energy" \in Fields
  BY DEF Fields
<1>. QED BY <1>1, <1>2 DEF Candidate, Configs

\* Among the changes there is a most disruptive one.
LEMMA ClassFacts ==
  ASSUME NEW old, NEW new
  PROVE  /\ Class(old, new) \in {ApplyNone, ApplyHot, ApplyRebuild, ApplyProcessRestart}
         /\ \A f \in Fields : old[f] # new[f] => ApplyClass(f) <= Class(old, new)
<1> DEFINE classes == {ApplyNone} \cup {ApplyClass(f) : f \in {g \in Fields : old[g] # new[g]}}
<1>1. ApplyNone \in classes /\ \A f \in Fields : old[f] # new[f] => ApplyClass(f) \in classes
  OBVIOUS
<1>2. \A c \in classes : c \in 0 .. 3
  BY DEF ApplyClass, ApplyNone, ApplyHot, ApplyRebuild, ApplyProcessRestart
<1>3. Class(old, new) = CHOOSE c \in classes : \A d \in classes : d <= c
  BY DEF Class
<1> HIDE DEF classes
<1>4. \E c \in classes : \A d \in classes : d <= c
  <2>1. CASE 3 \in classes
    BY <1>2, <2>1
  <2>2. CASE 3 \notin classes /\ 2 \in classes
    BY <1>2, <2>2
  <2>3. CASE 3 \notin classes /\ 2 \notin classes /\ 1 \in classes
    BY <1>2, <2>3
  <2>4. CASE 3 \notin classes /\ 2 \notin classes /\ 1 \notin classes
    BY <1>1, <1>2, <2>4
  <2>. QED BY <2>1, <2>2, <2>3, <2>4
<1>5. Class(old, new) \in classes /\ \A d \in classes : d <= Class(old, new)
  BY <1>3, <1>4
<1>. QED BY <1>1, <1>2, <1>5 DEF ApplyNone, ApplyHot, ApplyRebuild, ApplyProcessRestart

\* A change of the class of hot changes leaves the broker alone.
LEMMA HotKeepsBroker ==
  ASSUME NEW old, NEW new, Class(old, new) = ApplyHot
  PROVE  old["broker"] = new["broker"]
<1>1. ApplyClass("broker") = ApplyRebuild /\ "broker" \in Fields
  BY DEF ApplyClass, Fields
<1>. QED BY <1>1, ClassFacts DEF ApplyRebuild, ApplyHot

-----------------------------------------------------------------------------
(* Types                                                                   *)

\* A new facade has its type.
LEMMA NewType ==
  ASSUME Assumptions, NEW c \in Configs
  PROVE  New(c) \in [phase : Phases, runs : Configs] /\ New(c) # NotBuilt
BY BuiltFacts DEF New, Phases, NotBuilt

\* The constants of the state have their types.
LEMMA ValuesTyped ==
  /\ Nothing \in Configs /\ Idle \in [pc : Steps, old : Configs, cand : Configs]
  /\ NotBuilt \in [phase : Phases, runs : Configs]
<1>1. Nothing \in Configs
  BY DEF Nothing, Configs, Absent
<1>. QED BY <1>1 DEF Idle, Steps, NotBuilt, Phases

\* The initial states are well-typed.
LEMMA TypeInit == ASSUME Assumptions PROVE Init => TypeOK
<1> SUFFICES ASSUME Init PROVE TypeOK
  OBVIOUS
<1>1. stored \in Configs /\ env \in Envs /\ bak \in Configs \cup {NoBackup}
  BY DEF Init, Assumptions, ApplyAssumption
<1>2. Effective(stored, env) \in Configs
  BY <1>1, EffectiveFacts
<1>3. New(Effective(stored, env)) \in [phase : Phases, runs : Configs]
  BY <1>2, NewType
<1>4. facades \in [Facades -> [phase : Phases, runs : Configs]]
  BY <1>3, ValuesTyped DEF Init
<1>5. 1 \in Facades /\ current \in Facades /\ subs \in 0 .. MaxSubscribers
      /\ posts \in 0 .. MaxPosts /\ crashes \in 0 .. MaxCrashes
  BY DEF Init, Facades, Assumptions, ApplyAssumption
<1>6. \A i, j \in Facades : (i < j /\ facades[j] # NotBuilt) => facades[i] # NotBuilt
  BY DEF Init, Facades
<1>7. {confirm, tx, known, listed, behind, begun} \subseteq BOOLEAN
  BY DEF Init
<1>8. post \in [pc : Steps, old : Configs, cand : Configs]
  BY ValuesTyped DEF Init
<1>. QED BY <1>1, <1>4, <1>5, <1>6, <1>7, <1>8 DEF TypeOK

Base == TypeOK /\ OneFacade

\* Initially the first facade is current, and no other is built.
LEMMA BaseInit == ASSUME Assumptions PROVE Init => Base
<1> SUFFICES ASSUME Init PROVE Base
  OBVIOUS
<1>1. TypeOK
  BY TypeInit
<1>2. /\ current = 1 /\ 1 \in Facades /\ NoFacade \notin Facades
      /\ facades[1].phase = "built" /\ facades[1] # NotBuilt
      /\ \A i \in Facades : i # 1 => facades[i] = NotBuilt
  BY DEF Init, New, NotBuilt, NoFacade, Facades, Assumptions, ApplyAssumption
<1>3. post.pc = "idle"
  BY DEF Init, Idle
<1>. QED BY <1>1, <1>2, <1>3 DEF Base, OneFacade, RunningIsCurrent, NotBuilt, NoFacade

\* A facade that is neither new nor gone changes its phase.
LEMMA PhaseChanges ==
  ASSUME Base, NEW k \in Facades, facades[k].phase # "none",
         NEW p \in Phases \ {"none"}, facades' = [facades EXCEPT ![k].phase = p]
  PROVE  /\ facades' \in [Facades -> [phase : Phases, runs : Configs]]
         /\ \A i \in Facades : i # k => facades'[i] = facades[i]
         /\ facades'[k].phase = p /\ facades'[k].runs = facades[k].runs
         /\ \A i \in Facades : facades'[i] = NotBuilt <=> facades[i] = NotBuilt
<1>1. /\ \A i \in Facades : i # k => facades'[i] = facades[i]
      /\ facades'[k].phase = p /\ facades'[k].runs = facades[k].runs
      /\ facades' \in [Facades -> [phase : Phases, runs : Configs]]
  BY DEF Base, TypeOK
<1>2. facades'[k] # NotBuilt /\ facades[k] # NotBuilt
  BY <1>1 DEF NotBuilt
<1>. QED BY <1>1, <1>2

\* The running configuration of the current facade changes.
LEMMA RunsChange ==
  ASSUME Base, current # NoFacade, NEW r \in Configs,
         facades' = [facades EXCEPT ![current].runs = r]
  PROVE  /\ facades' \in [Facades -> [phase : Phases, runs : Configs]]
         /\ \A i \in Facades : i # current => facades'[i] = facades[i]
         /\ facades'[current].runs = r
         /\ \A i \in Facades : facades'[i].phase = facades[i].phase
         /\ \A i \in Facades : facades'[i] = NotBuilt <=> facades[i] = NotBuilt
<1>1. current \in Facades
  BY DEF Base, TypeOK
<1>2. /\ \A i \in Facades : i # current => facades'[i] = facades[i]
      /\ facades'[current].runs = r
      /\ \A i \in Facades : facades'[i].phase = facades[i].phase
      /\ facades' \in [Facades -> [phase : Phases, runs : Configs]]
  BY <1>1 DEF Base, TypeOK
<1>3. facades[current].phase # "none"
  BY DEF Base, OneFacade
<1>4. facades'[current] # NotBuilt /\ facades[current] # NotBuilt
  BY <1>1, <1>2, <1>3 DEF NotBuilt
<1>. QED BY <1>2, <1>4

\* Actions that leave the facades alone and keep the type of the rest.
LEMMA BaseOther ==
  ASSUME Assumptions, Base, facades' = facades, current' = current,
         post' \in [pc : Steps, old : Configs, cand : Configs],
         post'.pc \in {"wait", "build"} =>
           facades[current].phase \notin {"built", "starting", "running"},
         \A i \in Facades : facades[i].phase = "stopping" => post'.pc = "wait",
         current = NoFacade => post'.pc = "idle",
         stored' \in Configs /\ bak' \in Configs \cup {NoBackup} /\ env' \in Envs,
         {confirm', tx', known', listed', behind', begun'} \subseteq BOOLEAN,
         subs' \in 0 .. MaxSubscribers,
         posts' \in 0 .. MaxPosts /\ crashes' \in 0 .. MaxCrashes
  PROVE  Base'
<1>1. TypeOK'
  BY DEF Base, TypeOK
<1>2. OneFacade'
  BY DEF Base, OneFacade, RunningIsCurrent
<1>. QED BY <1>1, <1>2 DEF Base
\* The request at work with another step.
LEMMA GotoType ==
  ASSUME Base, NEW pc \in Steps
  PROVE  /\ Goto(pc) \in [pc : Steps, old : Configs, cand : Configs]
         /\ Goto(pc).pc = pc /\ Goto(pc).old = post.old /\ Goto(pc).cand = post.cand
BY DEF Base, TypeOK, Goto

\* An accepted request compares two configurations; the new one is valid.
LEMMA PostFacts ==
  ASSUME Assumptions, Base, NEW form \in Forms, NEW token, Post(form, token)
  PROVE  /\ post'.old = Effective(stored, env) /\ post'.cand \in Configs
         /\ post'.cand["energy"] = Absent
         /\ Valid(post'.cand)
         /\ post' \in [pc : Steps, old : Configs, cand : Configs]
         /\ post'.pc = CASE ClassOf(post') = ApplyHot -> "charging"
                         [] ClassOf(post') = ApplyRebuild -> "ask"
                         [] OTHER -> "backup"
         /\ current # NoFacade /\ post.pc = "idle" /\ posts' \in 0 .. MaxPosts
         /\ ClassOf(post') \in {ApplyHot, ApplyRebuild, ApplyProcessRestart}
<1> DEFINE old == Effective(stored, env)
           cand == Candidate(old, form)
           cls == Class(old, cand)
           step == CASE cls = ApplyHot -> "charging" [] cls = ApplyRebuild -> "ask"
                     [] OTHER -> "backup"
<1>1. old \in Configs
  BY EffectiveFacts DEF Base, TypeOK
<1>2. cand \in Configs /\ cand["energy"] = Absent
  <2>1. DOMAIN form \subseteq Fields \ {"energy"} /\ \A f \in DOMAIN form : form[f] \in Nat
    BY DEF Assumptions, ApplyAssumption
  <2>. QED BY <1>1, <2>1, CandidateFacts
<1>3. post' = [old |-> old, cand |-> cand, pc |-> step] /\ Valid(cand)
  BY DEF Post, Accepted
<1>4. step \in Steps
  BY DEF Steps
<1>5. posts' \in 0 .. MaxPosts
  BY DEF Post, Base, TypeOK, Assumptions, ApplyAssumption
<1>6. ClassOf(post') = cls
  BY <1>3 DEF ClassOf
<1>7. post.pc = "idle" /\ current # NoFacade
  BY DEF Post
<1>8. cls \in {ApplyHot, ApplyRebuild, ApplyProcessRestart}
  BY ClassFacts DEF Post, Accepted
<1> HIDE DEF old, cand
<1>. QED BY <1>1, <1>2, <1>3, <1>4, <1>5, <1>6, <1>7, <1>8 DEF old

\* A request is accepted.
LEMMA BasePost ==
  ASSUME Assumptions, Base, NEW form \in Forms, NEW token, Post(form, token)
  PROVE  Base'
<1>1. /\ facades' = facades /\ current' = current /\ stored' = stored /\ bak' = bak
      /\ env' = env /\ confirm' = confirm /\ tx' = tx /\ known' = known /\ begun' = begun
      /\ listed' = listed /\ behind' = behind /\ subs' = subs /\ crashes' = crashes
  BY DEF Post, disk, process, cars
<1>2. /\ post' \in [pc : Steps, old : Configs, cand : Configs]
      /\ post'.pc \notin {"wait", "build"} /\ current # NoFacade
      /\ posts' \in 0 .. MaxPosts /\ post.pc = "idle"
  BY PostFacts
<1>3. \A i \in Facades : facades[i].phase # "stopping"
  BY <1>2 DEF Base, OneFacade
<1>. QED BY <1>1, <1>2, <1>3, BaseOther DEF Base, TypeOK

\* The steps of the handler that leave the facades alone.
LEMMA BaseHandler ==
  ASSUME Assumptions, Base,
         HasActiveSession \/ Backup \/ Rename \/ WriteFails \/ BuildFails
  PROVE  Base'
<1>1. /\ facades' = facades /\ current' = current /\ tx' = tx /\ known' = known
      /\ listed' = listed /\ env' = env /\ subs' = subs /\ posts' = posts /\ crashes' = crashes
  BY DEF HasActiveSession, Backup, Rename, WriteFails, BuildFails, disk, process, cars, bounds
<1>2. /\ post' \in [pc : Steps, old : Configs, cand : Configs]
      /\ post'.pc \notin {"wait", "build"}
      /\ post.pc \notin {"idle", "wait"}
  BY GotoType, ValuesTyped, Zenon
     DEF HasActiveSession, Backup, Rename, WriteFails, BuildFails, Steps, Idle
<1>3. stored' \in Configs /\ bak' \in Configs \cup {NoBackup}
  BY DEF HasActiveSession, Backup, Rename, WriteFails, BuildFails, disk, Base, TypeOK
<1>4. {confirm', begun', behind'} \subseteq BOOLEAN
  BY DEF HasActiveSession, Backup, Rename, WriteFails, BuildFails, disk, process, cars,
         Base, TypeOK
<1>5. current # NoFacade /\ \A i \in Facades : facades[i].phase # "stopping"
  BY <1>2 DEF Base, OneFacade
<1>. QED BY <1>1, <1>2, <1>3, <1>4, <1>5, BaseOther DEF Base, TypeOK

\* Subscribers and cars.
LEMMA BaseWorld ==
  ASSUME Assumptions, Base,
         Subscribe \/ Unsubscribe \/ StartTransaction \/ MeterValues \/ UpsertConnector
         \/ StopTransaction
  PROVE  Base'
<1>1. /\ facades' = facades /\ current' = current /\ post' = post /\ stored' = stored
      /\ bak' = bak /\ env' = env /\ confirm' = confirm /\ behind' = behind
      /\ posts' = posts /\ crashes' = crashes
  BY DEF Subscribe, Unsubscribe, StartTransaction, MeterValues, UpsertConnector,
         StopTransaction,
         disk, process, bounds
<1>2. subs' \in 0 .. MaxSubscribers
  BY DEF Subscribe, Unsubscribe, StartTransaction, MeterValues, UpsertConnector,
         StopTransaction,
         Base, TypeOK, Assumptions, ApplyAssumption
<1>3. {tx', known', listed', begun'} \subseteq BOOLEAN
  BY DEF Subscribe, Unsubscribe, StartTransaction, MeterValues, UpsertConnector,
         StopTransaction, cars,
         Base, TypeOK
<1>. QED BY <1>1, <1>2, <1>3, BaseOther DEF Base, TypeOK, OneFacade
\* A step that changes the phase of one facade, and perhaps the request.
LEMMA BasePhase ==
  ASSUME Assumptions, Base, NEW k \in Facades, NEW p \in Phases \ {"none", "gone", "built"},
         facades[k].phase \notin {"none", "gone"},
         facades' = [facades EXCEPT ![k].phase = p],
         p \in {"starting", "running", "stopping"} => k = current,
         p = "stopping" => post'.pc = "wait",
         \A i \in Facades : i # k /\ facades[i].phase = "stopping" => post'.pc = "wait",
         post'.pc \in {"wait", "build"} =>
           /\ current # NoFacade /\ p \notin {"starting", "running"}
           /\ k # current => facades[current].phase \notin {"built", "starting", "running"},
         post' \in [pc : Steps, old : Configs, cand : Configs],
         UNCHANGED <<disk, current, confirm, cars, subs, bounds, behind>>
  PROVE  Base'
<1>1. /\ current' = current /\ stored' = stored /\ bak' = bak /\ env' = env
      /\ confirm' = confirm /\ tx' = tx /\ known' = known /\ listed' = listed
      /\ begun' = begun /\ behind' = behind /\ subs' = subs /\ posts' = posts
      /\ crashes' = crashes
  BY DEF disk, cars, bounds
<1>2. /\ facades' \in [Facades -> [phase : Phases, runs : Configs]]
      /\ \A i \in Facades : i # k => facades'[i] = facades[i]
      /\ facades'[k].phase = p /\ facades'[k].runs = facades[k].runs
      /\ \A i \in Facades : facades'[i] = NotBuilt <=> facades[i] = NotBuilt
  BY PhaseChanges
<1>3. TypeOK'
  BY <1>1, <1>2 DEF Base, TypeOK
<1>4. current # NoFacade
  BY DEF Base, OneFacade
<1>5. current \in Facades
  BY <1>4 DEF Base, TypeOK
<1>6. RunningIsCurrent'
  BY <1>1, <1>2 DEF Base, OneFacade, RunningIsCurrent
<1>7. \A i \in Facades : facades'[i].phase = "none" <=> facades'[i] = NotBuilt
  BY <1>2 DEF Base, OneFacade
<1>8. \A i \in Facades : /\ facades'[i].phase \in {"built", "starting"} => i = current
                         /\ facades'[i].phase = "stopping" => post'.pc = "wait"
  BY <1>2 DEF Base, OneFacade
<1>9. facades'[current].phase \notin {"none", "gone"}
  BY <1>2, <1>4, <1>5 DEF Base, OneFacade
<1>10. post'.pc \in {"wait", "build"} =>
         facades'[current].phase \notin {"built", "starting", "running"}
  BY <1>2, <1>5
<1>. QED BY <1>1, <1>3, <1>4, <1>6, <1>7, <1>8, <1>9, <1>10 DEF Base, OneFacade

\* Start, and its end: a facade that starts is current, and not to be stopped
\* unless it is cancelled.
LEMMA BaseStart ==
  ASSUME Assumptions, Base, NEW k \in Facades, Start(k) \/ Run(k)
  PROVE  Base'
<1>1. PICK p : /\ facades' = [facades EXCEPT ![k].phase = p]
               /\ \/ facades[k].phase = "built" /\ p = "starting"
                  \/ facades[k].phase = "starting" /\ p = "running"
                  \/ facades[k].phase \in {"early", "straying", "cancelled"}
                     /\ p \in {"straying", "leaked", "stopped"}
  <2>1. CASE Start(k)
    BY <2>1 DEF Start, Base, TypeOK
  <2>2. CASE Run(k)
    BY <2>2 DEF Run, Base, TypeOK
  <2>. QED BY <2>1, <2>2
<1>2. post' = post /\ UNCHANGED <<disk, current, confirm, cars, subs, bounds, behind>>
  BY DEF Start, Run
<1>3. p \in Phases \ {"none", "gone", "built"} /\ p # "stopping"
  BY <1>1 DEF Phases
<1>4. p \in {"starting", "running"} => k = current /\ post.pc \notin {"wait", "build"}
  BY <1>1 DEF Base, OneFacade
<1>5. current # NoFacade /\ facades[k].phase \notin {"none", "gone"}
  BY <1>1 DEF Base, OneFacade
<1>6. post' \in [pc : Steps, old : Configs, cand : Configs]
  BY <1>2 DEF Base, TypeOK
<1>7. \A i \in Facades : i # k /\ facades[i].phase = "stopping" => post'.pc = "wait"
  BY <1>2 DEF Base, OneFacade
<1>8. post'.pc \in {"wait", "build"} =>
        /\ current # NoFacade /\ p \notin {"starting", "running"}
        /\ k # current => facades[current].phase \notin {"built", "starting", "running"}
  BY <1>2, <1>4, <1>5 DEF Base, OneFacade
<1>. QED BY <1>1, <1>2, <1>3, <1>4, <1>5, <1>6, <1>7, <1>8, BasePhase

\* Stop, and the end of the wait.
LEMMA BaseStop ==
  ASSUME Assumptions, Base, Stop \/ Stopped
  PROVE  Base'
<1>1. post.pc \in {"stop", "wait"} /\ current # NoFacade /\ current \in Facades
  BY DEF Stop, Stopped, Base, OneFacade, TypeOK
<1>2. UNCHANGED <<disk, current, confirm, cars, subs, bounds, behind>>
  BY DEF Stop, Stopped
<1>3. /\ post' \in [pc : Steps, old : Configs, cand : Configs]
      /\ Stop => post'.pc = "wait"
      /\ Stopped => post'.pc = "build"
  BY GotoType DEF Stop, Stopped, Steps
<1>4. Phase = facades[current].phase
  BY <1>1 DEF Phase
<1>5. \A i \in Facades : facades[i].phase = "stopping" => i = current
  BY DEF Base, OneFacade, RunningIsCurrent
<1>6. facades[current].phase \notin {"none", "gone"}
  BY <1>1 DEF Base, OneFacade
<1>7. ASSUME NEW p \in {"stopping", "early", "cancelled", "stopped"}, facades' = InPhase(p),
             Stop \/ p = "stopped"
      PROVE  Base'
  <2>1. facades' = [facades EXCEPT ![current].phase = p]
    BY <1>7 DEF InPhase
  <2>2. p \in Phases \ {"none", "gone", "built"} /\ p \notin {"starting", "running"}
    BY DEF Phases
  <2>3. p = "stopping" => post'.pc = "wait"
    BY <1>3, <1>7
  <2>. QED BY <1>1, <1>2, <1>3, <1>5, <1>6, <2>1, <2>2, <2>3, BasePhase
<1>8. CASE facades' = facades
  <2>1. Stop => facades[current].phase \notin {"built", "starting", "running"}
    <3>1. ASSUME NEW p, facades' = InPhase(p) PROVE facades[current].phase = p
      BY <1>1, <1>8, <3>1 DEF InPhase, Base, TypeOK
    <3>. QED BY <1>4, <3>1 DEF Stop, Serving
  <2>2. Stopped => facades[current].phase \notin {"built", "starting", "running", "stopping"}
    <3>1. SUFFICES ASSUME Stopped
                   PROVE  facades[current].phase \notin {"built", "starting", "running", "stopping"}
      OBVIOUS
    <3>2. facades[current].phase \notin {"built", "starting", "running"}
      BY <3>1 DEF Stopped, Base, OneFacade
    <3>. QED BY <1>1, <1>4, <1>8, <3>1, <3>2 DEF Stopped, InPhase, Base, TypeOK
  <2>3. \A i \in Facades : facades[i].phase = "stopping" => post'.pc = "wait"
    BY <1>3, <1>5, <2>2
  <2>. QED BY <1>1, <1>2, <1>3, <1>8, <2>1, <2>2, <2>3, BaseOther
           DEF Base, TypeOK, disk, cars, bounds
<1>. QED BY <1>7, <1>8 DEF Stop, Stopped
\* A hot change touches only what the current facade runs with.
LEMMA BaseRuns ==
  ASSUME Assumptions, Base, NEW r \in Configs,
         facades' = facades \/ facades' = [facades EXCEPT ![current].runs = r],
         post.pc \in {"charging", "level"},
         post' \in [pc : Steps, old : Configs, cand : Configs],
         post'.pc \notin {"wait", "build"}, behind' \in BOOLEAN,
         UNCHANGED <<disk, current, confirm, cars, subs, bounds>>
  PROVE  Base'
<1>1. /\ current' = current /\ stored' = stored /\ bak' = bak /\ env' = env
      /\ confirm' = confirm /\ tx' = tx /\ known' = known /\ listed' = listed
      /\ begun' = begun /\ subs' = subs /\ posts' = posts /\ crashes' = crashes
  BY DEF disk, cars, bounds
<1>2. current # NoFacade /\ \A i \in Facades : facades[i].phase # "stopping"
  BY DEF Base, OneFacade
<1>3. /\ facades' \in [Facades -> [phase : Phases, runs : Configs]]
      /\ \A i \in Facades : facades'[i].phase = facades[i].phase
      /\ \A i \in Facades : facades'[i] = NotBuilt <=> facades[i] = NotBuilt
  BY <1>2, RunsChange DEF Base, TypeOK
<1>4. TypeOK'
  BY <1>1, <1>3 DEF Base, TypeOK
<1>5. current \in Facades
  BY <1>2 DEF Base, TypeOK
<1>. QED BY <1>1, <1>2, <1>3, <1>4, <1>5 DEF Base, OneFacade, RunningIsCurrent

\* UpdateCharging: the charging parameters of the request, all or none.
LEMMA UpdateChargingFacts ==
  ASSUME Assumptions, Base, UpdateCharging
  PROVE  /\ current # NoFacade /\ current \in Facades
         /\ post' \in [pc : Steps, old : Configs, cand : Configs]
         /\ post'.pc = "level" /\ post'.old = post.old /\ post'.cand = post.cand
         /\ \E r \in Configs :
              /\ IF ChargingChanged(post)
                 THEN facades' = [facades EXCEPT ![current].runs = r] ELSE facades' = facades
              /\ \A f \in Fields : r[f] = IF f \in ChargingFields THEN post.cand[f]
                                          ELSE facades[current].runs[f]
<1> DEFINE r == [f \in Fields |-> IF f \in ChargingFields THEN post.cand[f]
                                  ELSE facades[current].runs[f]]
<1>1. post.pc = "charging"
  BY DEF UpdateCharging
<1>2. current # NoFacade
  BY <1>1 DEF Base, OneFacade
<1>3. current \in Facades
  BY <1>2 DEF Base, TypeOK
<1>4. post.cand \in Configs /\ facades[current].runs \in Configs
  BY <1>3 DEF Base, TypeOK
<1>5. r \in Configs
  BY <1>4 DEF Configs
<1>6. IF ChargingChanged(post) THEN facades' = [facades EXCEPT ![current].runs = r]
      ELSE facades' = facades
  BY <1>3 DEF UpdateCharging, Base, TypeOK
<1>7. post' = Goto("level") /\ "level" \in Steps
  BY DEF UpdateCharging, Steps
<1>8. \A f \in Fields : r[f] = IF f \in ChargingFields THEN post.cand[f]
                               ELSE facades[current].runs[f]
  OBVIOUS
<1> HIDE DEF r
<1>. QED BY <1>2, <1>3, <1>5, <1>6, <1>7, <1>8, GotoType

\* SetLogLevel: the level of the request, unless it is unknown.
LEMMA SetLogLevelFacts ==
  ASSUME Assumptions, Base, SetLogLevel
  PROVE  /\ current # NoFacade /\ current \in Facades
         /\ post' \in [pc : Steps, old : Configs, cand : Configs]
         /\ \/ /\ post'.pc = "idle" /\ facades' = facades
               /\ behind' = (behind \/ ChargingChanged(post))
            \/ /\ post'.pc = "backup" /\ post'.old = post.old /\ post'.cand = post.cand
               /\ behind' = behind
               /\ \/ facades' = facades /\ post.cand["level"] = post.old["level"]
                  \/ \E r \in Configs :
                       /\ facades' = [facades EXCEPT ![current].runs = r]
                       /\ r["level"] = post.cand["level"] /\ post.cand["level"] \in KnownLevels
                       /\ \A f \in Fields \ {"level"} : r[f] = facades[current].runs[f]
<1> DEFINE level == post.cand["level"]
           r == [facades[current].runs EXCEPT !["level"] = level]
           refused == level # post.old["level"] /\ level \notin KnownLevels
<1>1. post.pc = "level"
  BY DEF SetLogLevel
<1>2. current # NoFacade
  BY <1>1 DEF Base, OneFacade
<1>3. current \in Facades
  BY <1>2 DEF Base, TypeOK
<1>4. post.cand \in Configs /\ facades[current].runs \in Configs /\ behind \in BOOLEAN
  BY <1>3 DEF Base, TypeOK
<1>5. /\ r \in Configs /\ r["level"] = level
      /\ \A f \in Fields \ {"level"} : r[f] = facades[current].runs[f]
  BY <1>4 DEF Configs, Fields
<1>6. /\ post' = IF refused THEN Idle ELSE Goto("backup")
      /\ behind' = (behind \/ (refused /\ ChargingChanged(post)))
      /\ facades' = IF refused \/ level = post.old["level"] THEN facades
                    ELSE [facades EXCEPT ![current].runs = r]
  BY <1>3 DEF SetLogLevel, Base, TypeOK
<1>7. Idle.pc = "idle" /\ Idle \in [pc : Steps, old : Configs, cand : Configs]
  BY ValuesTyped DEF Idle
<1>8. "backup" \in Steps
  BY DEF Steps
<1>9. /\ Goto("backup") \in [pc : Steps, old : Configs, cand : Configs]
      /\ Goto("backup").pc = "backup" /\ Goto("backup").old = post.old
      /\ Goto("backup").cand = post.cand
  BY <1>8, GotoType
<1> HIDE DEF r, level
<1>10. CASE refused
  BY <1>2, <1>3, <1>4, <1>6, <1>7, <1>10
<1>11. CASE ~refused
  <2>1. behind' = behind
    BY <1>4, <1>6, <1>11
  <2>2. CASE level = post.old["level"]
    <3>1. facades' = facades
      BY <1>6, <2>2
    <3>. QED BY <1>2, <1>3, <1>6, <1>9, <1>11, <2>1, <2>2, <3>1 DEF level
  <2>3. CASE level # post.old["level"]
    <3>1. facades' = [facades EXCEPT ![current].runs = r] /\ level \in KnownLevels
      BY <1>6, <1>11, <2>3
    <3>. QED BY <1>2, <1>3, <1>5, <1>6, <1>9, <1>11, <2>1, <3>1 DEF level
  <2>. QED BY <2>2, <2>3
<1>. QED BY <1>10, <1>11

\* The two halves of a hot change.
LEMMA BaseHot ==
  ASSUME Assumptions, Base, UpdateCharging \/ SetLogLevel
  PROVE  Base'
<1>1. /\ UNCHANGED <<disk, current, confirm, cars, subs, bounds>>
      /\ post.pc \in {"charging", "level"}
  BY DEF UpdateCharging, SetLogLevel
<1>2. behind' \in BOOLEAN
  BY DEF UpdateCharging, SetLogLevel, Base, TypeOK
<1>3. /\ post' \in [pc : Steps, old : Configs, cand : Configs]
      /\ post'.pc \notin {"wait", "build"}
  BY UpdateChargingFacts, SetLogLevelFacts
<1>4. PICK r \in Configs : facades' = facades \/ facades' = [facades EXCEPT ![current].runs = r]
  BY UpdateChargingFacts, SetLogLevelFacts, ValuesTyped
<1>. QED BY <1>1, <1>2, <1>3, <1>4, BaseRuns
\* buildFacade, when nothing that was current runs: the next number is current.
LEMMA BaseBuildFacade ==
  ASSUME Assumptions, Base, NEW c \in Configs, NEW k, BuildFacade(c, k),
         \A i \in Facades : facades[i].phase \notin {"built", "starting", "running", "stopping"},
         post'.pc = "idle", post' \in [pc : Steps, old : Configs, cand : Configs],
         UNCHANGED <<disk, confirm, tx, bounds>>
  PROVE  Base'
<1>1. /\ k \in Facades /\ facades[k] = NotBuilt /\ current' = k
      /\ facades' = [facades EXCEPT ![k] = New(c)]
      /\ known' = FALSE /\ listed' = FALSE /\ begun' = FALSE /\ behind' = FALSE
      /\ subs' = 0
      /\ \A j \in Facades : j < k => facades[j] # NotBuilt
  BY DEF BuildFacade
<1>2. New(c) \in [phase : Phases, runs : Configs] /\ New(c) # NotBuilt /\ New(c).phase = "built"
  BY NewType DEF New
<1>3. /\ facades' \in [Facades -> [phase : Phases, runs : Configs]]
      /\ facades'[k] = New(c) /\ \A i \in Facades : i # k => facades'[i] = facades[i]
  BY <1>1, <1>2 DEF Base, TypeOK
<1>4. /\ stored' = stored /\ bak' = bak /\ env' = env /\ confirm' = confirm /\ tx' = tx
      /\ posts' = posts /\ crashes' = crashes /\ subs' \in 0 .. MaxSubscribers
  BY <1>1 DEF disk, bounds, Assumptions, ApplyAssumption
<1>5. \A i, j \in Facades : (i < j /\ facades'[j] # NotBuilt) => facades'[i] # NotBuilt
  <2>1. SUFFICES ASSUME NEW i \in Facades, NEW j \in Facades, i < j, facades'[j] # NotBuilt,
                        i # k
                 PROVE  facades'[i] # NotBuilt
    BY <1>2, <1>3
  <2>2. CASE j = k
    BY <1>1, <1>3, <2>1, <2>2
  <2>3. CASE j # k
    BY <1>3, <2>1, <2>3 DEF Base, TypeOK
  <2>. QED BY <2>2, <2>3
<1>6. TypeOK'
  BY <1>1, <1>3, <1>4, <1>5 DEF Base, TypeOK
<1>7. k # NoFacade
  BY <1>1 DEF Facades, NoFacade, Assumptions, ApplyAssumption
<1>8. RunningIsCurrent'
  BY <1>1, <1>2, <1>3 DEF RunningIsCurrent
<1>9. \A i \in Facades : facades'[i].phase = "none" <=> facades'[i] = NotBuilt
  BY <1>1, <1>2, <1>3 DEF Base, OneFacade
<1>. QED BY <1>1, <1>2, <1>3, <1>6, <1>7, <1>8, <1>9 DEF Base, OneFacade

\* Rebuild and the start of a process build the next facade.
LEMMA BaseBuild ==
  ASSUME Assumptions, Base, Build \/ Boot
  PROVE  Base'
<1>1. /\ UNCHANGED <<disk, confirm, tx, bounds>>
      /\ post'.pc = "idle" /\ post' \in [pc : Steps, old : Configs, cand : Configs]
  BY ValuesTyped DEF Build, Boot, Idle, Base, OneFacade, TypeOK
<1>2. \A i \in Facades : facades[i].phase \notin {"built", "starting", "running", "stopping"}
  <2>1. CASE Build
    <3>1. post.pc = "build"
      BY <2>1 DEF Build
    <3>2. facades[current].phase \notin {"built", "starting", "running"}
      BY <3>1 DEF Base, OneFacade
    <3>. QED BY <3>1, <3>2 DEF Base, OneFacade, RunningIsCurrent
  <2>2. CASE Boot
    BY <2>2 DEF Boot, Base, OneFacade
  <2>. QED BY <2>1, <2>2
<1>3. post.cand \in Configs /\ Effective(stored, env) \in Configs
  BY EffectiveFacts DEF Base, TypeOK
<1>4. PICK c \in Configs, k \in Facades : BuildFacade(c, k)
  BY <1>3 DEF Build, Boot
<1>. QED BY <1>1, <1>2, <1>4, BaseBuildFacade

\* A kill ends every facade.
LEMMA BaseCrash ==
  ASSUME Assumptions, Base, Crash
  PROVE  Base'
<1>1. /\ current' = NoFacade /\ post' = Idle /\ confirm' = FALSE /\ known' = FALSE
      /\ listed' = FALSE /\ begun' = FALSE /\ subs' = 0
      /\ crashes < MaxCrashes /\ crashes' = crashes + 1
      /\ stored' = stored /\ bak' = bak /\ env' = env /\ tx' = tx /\ posts' = posts
      /\ behind' = behind
  BY DEF Crash, disk
<1>2. facades' = [i \in Facades |-> IF facades[i] = NotBuilt THEN NotBuilt
                                    ELSE [facades[i] EXCEPT !.phase = "gone"]]
  BY DEF Crash
<1>3. ASSUME NEW i \in Facades
      PROVE  /\ facades'[i] \in [phase : Phases, runs : Configs]
             /\ facades'[i] = NotBuilt <=> facades[i] = NotBuilt
             /\ facades[i] # NotBuilt => facades'[i].phase = "gone"
  <2>1. facades[i] \in [phase : Phases, runs : Configs]
    BY DEF Base, TypeOK
  <2>2. facades'[i] = IF facades[i] = NotBuilt THEN NotBuilt
                      ELSE [facades[i] EXCEPT !.phase = "gone"]
    BY <1>2
  <2>3. [facades[i] EXCEPT !.phase = "gone"].phase = "gone"
        /\ [facades[i] EXCEPT !.phase = "gone"] \in [phase : Phases, runs : Configs]
    BY <2>1 DEF Phases
  <2>4. [facades[i] EXCEPT !.phase = "gone"] # NotBuilt
    BY <2>3 DEF NotBuilt
  <2>. QED BY <2>2, <2>3, <2>4, ValuesTyped
<1>4. facades' \in [Facades -> [phase : Phases, runs : Configs]]
  BY <1>2, <1>3
<1>5. /\ Idle \in [pc : Steps, old : Configs, cand : Configs] /\ Idle.pc = "idle"
      /\ NotBuilt.phase = "none"
  BY ValuesTyped DEF Idle, NotBuilt
<1>6. crashes' \in 0 .. MaxCrashes /\ subs' \in 0 .. MaxSubscribers
  BY <1>1 DEF Base, TypeOK, Assumptions, ApplyAssumption
<1>7. TypeOK'
  BY <1>1, <1>3, <1>4, <1>5, <1>6 DEF Base, TypeOK
<1>8. \A i \in Facades : facades'[i].phase \in {"none", "gone"}
                         /\ (facades'[i].phase = "none" <=> facades'[i] = NotBuilt)
  BY <1>3, <1>5
<1>9. OneFacade'
  BY <1>1, <1>5, <1>8 DEF OneFacade, RunningIsCurrent
<1>. QED BY <1>7, <1>9 DEF Base

\* Every step keeps the types and the one facade.
LEMMA BaseStep == ASSUME Assumptions, Base, [Next]_vars PROVE Base'
<1>1. CASE \E form \in Forms, token \in BOOLEAN : Post(form, token)
  BY <1>1, BasePost
<1>2. CASE HasActiveSession \/ Backup \/ Rename \/ WriteFails \/ BuildFails
  BY <1>2, BaseHandler
<1>3. CASE UpdateCharging \/ SetLogLevel
  BY <1>3, BaseHot
<1>4. CASE Stop \/ Stopped
  BY <1>4, BaseStop
<1>5. CASE Build \/ Boot
  BY <1>5, BaseBuild
<1>6. CASE \E i \in Facades : Start(i) \/ Run(i)
  BY <1>6, BaseStart
<1>7. CASE Subscribe \/ Unsubscribe \/ StartTransaction \/ MeterValues \/ UpsertConnector
         \/ StopTransaction
  BY <1>7, BaseWorld
<1>8. CASE Crash
  BY <1>8, BaseCrash
<1>9. CASE UNCHANGED vars
  BY <1>9 DEF vars, disk, process, cars, bounds, Base, TypeOK, OneFacade, RunningIsCurrent
<1>. QED BY <1>1, <1>2, <1>3, <1>4, <1>5, <1>6, <1>7, <1>8, <1>9 DEF Next, Handler
-----------------------------------------------------------------------------
(* Safe limits                                                             *)

\* Steps that neither build a facade nor change what one runs with.
Others ==
  \/ \E form \in Forms, token \in BOOLEAN : Post(form, token)
  \/ HasActiveSession \/ Backup \/ Rename \/ WriteFails \/ Stop \/ Stopped \/ BuildFails
  \/ \E i \in Facades : Start(i) \/ Run(i)
  \/ Subscribe \/ Unsubscribe \/ StartTransaction \/ MeterValues \/ UpsertConnector
         \/ StopTransaction
  \/ Crash \/ UNCHANGED vars

\* They leave the configuration of every facade alone.
LEMMA RunsKept ==
  ASSUME Assumptions, Base, Others
  PROVE  \A i \in Facades : /\ facades'[i].runs = facades[i].runs
                            /\ facades'[i] = NotBuilt <=> facades[i] = NotBuilt
<1>1. ASSUME NEW k \in Facades, NEW p \in Phases \ {"none"}, facades[k].phase # "none",
             facades' = [facades EXCEPT ![k].phase = p]
      PROVE  \A i \in Facades : /\ facades'[i].runs = facades[i].runs
                                /\ facades'[i] = NotBuilt <=> facades[i] = NotBuilt
  BY <1>1, PhaseChanges
<1>2. CASE Stop \/ Stopped
  <2>1. current # NoFacade
    BY <1>2 DEF Stop, Stopped, Base, OneFacade
  <2>2. current \in Facades /\ facades[current].phase # "none"
    BY <2>1 DEF Base, OneFacade, TypeOK
  <2>3. \/ facades' = facades
        \/ \E p \in {"stopping", "early", "cancelled", "stopped"} :
             facades' = [facades EXCEPT ![current].phase = p]
    BY <1>2 DEF Stop, Stopped, InPhase
  <2>4. {"stopping", "early", "cancelled", "stopped"} \subseteq Phases \ {"none"}
    BY DEF Phases
  <2>. QED BY <1>1, <2>2, <2>3, <2>4
<1>3. ASSUME NEW k \in Facades, Start(k) \/ Run(k)
      PROVE  \A i \in Facades : /\ facades'[i].runs = facades[i].runs
                                /\ facades'[i] = NotBuilt <=> facades[i] = NotBuilt
  <2>1. facades[k].phase # "none"
    BY <1>3 DEF Start, Run
  <2>2. \E p \in {"starting", "straying", "running", "leaked", "stopped"} :
          facades' = [facades EXCEPT ![k].phase = p]
    BY <1>3 DEF Start, Run, Base, TypeOK
  <2>3. {"starting", "straying", "running", "leaked", "stopped"} \subseteq Phases \ {"none"}
    BY DEF Phases
  <2>. QED BY <1>1, <2>1, <2>2, <2>3
<1>4. CASE Crash
  <2>1. SUFFICES ASSUME NEW i \in Facades
                 PROVE  /\ facades'[i].runs = facades[i].runs
                        /\ facades'[i] = NotBuilt <=> facades[i] = NotBuilt
    OBVIOUS
  <2>2. facades'[i] = IF facades[i] = NotBuilt THEN NotBuilt
                      ELSE [facades[i] EXCEPT !.phase = "gone"]
    BY <1>4 DEF Crash
  <2>3. facades[i] \in [phase : Phases, runs : Configs]
    BY DEF Base, TypeOK
  <2>4. /\ [facades[i] EXCEPT !.phase = "gone"].phase = "gone"
        /\ [facades[i] EXCEPT !.phase = "gone"].runs = facades[i].runs
    BY <2>3
  <2>5. [facades[i] EXCEPT !.phase = "gone"] # NotBuilt
    BY <2>4 DEF NotBuilt
  <2>. QED BY <2>2, <2>4, <2>5
<1>5. CASE \/ \E form \in Forms, token \in BOOLEAN : Post(form, token)
           \/ HasActiveSession \/ Backup \/ Rename \/ WriteFails \/ BuildFails
           \/ Subscribe \/ Unsubscribe \/ StartTransaction \/ MeterValues \/ UpsertConnector
         \/ StopTransaction
           \/ UNCHANGED vars
  <2>1. facades' = facades
    BY <1>5 DEF Post, HasActiveSession, Backup, Rename, WriteFails, BuildFails, Subscribe,
       Unsubscribe, StartTransaction, MeterValues, UpsertConnector, StopTransaction,
       process, vars
  <2>. QED BY <2>1
<1>. QED BY <1>2, <1>3, <1>4, <1>5 DEF Others

\* What Others do to the request and to the file.
LEMMA PostKept ==
  ASSUME Assumptions, Base, Others
  PROVE  /\ env' = env /\ (current' = current \/ current' = NoFacade)
         /\ stored' = stored \/ (Rename /\ stored' = post.cand)
         /\ \/ post'.pc = "idle"
            \/ post'.cand = post.cand /\ post'.old = post.old /\ post.pc # "idle"
            \/ \E form \in Forms, token \in BOOLEAN : Post(form, token)
<1>1. Idle.pc = "idle"
  BY DEF Idle
<1>2. \A pc \in Steps : Goto(pc).cand = post.cand /\ Goto(pc).old = post.old
  BY GotoType
<1>3. {"backup", "rename", "stop", "wait", "build"} \subseteq Steps
  BY DEF Steps
<1>4. CASE \/ HasActiveSession \/ Backup \/ Rename \/ WriteFails \/ BuildFails
           \/ Stop \/ Stopped
  BY <1>1, <1>2, <1>3, <1>4
     DEF HasActiveSession, Backup, Rename, WriteFails, BuildFails, Stop, Stopped,
         disk, process
<1>5. CASE \/ \E i \in Facades : Start(i) \/ Run(i)
           \/ Subscribe \/ Unsubscribe \/ StartTransaction \/ MeterValues \/ UpsertConnector
         \/ StopTransaction
           \/ UNCHANGED vars
  BY <1>5 DEF Start, Run, Subscribe, Unsubscribe, StartTransaction, MeterValues,
              UpsertConnector, StopTransaction,
       vars, disk, process
<1>6. CASE Crash
  BY <1>1, <1>6 DEF Crash, disk
<1>7. CASE \E form \in Forms, token \in BOOLEAN : Post(form, token)
  BY <1>7 DEF Post, disk, process
<1>. QED BY <1>4, <1>5, <1>6, <1>7 DEF Others
\* The limits of a valid configuration, and of a facade made of it.
LEMMA ValidIsSafe ==
  ASSUME Assumptions, NEW c \in Configs, Valid(c)
  PROVE  /\ 6 <= c["min"] /\ c["min"] <= c["max"] /\ c["max"] <= 32
         /\ 6 <= New(c).runs["min"] /\ New(c).runs["min"] <= New(c).runs["max"]
         /\ New(c).runs["max"] <= 32
<1>1. c["min"] \in Nat /\ c["max"] \in Nat
  BY DEF Configs, Fields
<1>2. New(c).runs["min"] = c["min"] /\ New(c).runs["max"] = c["max"]
  BY BuiltFacts DEF New
<1>. QED BY <1>1, <1>2 DEF Valid

\* The first facade is made of a valid configuration.
LEMMA SafeInit == ASSUME Assumptions PROVE Init => SafeLimits
<1> SUFFICES ASSUME Init PROVE SafeLimits
  OBVIOUS
<1>1. stored \in Configs /\ env \in Envs /\ Valid(stored) /\ Valid(Effective(stored, env))
  BY DEF Init, Assumptions, ApplyAssumption
<1>2. Effective(stored, env) \in Configs
  BY <1>1, EffectiveFacts
<1>3. \A i \in Facades : facades[i] # NotBuilt => facades[i] = New(Effective(stored, env))
  BY DEF Init
<1>4. post.pc = "idle"
  BY DEF Init, Idle
<1>. QED BY <1>1, <1>2, <1>3, <1>4, ValidIsSafe DEF SafeLimits, LimitsAreSafe

\* A hot change gives the limits of a valid configuration, together.
LEMMA SafeHot ==
  ASSUME Assumptions, Base, SafeLimits, UpdateCharging \/ SetLogLevel
  PROVE  SafeLimits'
<1>1. stored' = stored /\ post.pc # "idle" /\ post.cand \in Configs
  BY DEF UpdateCharging, SetLogLevel, disk, Base, TypeOK
<1>2. current # NoFacade /\ current \in Facades /\ (post'.pc = "idle" \/ post'.cand = post.cand)
  BY UpdateChargingFacts, SetLogLevelFacts
<1>3. 6 <= post.cand["min"] /\ post.cand["min"] <= post.cand["max"] /\ post.cand["max"] <= 32
  BY <1>1, ValidIsSafe DEF SafeLimits
<1>4. \/ facades' = facades
      \/ \E r \in Configs :
           /\ facades' = [facades EXCEPT ![current].runs = r]
           /\ \/ r["min"] = post.cand["min"] /\ r["max"] = post.cand["max"]
              \/ r["min"] = facades[current].runs["min"] /\ r["max"] = facades[current].runs["max"]
  <2>1. CASE UpdateCharging
    <3>1. {"min", "max"} \subseteq Fields \cap ChargingFields
      BY DEF Fields, ChargingFields
    <3>. QED BY <2>1, <3>1, UpdateChargingFacts
  <2>2. CASE SetLogLevel
    <3>1. {"min", "max"} \subseteq Fields \ {"level"}
      BY DEF Fields
    <3>. QED BY <2>2, <3>1, SetLogLevelFacts
  <2>. QED BY <2>1, <2>2
<1>5. facades[current] # NotBuilt
  BY <1>2 DEF Base, OneFacade
<1>6. ASSUME NEW i \in Facades, facades'[i] # NotBuilt
      PROVE  /\ 6 <= facades'[i].runs["min"] /\ facades'[i].runs["max"] <= 32
             /\ facades'[i].runs["min"] <= facades'[i].runs["max"]
  <2>1. CASE facades' = facades
    BY <1>6, <2>1 DEF SafeLimits, LimitsAreSafe
  <2>2. ASSUME NEW r \in Configs, facades' = [facades EXCEPT ![current].runs = r],
               \/ r["min"] = post.cand["min"] /\ r["max"] = post.cand["max"]
               \/ /\ r["min"] = facades[current].runs["min"]
                  /\ r["max"] = facades[current].runs["max"]
        PROVE  /\ 6 <= facades'[i].runs["min"] /\ facades'[i].runs["max"] <= 32
               /\ facades'[i].runs["min"] <= facades'[i].runs["max"]
    <3>1. CASE i = current
      <4>1. facades'[i].runs = r
        BY <1>2, <2>2, <3>1, RunsChange
      <4>. QED BY <1>2, <1>3, <1>5, <2>2, <4>1 DEF SafeLimits, LimitsAreSafe
    <3>2. CASE i # current
      <4>1. facades'[i] = facades[i]
        BY <1>2, <2>2, <3>2, RunsChange
      <4>. QED BY <1>6, <4>1 DEF SafeLimits, LimitsAreSafe
    <3>. QED BY <3>1, <3>2
  <2>. QED BY <1>4, <2>1, <2>2
<1>7. post'.pc # "idle" => Valid(post'.cand)
  BY <1>1, <1>2 DEF SafeLimits
<1>. QED BY <1>1, <1>6, <1>7 DEF SafeLimits, LimitsAreSafe

\* A facade is built of a valid configuration.
LEMMA SafeBuild ==
  ASSUME Assumptions, Base, SafeLimits, Build \/ Boot
  PROVE  SafeLimits'
<1>1. stored' = stored /\ post'.pc = "idle"
  BY DEF Build, Boot, disk, Idle, Base, OneFacade
<1>2. Effective(stored, env) \in Configs /\ post.cand \in Configs
  BY EffectiveFacts DEF Base, TypeOK
<1>3. PICK c \in Configs, k \in Facades : BuildFacade(c, k) /\ Valid(c)
  BY <1>2 DEF Build, Boot, SafeLimits
<1>4. \A i \in Facades : facades'[i] = New(c) \/ facades'[i] = facades[i]
  BY <1>3 DEF BuildFacade, Base, TypeOK
<1>. QED BY <1>1, <1>3, <1>4, ValidIsSafe DEF SafeLimits, LimitsAreSafe

\* All else leaves what runs alone, and saves only what was validated.
LEMMA SafeOthers ==
  ASSUME Assumptions, Base, SafeLimits, Others
  PROVE  SafeLimits'
<1>1. \A i \in Facades : /\ facades'[i].runs = facades[i].runs
                         /\ facades'[i] = NotBuilt <=> facades[i] = NotBuilt
  BY RunsKept
<1>2. ASSUME stored' = stored PROVE LimitsAreSafe'
  BY <1>1, <1>2 DEF SafeLimits, LimitsAreSafe
<1>3. ASSUME Rename, stored' = post.cand PROVE LimitsAreSafe'
  <2>1. post.cand \in Configs /\ Valid(post.cand)
    BY <1>3 DEF Rename, Base, TypeOK, SafeLimits
  <2>. QED BY <1>1, <1>3, <2>1, ValidIsSafe DEF SafeLimits, LimitsAreSafe
<1>4. post'.pc # "idle" => Valid(post'.cand)
  BY PostKept, PostFacts DEF SafeLimits
<1>5. LimitsAreSafe'
  BY <1>2, <1>3, PostKept
<1>. QED BY <1>4, <1>5 DEF SafeLimits
-----------------------------------------------------------------------------
(* The class of the request, and the sessions it may tear down             *)

\* No request is at work.
LEMMA AskedIdle == ASSUME post.pc = "idle" PROVE Asked
BY DEF Asked, NoSilentTeardown

\* A request that goes on keeps its class; a rebuild gets past "ask" only if no
\* session is found, and any that can be found later is noted.
LEMMA AskedStep ==
  ASSUME Assumptions, Base, Asked, [Next]_vars
  PROVE  Asked'
<1>1. Idle.pc = "idle" /\ ApplyHot # ApplyRebuild /\ ApplyProcessRestart \notin {ApplyHot, ApplyRebuild}
  BY DEF Idle, ApplyHot, ApplyRebuild, ApplyProcessRestart
<1>2. ASSUME post'.pc = "idle" PROVE Asked'
  BY <1>2 DEF Asked, NoSilentTeardown
<1>3. ASSUME NEW form \in Forms, NEW token, Post(form, token)
      PROVE  Asked'
  <2>1. ClassOf(post') \in {ApplyHot, ApplyRebuild, ApplyProcessRestart}
    BY <1>3, PostFacts
  <2>2. /\ ClassOf(post') = ApplyHot => post'.pc = "charging"
        /\ ClassOf(post') = ApplyRebuild => post'.pc = "ask"
        /\ ClassOf(post') = ApplyProcessRestart => post'.pc = "backup"
    BY <1>1, <1>3, PostFacts
  <2>3. ClassOf(post)' = ClassOf(post')
    BY DEF ClassOf
  <2>. QED BY <1>1, <2>1, <2>2, <2>3 DEF Asked, NoSilentTeardown
<1>4. ASSUME HasActiveSession \/ Backup \/ Rename \/ WriteFails \/ BuildFails \/ Stop \/ Stopped
             \/ UpdateCharging \/ SetLogLevel,
             post'.pc # "idle"
      PROVE  Asked'
  <2>1. {"level", "backup", "rename", "stop", "wait", "build"} \subseteq Steps
    BY DEF Steps
  <2>2. post'.old = post.old /\ post'.cand = post.cand
    BY <1>1, <1>4, <2>1, GotoType
       DEF HasActiveSession, Backup, Rename, WriteFails, BuildFails, Stop, Stopped,
           UpdateCharging, SetLogLevel
  <2>3. ClassOf(post)' = ClassOf(post)
    BY <2>2 DEF ClassOf
  <2>4. \/ post.pc = "ask" /\ post'.pc = "backup" /\ ~(known /\ listed)
        \/ post.pc = "charging" /\ post'.pc = "level"
        \/ post.pc = "level" /\ post'.pc = "backup"
        \/ post.pc = "backup" /\ post'.pc = "rename"
        \/ post.pc = "rename" /\ post'.pc = "stop" /\ ClassOf(post) = ApplyRebuild
        \/ post.pc = "stop" /\ post'.pc = "wait"
        \/ post.pc = "wait" /\ post'.pc = "build"
    BY <1>1, <1>4, <2>1, GotoType
       DEF HasActiveSession, Backup, Rename, WriteFails, BuildFails, Stop, Stopped,
           UpdateCharging, SetLogLevel
  <2>5. known' = known /\ listed' = listed /\ (post.pc # "ask" => begun' = begun)
    BY <1>4 DEF HasActiveSession, Backup, Rename, WriteFails, BuildFails, Stop, Stopped,
           UpdateCharging, SetLogLevel, cars
  <2>. QED BY <1>1, <2>3, <2>4, <2>5 DEF Asked, NoSilentTeardown
<1>5. ASSUME Subscribe \/ Unsubscribe \/ StartTransaction \/ MeterValues \/ UpsertConnector
         \/ StopTransaction
             \/ (\E i \in Facades : Start(i) \/ Run(i)) \/ UNCHANGED vars
      PROVE  Asked'
  <2>1. post' = post
    BY <1>5 DEF Subscribe, Unsubscribe, StartTransaction, MeterValues, UpsertConnector,
                StopTransaction, Start, Run, vars
  <2>2. (known' /\ listed') => (begun' \/ (known /\ listed /\ begun' = begun))
    BY <1>5 DEF Subscribe, Unsubscribe, StartTransaction, MeterValues, UpsertConnector,
                StopTransaction, Start, Run,
           vars, cars
  <2>3. ClassOf(post)' = ClassOf(post)
    BY <2>1 DEF ClassOf
  <2>. QED BY <2>1, <2>2, <2>3 DEF Asked, NoSilentTeardown
<1>6. ASSUME Build \/ Boot \/ Crash PROVE post'.pc = "idle"
  BY <1>1, <1>6 DEF Build, Boot, Crash, Base, OneFacade
<1>. QED BY <1>2, <1>3, <1>4, <1>5, <1>6 DEF Next, Handler
-----------------------------------------------------------------------------
(* What the current facade runs with                                       *)

\* The first facade runs with what its process loaded.
LEMMA FollowsInit == ASSUME Assumptions PROVE Init => Follows
<1> SUFFICES ASSUME Init PROVE Follows
  OBVIOUS
<1>1. stored \in Configs /\ env \in Envs
  BY DEF Init, Assumptions, ApplyAssumption
<1>2. /\ Effective(stored, env) \in Configs
      /\ \A f \in Fields : env[f] = NoEnv => Effective(stored, env)[f] = stored[f]
  BY <1>1, EffectiveFacts
<1>3. post.pc = "idle" /\ facades[current] = New(Effective(stored, env))
  BY DEF Init, Idle, Facades, Assumptions, ApplyAssumption
<1>4. facades[current].runs = Built(Effective(stored, env))
  BY <1>3 DEF New
<1>5. RunsWith(Checked, stored)
  BY <1>1, <1>2, <1>4, BuiltFacts DEF RunsWith, Checked, Fields
<1>6. TunedTo(stored)
  BY <1>2, <1>4, BuiltFacts DEF TunedTo, Fields
<1>. QED BY <1>3, <1>5, <1>6 DEF Follows

\* A build: the new facade runs with what is in the file.
LEMMA FollowsBuild ==
  ASSUME Assumptions, Base, Follows, Build \/ Boot
  PROVE  Follows'
<1>1. stored' = stored /\ env' = env /\ post'.pc = "idle"
  BY DEF Build, Boot, disk, Idle, Base, OneFacade
<1>2. /\ Effective(stored, env) \in Configs /\ stored \in Configs
      /\ \A f \in Fields : env[f] = NoEnv => Effective(stored, env)[f] = stored[f]
  BY EffectiveFacts DEF Base, TypeOK
<1>3. PICK c \in Configs, k \in Facades :
        /\ BuildFacade(c, k) /\ c \in Configs
        /\ \A f \in Fields : env[f] = NoEnv => c[f] = stored[f]
  <2>1. CASE Build
    <3>1. stored = post.cand /\ post.cand \in Configs
      BY <2>1 DEF Build, Follows, Base, TypeOK
    <3>. QED BY <1>2, <2>1, <3>1 DEF Build
  <2>2. CASE Boot
    BY <1>2, <2>2 DEF Boot
  <2>. QED BY <2>1, <2>2
<1>4. facades'[current'] = New(c)
  BY <1>3 DEF BuildFacade, Base, TypeOK
<1>5. facades'[current'].runs = Built(c)
  BY <1>4 DEF New
<1>6. \A f \in Checked : env[f] = NoEnv => Built(c)[f] = Built(stored)[f]
  BY <1>2, <1>3, BuiltFacts DEF Checked, Fields
<1>7. c \in Configs /\ "min" \in Fields
  BY <1>3 DEF Fields
<1>8. env["min"] = NoEnv => Built(c)["safe"] = stored["min"]
  BY <1>3, <1>7, BuiltFacts
<1>9. Built(c)["cooldown"] = BuiltCooldown
  BY <1>7, BuiltFacts
<1>. QED BY <1>1, <1>5, <1>6, <1>8, <1>9 DEF Follows, RunsWith, TunedTo

\* UpdateCharging: the limits are those of the request, the rest is not yet.
LEMMA FollowsCharging ==
  ASSUME Assumptions, Base, Follows, Asked, UpdateCharging
  PROVE  Follows'
<1>1. /\ stored' = stored /\ env' = env /\ current' = current /\ behind' = behind
      /\ post.pc = "charging"
  BY DEF UpdateCharging, disk
<1>2. /\ current # NoFacade /\ current \in Facades
      /\ post'.pc = "level" /\ post'.old = post.old /\ post'.cand = post.cand
  BY UpdateChargingFacts
<1>3. PICK r \in Configs :
        /\ IF ChargingChanged(post)
           THEN facades' = [facades EXCEPT ![current].runs = r] ELSE facades' = facades
        /\ \A f \in Fields : r[f] = IF f \in ChargingFields THEN post.cand[f]
                                    ELSE facades[current].runs[f]
  BY UpdateChargingFacts
<1>4. /\ stored \in Configs /\ env \in Envs /\ post.cand \in Configs
      /\ \A f \in Fields : env[f] = NoEnv => post.old[f] = stored[f]
  BY <1>1, EffectiveFacts DEF Base, TypeOK, Follows
<1>5. ~behind => RunsWith(Checked, stored) /\ TunedTo(stored)
  BY <1>1, <1>2 DEF Follows
<1>6. facades'[current].runs = IF ChargingChanged(post) THEN r ELSE facades[current].runs
  BY <1>2, <1>3, RunsChange
<1>7. /\ {"min", "max"} \subseteq Checked \cap Fields \cap ChargingFields
      /\ {"level", "broker"} \subseteq (Checked \cap Fields) \ ChargingFields
  BY DEF Checked, Fields, ChargingFields
<1>8. ASSUME ~behind, NEW f \in {"min", "max"}, env[f] = NoEnv
      PROVE  facades'[current].runs[f] = Built(post.cand)[f]
  <2>1. Built(post.cand)[f] = post.cand[f] /\ Built(stored)[f] = stored[f]
    BY <1>4, BuiltFacts
  <2>2. CASE ChargingChanged(post)
    BY <1>3, <1>6, <1>7, <2>1, <2>2
  <2>3. CASE ~ChargingChanged(post)
    <3>1. post.old[f] = post.cand[f]
      BY <1>7, <2>3 DEF ChargingChanged
    <3>2. facades[current].runs[f] = Built(stored)[f]
      BY <1>5, <1>7, <1>8 DEF RunsWith
    <3>. QED BY <1>4, <1>6, <1>7, <1>8, <2>1, <2>3, <3>1, <3>2
  <2>. QED BY <2>2, <2>3
<1>9. ASSUME ~behind, NEW f \in {"level", "broker"}, env[f] = NoEnv
      PROVE  facades'[current].runs[f] = Built(stored)[f]
  <2>1. facades[current].runs[f] = Built(stored)[f]
    BY <1>5, <1>7, <1>9 DEF RunsWith
  <2>2. r[f] = facades[current].runs[f]
    BY <1>3, <1>7
  <2>. QED BY <1>6, <2>1, <2>2
<1>10. post'.old = Effective(stored', env')
  BY <1>1, <1>2 DEF Follows
<1>11. ASSUME ~behind PROVE TunedTo(post.cand)'
  <2>1. {"min", "safe", "cooldown"} \subseteq Fields \cap ChargingFields
    BY DEF Fields, ChargingFields
  <2>2. CASE ChargingChanged(post)
    BY <1>1, <1>2, <1>3, <1>6, <2>1, <2>2 DEF TunedTo
  <2>3. CASE ~ChargingChanged(post)
    <3>1. \A f \in {"min", "safe", "cooldown"} : post.old[f] = post.cand[f]
      BY <2>1, <2>3 DEF ChargingChanged
    <3>2. facades'[current].runs = facades[current].runs
      BY <1>6, <2>3
    <3>. QED BY <1>1, <1>2, <1>4, <1>5, <1>11, <2>1, <3>1, <3>2 DEF TunedTo
  <2>. QED BY <2>2, <2>3
<1>. QED BY <1>1, <1>2, <1>8, <1>9, <1>10, <1>11 DEF Follows, RunsWith

\* SetLogLevel: all of a hot change is applied, or the level is refused.
LEMMA FollowsLevel ==
  ASSUME Assumptions, Base, Follows, Asked, SetLogLevel
  PROVE  Follows'
<1>1. /\ stored' = stored /\ env' = env /\ current' = current
      /\ post.pc = "level"
  BY DEF SetLogLevel, disk
<1>2. /\ current # NoFacade /\ current \in Facades /\ ClassOf(post) = ApplyHot
      /\ post.old = Effective(stored, env)
  BY <1>1, SetLogLevelFacts DEF Asked, Follows
<1>3. /\ stored \in Configs /\ env \in Envs /\ post.cand \in Configs
      /\ \A f \in Fields : env[f] = NoEnv => post.old[f] = stored[f]
  BY <1>2, EffectiveFacts DEF Base, TypeOK
<1>4. ~behind => /\ \A f \in {"min", "max"} :
                      env[f] = NoEnv => facades[current].runs[f] = Built(post.cand)[f]
                 /\ \A f \in {"level", "broker"} :
                      env[f] = NoEnv => facades[current].runs[f] = Built(stored)[f]
              /\ TunedTo(post.cand)
  BY <1>1, <1>2 DEF Follows, RunsWith
<1>5. {"min", "max", "level", "broker"} \subseteq Fields /\ Checked = {"min", "max", "level", "broker"}
      /\ {"min", "max"} \subseteq ChargingFields
  BY DEF Fields, Checked, ChargingFields
<1>6. CASE /\ post'.pc = "idle" /\ facades' = facades
           /\ behind' = (behind \/ ChargingChanged(post))
  <2>1. ASSUME ~behind', NEW f \in Checked, env[f] = NoEnv
        PROVE  facades'[current].runs[f] = Built(stored)[f]
    <3>1. ~behind /\ ~ChargingChanged(post)
      BY <1>6, <2>1
    <3>2. CASE f \in {"min", "max"}
      <4>1. post.cand[f] = stored[f]
        BY <1>3, <1>5, <2>1, <3>1, <3>2 DEF ChargingChanged
      <4>2. Built(post.cand)[f] = Built(stored)[f]
        BY <1>3, <3>2, <4>1, BuiltFacts
      <4>. QED BY <1>4, <1>6, <2>1, <3>1, <3>2, <4>2
    <3>3. CASE f \in {"level", "broker"}
      BY <1>4, <1>6, <2>1, <3>1, <3>3
    <3>. QED BY <1>5, <2>1, <3>2, <3>3
  <2>2. ASSUME ~behind' PROVE TunedTo(stored)'
    <3>1. ~behind /\ ~ChargingChanged(post) /\ facades'[current].runs = facades[current].runs
      BY <1>6, <2>2
    <3>2. {"min", "safe", "cooldown"} \subseteq Fields \cap ChargingFields
      BY DEF Fields, ChargingFields
    <3>3. \A f \in {"min", "safe", "cooldown"} : post.old[f] = post.cand[f]
      BY <3>1, <3>2 DEF ChargingChanged
    <3>. QED BY <1>1, <1>3, <1>4, <3>1, <3>2, <3>3 DEF TunedTo
  <2>. QED BY <1>1, <1>6, <2>1, <2>2 DEF Follows, RunsWith
<1>7. CASE /\ post'.pc = "backup" /\ post'.old = post.old /\ post'.cand = post.cand
           /\ behind' = behind
           /\ \/ facades' = facades /\ post.cand["level"] = post.old["level"]
              \/ \E r \in Configs :
                   /\ facades' = [facades EXCEPT ![current].runs = r]
                   /\ r["level"] = post.cand["level"] /\ post.cand["level"] \in KnownLevels
                   /\ \A f \in Fields \ {"level"} : r[f] = facades[current].runs[f]
  <2>1. /\ \A f \in Fields \ {"level"} : facades'[current].runs[f] = facades[current].runs[f]
        /\ \/ facades' = facades /\ post.cand["level"] = post.old["level"]
           \/ /\ facades'[current].runs["level"] = post.cand["level"]
              /\ post.cand["level"] \in KnownLevels
    BY <1>2, <1>7, RunsChange
  <2>2. ASSUME ~behind, NEW f \in Checked, env[f] = NoEnv
        PROVE  facades'[current].runs[f] = Built(post.cand)[f]
    <3>1. CASE f \in {"min", "max"}
      BY <1>4, <1>5, <2>1, <2>2, <3>1
    <3>2. CASE f = "broker"
      <4>1. post.old["broker"] = post.cand["broker"]
        BY <1>2, HotKeepsBroker DEF ClassOf
      <4>2. Built(stored)["broker"] = stored["broker"]
            /\ Built(post.cand)["broker"] = post.cand["broker"]
        BY <1>3, BuiltFacts
      <4>3. facades'[current].runs[f] = Built(stored)[f]
        BY <1>4, <1>5, <2>1, <2>2, <3>2
      <4>. QED BY <1>3, <1>5, <2>2, <3>2, <4>1, <4>2, <4>3
    <3>3. CASE f = "level"
      <4>1. /\ Built(stored)["level"] = IF stored["level"] \in KnownLevels
                                        THEN stored["level"] ELSE DefaultLevel
            /\ Built(post.cand)["level"] = IF post.cand["level"] \in KnownLevels
                                           THEN post.cand["level"] ELSE DefaultLevel
        BY <1>3, BuiltFacts
      <4>2. post.old["level"] = stored["level"]
        BY <1>3, <1>5, <2>2, <3>3
      <4>3. facades[current].runs["level"] = Built(stored)["level"]
        BY <1>4, <2>2, <3>3
      <4>. QED BY <2>1, <3>3, <4>1, <4>2, <4>3
    <3>. QED BY <1>5, <3>1, <3>2, <3>3
  <2>3. ASSUME ~behind PROVE TunedTo(post.cand)'
    <3>1. {"safe", "cooldown"} \subseteq Fields \ {"level"}
      BY DEF Fields
    <3>. QED BY <1>1, <1>4, <1>7, <2>1, <2>3, <3>1 DEF TunedTo
  <2>. QED BY <1>1, <1>2, <1>7, <2>2, <2>3 DEF Follows, RunsWith, ClassOf
<1>. QED BY <1>6, <1>7, SetLogLevelFacts
\* All else moves the request on, or notes that the facade is left behind.
LEMMA FollowsOthers ==
  ASSUME Assumptions, Base, Follows, Asked, Others
  PROVE  Follows'
<1>1. /\ \A i \in Facades : facades'[i].runs = facades[i].runs
      /\ current # NoFacade => current \in Facades
      /\ env' = env
  BY RunsKept, PostKept DEF Base, TypeOK
<1>2. /\ Idle.pc = "idle" /\ ApplyHot # ApplyProcessRestart /\ ApplyHot # ApplyRebuild
  BY DEF Idle, ApplyHot, ApplyRebuild, ApplyProcessRestart
<1>3. ASSUME NEW form \in Forms, NEW token, Post(form, token)
      PROVE  Follows'
  <2>1. /\ stored' = stored /\ current' = current /\ facades' = facades /\ behind' = behind
        /\ post.pc = "idle"
    BY <1>3 DEF Post, disk, process
  <2>2. /\ post'.old = Effective(stored, env) /\ post'.pc \in {"charging", "ask", "backup"}
        /\ post'.pc = "backup" => ClassOf(post') # ApplyHot
    BY <1>3, PostFacts
  <2>3. (current # NoFacade /\ ~behind) => RunsWith(Checked, stored) /\ TunedTo(stored)
    BY <2>1 DEF Follows
  <2>. QED BY <1>1, <2>1, <2>2, <2>3 DEF Follows, RunsWith, TunedTo
<1>4. ASSUME HasActiveSession \/ Backup \/ WriteFails \/ BuildFails
      PROVE  Follows'
  <2>1. /\ stored' = stored /\ current' = current /\ facades' = facades
    BY <1>4 DEF HasActiveSession, Backup, WriteFails, BuildFails, disk, process
  <2>2. "backup" \in Steps /\ "rename" \in Steps
    BY DEF Steps
  <2>3. \/ /\ post.pc = "ask" /\ post'.pc = "idle" /\ behind' = behind
        \/ /\ post.pc = "ask" /\ post'.pc = "backup" /\ behind' = behind
           /\ post'.old = post.old /\ post'.cand = post.cand
        \/ /\ post.pc = "backup" /\ post'.pc = "rename" /\ behind' = behind
           /\ post'.old = post.old /\ post'.cand = post.cand
        \/ /\ post.pc \in {"backup", "rename"} /\ post'.pc = "idle"
           /\ behind' = (behind \/ ClassOf(post) = ApplyHot)
        \/ post'.pc = "idle" /\ behind' = TRUE
    BY <1>2, <1>4, <2>2, GotoType DEF HasActiveSession, Backup, WriteFails, BuildFails
  <2>4. post.pc = "ask" => ClassOf(post) # ApplyHot
    BY <1>2 DEF Asked
  <2>. QED BY <1>1, <2>1, <2>3, <2>4 DEF Follows, RunsWith, TunedTo, ClassOf
<1>5. ASSUME Rename PROVE Follows'
  <2>1. /\ stored' = post.cand /\ current' = current /\ facades' = facades /\ post.pc = "rename"
        /\ behind' = (behind \/ ClassOf(post) = ApplyProcessRestart)
    BY <1>5 DEF Rename, process
  <2>2. \/ post'.pc = "stop" /\ post'.cand = post.cand
        \/ post'.pc = "idle" /\ ClassOf(post) # ApplyRebuild
    BY <1>2, <1>5, GotoType DEF Rename, Steps
  <2>3. ClassOf(post) \in {ApplyHot, ApplyRebuild, ApplyProcessRestart}
    BY <2>1 DEF Asked
  <2>4. (current # NoFacade /\ ~behind /\ ClassOf(post) = ApplyHot) =>
          RunsWith(Checked, post.cand) /\ TunedTo(post.cand)
    BY <2>1 DEF Follows
  <2>. QED BY <1>1, <2>1, <2>2, <2>3, <2>4 DEF Follows, RunsWith, TunedTo
<1>6. ASSUME Stop \/ Stopped PROVE Follows'
  <2>1. /\ stored' = stored /\ post.pc \in {"stop", "wait"}
        /\ post'.pc \in {"wait", "build"} /\ post'.cand = post.cand
    BY <1>6, GotoType DEF Stop, Stopped, disk, Steps
  <2>. QED BY <2>1 DEF Follows
<1>7. ASSUME (\E i \in Facades : Start(i) \/ Run(i)) \/ Subscribe \/ Unsubscribe \/ StartTransaction
             \/ MeterValues \/ UpsertConnector \/ StopTransaction \/ UNCHANGED vars
      PROVE  Follows'
  <2>1. /\ stored' = stored /\ current' = current /\ post' = post /\ behind' = behind
    BY <1>7 DEF Start, Run, Subscribe, Unsubscribe, StartTransaction, MeterValues,
                UpsertConnector, StopTransaction,
         vars, disk, process
  <2>. QED BY <1>1, <2>1 DEF Follows, RunsWith, TunedTo, ClassOf
<1>8. ASSUME Crash PROVE Follows'
  <2>1. post'.pc = "idle" /\ current' = NoFacade
    BY <1>2, <1>8 DEF Crash
  <2>. QED BY <2>1 DEF Follows
<1>. QED BY <1>3, <1>4, <1>5, <1>6, <1>7, <1>8 DEF Others

\* The first facade has the entities of what its process loaded.
LEMMA EnergyInit == ASSUME Assumptions PROVE Init => EnergyFollows
<1> SUFFICES ASSUME Init PROVE EnergyFollows
  OBVIOUS
<1>1. stored \in Configs /\ env \in Envs /\ "energy" \in Fields
  BY DEF Init, Assumptions, ApplyAssumption, Fields
<1>2. /\ Effective(stored, env) \in Configs
      /\ env["energy"] = NoEnv => Effective(stored, env)["energy"] = stored["energy"]
  BY <1>1, EffectiveFacts
<1>3. post.pc = "idle" /\ facades[current].runs = Built(Effective(stored, env))
  BY DEF Init, Idle, New, Facades, Assumptions, ApplyAssumption
<1>. QED BY <1>2, <1>3, BuiltFacts DEF EnergyFollows

\* Every save drops the entities from the file; only a build takes them from it.
LEMMA EnergyStep ==
  ASSUME Assumptions, Base, EnergyFollows, Follows,
         UpdateCharging \/ SetLogLevel \/ Build \/ Boot \/ Others
  PROVE  EnergyFollows'
<1>1. current # NoFacade => current \in Facades
  BY DEF Base, TypeOK
<1>2. CASE UpdateCharging \/ SetLogLevel
  <2>1. /\ stored' = stored /\ env' = env /\ current' = current
        /\ post.pc \in {"charging", "level"}
    BY <1>2 DEF UpdateCharging, SetLogLevel, disk
  <2>2. post'.pc = "idle" \/ post'.cand = post.cand
    BY <1>2, UpdateChargingFacts, SetLogLevelFacts
  <2>3. "energy" \in Fields \ {"level"} /\ "energy" \notin ChargingFields
    BY DEF Fields, ChargingFields
  <2>4. facades' = facades
        \/ \E r \in Configs : /\ facades' = [facades EXCEPT ![current].runs = r]
                               /\ r["energy"] = facades[current].runs["energy"]
    <3>1. CASE UpdateCharging
      BY <2>3, <3>1, UpdateChargingFacts
    <3>2. CASE SetLogLevel
      BY <2>3, <3>2, SetLogLevelFacts
    <3>. QED BY <1>2, <3>1, <3>2
  <2>5. current # NoFacade =>
          facades'[current].runs["energy"] = facades[current].runs["energy"]
    BY <2>4, RunsChange
  <2>. QED BY <2>1, <2>2, <2>5 DEF EnergyFollows
<1>3. CASE Build \/ Boot
  <2>1. stored' = stored /\ env' = env /\ post'.pc = "idle"
    BY <1>3 DEF Build, Boot, disk, Idle, Base, OneFacade
  <2>2. /\ Effective(stored, env) \in Configs /\ "energy" \in Fields
        /\ env["energy"] = NoEnv => Effective(stored, env)["energy"] = stored["energy"]
    BY EffectiveFacts DEF Base, TypeOK, Fields
  <2>3. PICK c \in Configs, k \in Facades :
          /\ BuildFacade(c, k)
          /\ env["energy"] = NoEnv => stored["energy"] = c["energy"]
    <3>1. CASE Build
      BY <3>1 DEF Build, Follows, Base, TypeOK
    <3>2. CASE Boot
      BY <2>2, <3>2 DEF Boot
    <3>. QED BY <1>3, <3>1, <3>2
  <2>4. facades'[current'].runs = Built(c)
    BY <2>3 DEF BuildFacade, New, Base, TypeOK
  <2>. QED BY <2>1, <2>3, <2>4, BuiltFacts DEF EnergyFollows
<1>4. CASE Others
  <2>1. /\ \A i \in Facades : facades'[i].runs = facades[i].runs
        /\ env' = env /\ (current' = current \/ current' = NoFacade)
        /\ stored' = stored \/ (Rename /\ stored' = post.cand)
    BY <1>4, RunsKept, PostKept
  <2>2. Rename => post.pc # "idle"
    BY DEF Rename
  <2>3. post'.pc # "idle" => post'.cand["energy"] = Absent
    BY <1>4, PostKept, PostFacts DEF EnergyFollows
  <2>. QED BY <1>1, <2>1, <2>2, <2>3 DEF EnergyFollows
<1>. QED BY <1>2, <1>3, <1>4

-----------------------------------------------------------------------------
\* The inductive invariant: a rebuild meets no running facade because Stop and
\* the wait precede it, and saved limits are safe because the request at work was
\* validated.
IInv == Base /\ SafeLimits /\ Asked /\ Follows /\ EnergyFollows

\* The inductive invariant holds initially, and every step keeps it.
LEMMA IInvInductive ==
  ASSUME Assumptions
  PROVE  (Init => IInv) /\ (IInv /\ [Next]_vars => IInv')
<1>1. Init => IInv
  <2>1. Init => post.pc = "idle"
    BY DEF Init, Idle
  <2>. QED BY <2>1, BaseInit, SafeInit, AskedIdle, FollowsInit, EnergyInit DEF IInv
<1>2. ASSUME IInv, [Next]_vars PROVE IInv'
  <2>1. \/ UpdateCharging \/ SetLogLevel
        \/ Build \/ Boot
        \/ Others
    BY <1>2 DEF Next, Handler, Others
  <2>2. Base' /\ Asked'
    BY <1>2, BaseStep, AskedStep DEF IInv
  <2>3. SafeLimits'
    BY <1>2, <2>1, SafeHot, SafeBuild, SafeOthers DEF IInv
  <2>4. Follows'
    BY <1>2, <2>1, FollowsCharging, FollowsLevel, FollowsBuild, FollowsOthers DEF IInv
  <2>5. EnergyFollows'
    BY <1>2, <2>1, EnergyStep DEF IInv
  <2>. QED BY <2>2, <2>3, <2>4, <2>5 DEF IInv
<1>. QED BY <1>1, <1>2

\* So it always holds.
THEOREM IInvHolds == Spec => []IInv
<1>1. Assumptions
  BY ConfigAssumption, ApplyAssumption DEF Assumptions
<1>2. (Init => IInv) /\ (IInv /\ [Next]_vars => IInv')
  BY <1>1, IInvInductive
<1>. QED BY <1>2, PTL DEF Spec

\* The variables keep their types, facades are numbered without gaps, and the
\* file always holds a whole configuration.
THEOREM ConfigTypeCorrect == Spec => []TypeOK
<1>1. IInv => TypeOK
  BY DEF IInv, Base
<1>. QED BY <1>1, IInvHolds, PTL

\* Saved, half saved or hot-applied: every facade, and the next process, has
\* ordered limits inside 6..32 A.
THEOREM LimitsSafe == Spec => []LimitsAreSafe
<1>1. IInv => LimitsAreSafe
  BY DEF IInv, SafeLimits
<1>. QED BY <1>1, IInvHolds, PTL

\* Rebuild builds a facade only when the controller of the old one has ended.
THEOREM OneFacadeRuns == Spec => []RunningIsCurrent
<1>1. IInv => RunningIsCurrent
  BY DEF IInv, Base, OneFacade
<1>. QED BY <1>1, IInvHolds, PTL

\* A rebuild tears down no session that HasActiveSession could have found.
THEOREM NoneTornDown == Spec => []NoSilentTeardown
<1>1. IInv => NoSilentTeardown
  BY DEF IInv, Asked
<1>. QED BY <1>1, IInvHolds, PTL

\* What a restart changes: only what is known not to be applied or not to be
\* saved, what the environment sets, the safe current and cooldown of a hot
\* change, and the energy entities that a save dropped.
THEOREM RestartChangesOnly == Spec => []RestartEquivalent
<1>1. IInv => RestartEquivalent
  <2> SUFFICES ASSUME IInv, post.pc = "idle", current # NoFacade, ~behind
               PROVE  RestartEquivalent
    BY DEF RestartEquivalent
  <2>1. RunsWith(Checked, stored) /\ TunedTo(stored) /\ EnergyFollows
    BY DEF IInv, Follows
  <2>2. Built(stored)["safe"] = stored["min"] /\ Built(stored)["cooldown"] = BuiltCooldown
    BY BuiltFacts, ConfigAssumption, ApplyAssumption DEF Assumptions, IInv, Base, TypeOK
  <2>. QED BY <2>1, <2>2
           DEF RestartEquivalent, RunsWith, TunedTo, EnergyFollows, Checked
<1>. QED BY <1>1, IInvHolds, PTL
=============================================================================
