------------------------- MODULE ChargeControlProofs -------------------------
(***************************************************************************)
(* The control loop keeps its types, its cache of sent limits is right     *)
(* when no one commands beside it and no answer is lost, a charger with    *)
(* one connector stops after three low visits at the least, and no charger *)
(* holds a current from nowhere: for every set of chargers, samples and    *)
(* configurations.                                                         *)
(***************************************************************************)
EXTENDS ChargeControl, TLAPS

\* The counters of a charger stay below the thresholds they are compared with.
Counting ==
  \A c \in Chargers : IF memory[c].isStopped THEN memory[c].above <= 1
                                             ELSE memory[c].below <= 2

\* The controller has a key and an amount while it sends, and only then a key;
\* a stale tick knows its amount from its start.
Sending ==
  /\ ctl.pc \in {"default", "tx"} => ctl.key \in ctl.left /\ ctl.amps \in Nat
  /\ ctl.pc \notin {"default", "tx"} => ctl.key = NoKey
  /\ ctl.mode = "revert" => ctl.amps \in Nat

\* So does the MQTT handler.
Commanding ==
  /\ man.pc # "idle" => man.amps \in UserAmps
  /\ man.pc = "tx" => man.key \in Keys

\* The limits in force are those of one configuration.
FromConfigs == \E c \in Configs : limits = [min |-> c.min, max |-> c.max]

CInv == TypeOK /\ Counting /\ Sending /\ Commanding /\ FromConfigs

USE DEF StopConfirmTicks, RunConfirmTicks, NoLimit, Unset

-----------------------------------------------------------------------------
(* Compute *)

\* The ideal current of a sample is a natural number.
LEMMA IdealIsNat == ASSUME NEW s \in Sample PROVE IdealAmps(s) \in Nat
<1>1. Surplus(s) \in Int
  BY DEF Sample, Surplus
<1>2. \A x \in Nat : x \div GridVolt \in Nat
  BY GridVoltAssumption
<1>. QED BY <1>1, <1>2 DEF IdealAmps

\* The configurations give limits of the calculator.
LEMMA ConfigLimits ==
  ASSUME NEW c \in Configs
  PROVE  [min |-> c.min, max |-> c.max] \in Bounds /\ c.min \in Nat /\ c.safe \in Nat
BY ControlAssumption DEF Bounds

\* A reading counts towards the next flip, and a flip starts from zero.
LEMMA DebouncedCounts ==
  ASSUME NEW m \in Memory, NEW r \in Readings,
         IF m.isStopped THEN m.above <= 1 ELSE m.below <= 2
  PROVE  LET d == Debounced(m, r)
         IN /\ d \in Memory
            /\ IF d.isStopped THEN d.above <= 1 ELSE d.below <= 2
            /\ ~m.isStopped /\ d.isStopped => m.below = 2 /\ r = "low"
            /\ ~m.isStopped /\ ~d.isStopped => d.below = IF r = "low" THEN m.below + 1 ELSE 0
            /\ m.isStopped /\ ~d.isStopped => d.below = 0
<1>1. /\ m.isStopped \in BOOLEAN /\ m.below \in 0 .. 3 /\ m.above \in 0 .. 2
      /\ m.last \in Nat \cup {-1}
  BY DEF Memory
<1>d. PICK d : d = Debounced(m, r)
  OBVIOUS
<1> DEFINE Goal ==
      /\ d \in Memory
      /\ IF d.isStopped THEN d.above <= 1 ELSE d.below <= 2
      /\ ~m.isStopped /\ d.isStopped => m.below = 2 /\ r = "low"
      /\ ~m.isStopped /\ ~d.isStopped => d.below = IF r = "low" THEN m.below + 1 ELSE 0
      /\ m.isStopped /\ ~d.isStopped => d.below = 0
<1> SUFFICES Goal
  BY <1>d
<1>2. CASE m.isStopped /\ r = "low"
  <2>1. d = [isStopped |-> TRUE, below |-> m.below, above |-> 0, last |-> m.last]
    BY <1>d, <1>2 DEF Debounced
  <2>. QED BY <2>1, <1>1, <1>2 DEF Memory
<1>3. CASE m.isStopped /\ r = "high" /\ m.above + 1 >= 2
  <2>1. d = [isStopped |-> FALSE, below |-> 0, above |-> m.above + 1, last |-> m.last]
    BY <1>d, <1>3 DEF Debounced
  <2>. QED BY <2>1, <1>1, <1>3 DEF Memory
<1>4. CASE m.isStopped /\ r = "high" /\ ~(m.above + 1 >= 2)
  <2>1. d = [isStopped |-> TRUE, below |-> m.below, above |-> m.above + 1, last |-> m.last]
    BY <1>d, <1>4 DEF Debounced
  <2>. QED BY <2>1, <1>1, <1>4 DEF Memory
<1>5. CASE ~m.isStopped /\ r = "high"
  <2>1. d = [isStopped |-> FALSE, below |-> 0, above |-> m.above, last |-> m.last]
    BY <1>d, <1>5 DEF Debounced
  <2>. QED BY <2>1, <1>1, <1>5 DEF Memory
<1>6. CASE ~m.isStopped /\ r = "low" /\ m.below + 1 >= 3
  <2>1. d = [isStopped |-> TRUE, below |-> m.below + 1, above |-> 0, last |-> m.last]
    BY <1>d, <1>6 DEF Debounced
  <2>. QED BY <2>1, <1>1, <1>6 DEF Memory
<1>7. CASE ~m.isStopped /\ r = "low" /\ ~(m.below + 1 >= 3)
  <2>1. d = [isStopped |-> FALSE, below |-> m.below + 1, above |-> m.above, last |-> m.last]
    BY <1>d, <1>7 DEF Debounced
  <2>. QED BY <2>1, <1>1, <1>7 DEF Memory
<1>. QED BY <1>2, <1>3, <1>4, <1>5, <1>6, <1>7 DEF Readings

\* Compute keeps a charger's memory, and answers a natural number of amperes.
LEMMA ComputedCounts ==
  ASSUME NEW m \in Memory, NEW s \in Sample, NEW b \in Bounds,
         IF m.isStopped THEN m.above <= 1 ELSE m.below <= 2
  PROVE  LET n == Computed(m, s, b)
         IN /\ n \in Memory /\ n.last \in Nat
            /\ IF n.isStopped THEN n.above <= 1 ELSE n.below <= 2
            /\ ~m.isStopped /\ n.isStopped => m.below = 2 /\ WouldStop(s, b)
            /\ ~m.isStopped /\ ~n.isStopped => n.below = IF WouldStop(s, b) THEN m.below + 1 ELSE 0
            /\ m.isStopped /\ ~n.isStopped => n.below = 0
<1>r. PICK r \in Readings : r = Reading(s, b)
  BY DEF Reading, Readings
<1>d. PICK d : d = Debounced(m, r)
  OBVIOUS
<1>1. /\ d \in Memory
      /\ IF d.isStopped THEN d.above <= 1 ELSE d.below <= 2
      /\ ~m.isStopped /\ d.isStopped => m.below = 2 /\ r = "low"
      /\ ~m.isStopped /\ ~d.isStopped => d.below = IF r = "low" THEN m.below + 1 ELSE 0
      /\ m.isStopped /\ ~d.isStopped => d.below = 0
  BY <1>d, DebouncedCounts
<1>2. r = "low" <=> WouldStop(s, b)
  BY <1>r DEF Reading
<1>a. PICK a : a = LimitFor(d, s, b)
  OBVIOUS
<1>3. a \in Nat
  <2>1. b.min \in Nat /\ b.max \in Nat /\ IdealAmps(s) \in Nat
    BY IdealIsNat DEF Bounds
  <2>2. Capped(IdealAmps(s), b) \in Nat
    BY <2>1 DEF Capped
  <2>3. d.last \in Nat \cup {-1}
    BY <1>1 DEF Memory
  <2>4. d.last >= b.min => d.last \in Nat
    BY <2>1, <2>3
  <2>5. \A x : InHysteresisBand(d, x) => d.last \in Nat
    BY <2>3 DEF InHysteresisBand
  <2>. QED BY <1>a, <2>1, <2>2, <2>4, <2>5 DEF LimitFor
<1>n. PICK n : n = Computed(m, s, b)
  OBVIOUS
<1>4. n = [d EXCEPT !.last = a]
  BY <1>n, <1>r, <1>d, <1>a DEF Computed
<1>5. /\ n \in Memory /\ n.last = a /\ n.isStopped = d.isStopped
      /\ n.below = d.below /\ n.above = d.above
  BY <1>1, <1>3, <1>4 DEF Memory
<1>. QED BY <1>n, <1>1, <1>2, <1>3, <1>5
-----------------------------------------------------------------------------
(* Where the two goroutines stand                                          *)

\* The controller leaves a connector: it has no key then, and goes on with the
\* rest of the charger's.
LEMMA Left ==
  ASSUME NEW t \in CtlState, NEW k, NEW n, n = Leaving(t, k)
  PROVE  /\ n \in CtlState /\ n.key = NoKey /\ n.mode = t.mode /\ n.sample = t.sample
         /\ n.left = t.left \ {k} /\ n.todo = t.todo
         /\ n.pc = IF t.left = {k} THEN "chargers" ELSE "connectors"
         /\ n.mode = "revert" => n.amps = t.amps
<1>1. /\ t.pc \in {"idle", "chargers", "connectors", "default", "tx"}
      /\ t.mode \in {"none", "adjust", "revert"} /\ t.todo \in SUBSET Chargers
      /\ t.left \in SUBSET Keys /\ t.key \in Keys \cup {NoKey}
      /\ t.amps \in Nat \cup {-1} /\ t.sample \in Samples
  BY DEF CtlState
<1>2. PICK pc \in {"chargers", "connectors"} : pc = IF t.left = {k} THEN "chargers" ELSE "connectors"
  OBVIOUS
<1>3. PICK amps \in Nat \cup {-1} : amps = IF t.mode = "revert" THEN t.amps ELSE -1
  BY <1>1
<1>4. n = [pc |-> pc, mode |-> t.mode, todo |-> t.todo, left |-> t.left \ {k},
           key |-> NoKey, amps |-> amps, sample |-> t.sample]
  BY <1>2, <1>3 DEF Leaving, CtlState
<1>5. t.left \ {k} \in SUBSET Keys
  BY <1>1
<1>. QED BY <1>1, <1>2, <1>3, <1>4, <1>5 DEF CtlState

\* A connector whose limit is not known to be right is sent its limit.
LEMMA Sends ==
  ASSUME TypeOK, NEW k \in Keys, NEW amps \in Nat, SendUnlessCached(k, amps), k \in ctl.left
  PROVE  /\ ctl' \in CtlState /\ ctl'.mode = ctl.mode /\ ctl'.sample = ctl.sample
         /\ ctl'.todo = ctl.todo
         /\ \/ lastSet[k] = amps /\ ctl' = Leaving(ctl, k)
            \/ /\ lastSet[k] # amps
               /\ ctl'.pc = "default" /\ ctl'.key = k /\ ctl'.amps = amps /\ ctl'.left = ctl.left
<1>0. ctl \in CtlState
  BY DEF TypeOK
<1>1. CASE lastSet[k] = amps
  <2>1. ctl' = Leaving(ctl, k)
    BY <1>1 DEF SendUnlessCached
  <2>. QED BY <2>1, <1>0, <1>1, Left
<1>2. CASE lastSet[k] # amps
  <2>1. ctl' = [ctl EXCEPT !.pc = "default", !.key = k, !.amps = amps]
    BY <1>2 DEF SendUnlessCached
  <2>2. ctl' = [pc |-> "default", mode |-> ctl.mode, todo |-> ctl.todo, left |-> ctl.left,
                key |-> k, amps |-> amps, sample |-> ctl.sample]
    BY <2>1, <1>0 DEF CtlState
  <2>3. /\ ctl.mode \in {"none", "adjust", "revert"} /\ ctl.todo \in SUBSET Chargers
        /\ ctl.left \in SUBSET Keys /\ ctl.sample \in Samples
    BY <1>0 DEF CtlState
  <2>4. ctl' \in CtlState
    BY <2>2, <2>3 DEF CtlState
  <2>. QED BY <2>2, <2>4, <1>2
<1>. QED BY <1>1, <1>2

\* The initial states satisfy the invariant.
LEMMA CInit == Init => CInv
<1> SUFFICES ASSUME Init PROVE CInv
  OBVIOUS
<1>c. PICK c \in Configs : limits = [min |-> c.min, max |-> c.max] /\ safeAmps = c.min
  BY DEF Init
<1>1. limits \in Bounds /\ safeAmps \in Nat /\ FromConfigs
  BY <1>c, ConfigLimits DEF FromConfigs
<1>s. PICK s \in Samples : s = CHOOSE x \in Samples : TRUE
  BY ControlAssumption
<1>2. ctl = [pc |-> "idle", mode |-> "none", todo |-> {}, left |-> {},
             key |-> NoKey, amps |-> -1, sample |-> s]
  BY <1>s DEF Init, CtlIdle
<1>3. ctl \in CtlState /\ Sending
  <2>1. {} \in SUBSET Chargers /\ {} \in SUBSET Keys /\ NoKey \in Keys \cup {NoKey}
        /\ -1 \in Nat \cup {-1}
    OBVIOUS
  <2>2. ctl \in CtlState
    BY <1>2, <2>1 DEF CtlState
  <2>. QED BY <2>2, <1>2 DEF Sending
<1>4. man \in ManState /\ Commanding
  BY DEF Init, ManIdle, ManState, Commanding
<1>5. FreshMemory \in Memory /\ FreshMemory.isStopped = FALSE /\ FreshMemory.below = 0
  BY DEF FreshMemory, Memory
<1>6. memory \in [Chargers -> Memory] /\ Counting
  BY <1>5 DEF Init, Counting
<1>7. /\ {lastSet, txDefault, txProfile} \subseteq [Keys -> Nat \cup {-1}]
      /\ lowTicks \in [Chargers -> 0 .. 3]
      /\ webui \in Configs \cup {NoConfig}
      /\ online \subseteq Chargers /\ override \subseteq Chargers
      /\ charging \subseteq Keys /\ tx \subseteq Keys
      /\ {stale, enabled} \subseteq BOOLEAN
  BY DEF Init
<1>8. TypeOK
  BY <1>1, <1>3, <1>4, <1>6, <1>7 DEF TypeOK
<1>. QED BY <1>1, <1>3, <1>4, <1>6, <1>8 DEF CInv
-----------------------------------------------------------------------------
(* Every step keeps the types                                              *)

Amps == Nat \cup {-1}

\* The type invariant with its unordered pairs taken apart.
LEMMA TypeParts ==
  TypeOK <=> /\ online \subseteq Chargers /\ override \subseteq Chargers
             /\ charging \subseteq Keys /\ tx \subseteq Keys
             /\ stale \in BOOLEAN /\ enabled \in BOOLEAN
             /\ safeAmps \in Nat /\ limits \in Bounds
             /\ memory \in [Chargers -> Memory]
             /\ lastSet \in [Keys -> Amps] /\ txDefault \in [Keys -> Amps]
             /\ txProfile \in [Keys -> Amps]
             /\ ctl \in CtlState /\ man \in ManState
             /\ webui \in Configs \cup {NoConfig}
             /\ lowTicks \in [Chargers -> 0 .. 3]
BY DEF TypeOK, Amps

\* A profile that is sent is a limit in the charger, or nothing happens to it.
LEMMA SentTypes ==
  ASSUME TypeOK, NEW k \in Keys, NEW amps \in Nat
  PROVE  /\ \A out : SendDefault(k, amps, out) =>
              txDefault' \in [Keys -> Amps] /\ txProfile' \in [Keys -> Amps]
         /\ SendTx(k, amps) => txDefault' \in [Keys -> Amps] /\ txProfile' \in [Keys -> Amps]
<1>1. txDefault \in [Keys -> Amps] /\ txProfile \in [Keys -> Amps] /\ amps \in Amps
  BY TypeParts DEF Amps
<1>2. [txDefault EXCEPT ![k] = amps] \in [Keys -> Amps] /\ [txProfile EXCEPT ![k] = amps] \in [Keys -> Amps]
  BY <1>1
<1>3. ASSUME NEW out, SendDefault(k, amps, out)
      PROVE  txDefault' \in [Keys -> Amps] /\ txProfile' \in [Keys -> Amps]
  BY <1>1, <1>2, <1>3 DEF SendDefault
<1>4. ASSUME SendTx(k, amps)
      PROVE  txDefault' \in [Keys -> Amps] /\ txProfile' \in [Keys -> Amps]
  BY <1>1, <1>2, <1>4 DEF SendTx
<1>. QED BY <1>3, <1>4

\* A tick begins on a copy of the online chargers, and ends without any.
LEMMA CTick ==
  ASSUME CInv, TickBegin \/ TickEnd
  PROVE  CInv' /\ ctl'.left = {} /\ ctl'.pc \in {"idle", "chargers"}
<1>1. /\ UNCHANGED <<online, charging, tx, stale, enabled, override, safeAmps, limits, memory,
                     lastSet, man, webui, txDefault, txProfile, lowTicks>>
  BY DEF TickBegin, TickEnd, repos, control, devices
<1>2. /\ ctl' \in CtlState /\ Sending'
      /\ ctl'.left = {} /\ ctl'.pc \in {"idle", "chargers"}
  <2>0. /\ online \in SUBSET Chargers /\ safeAmps \in Nat /\ {} \in SUBSET Keys
        /\ {} \in SUBSET Chargers
    BY TypeParts DEF CInv
  <2>s. PICK s0 \in Samples : s0 = CHOOSE x \in Samples : TRUE
    BY ControlAssumption
  <2>i. CtlIdle = [pc |-> "idle", mode |-> "none", todo |-> {}, left |-> {},
                   key |-> NoKey, amps |-> -1, sample |-> s0]
    BY <2>s DEF CtlIdle
  <2>1. CASE TickBegin
    <3>1. PICK s \in Samples :
             ctl' = [CtlIdle EXCEPT !.pc = "chargers", !.todo = online,
                       !.mode = IF stale THEN "revert" ELSE "adjust",
                       !.amps = IF stale THEN safeAmps ELSE Unset,
                       !.sample = IF stale THEN @ ELSE s]
      BY <2>1 DEF TickBegin
    <3>2. CASE stale
      <4>1. ctl' = [pc |-> "chargers", mode |-> "revert", todo |-> online, left |-> {},
                    key |-> NoKey, amps |-> safeAmps, sample |-> s0]
        BY <2>i, <3>1, <3>2
      <4>2. ctl' \in CtlState
        BY <4>1, <2>0 DEF CtlState
      <4>. QED BY <4>1, <4>2, <2>0 DEF Sending
    <3>3. CASE ~stale
      <4>1. ctl' = [pc |-> "chargers", mode |-> "adjust", todo |-> online, left |-> {},
                    key |-> NoKey, amps |-> -1, sample |-> s]
        BY <2>i, <3>1, <3>3
      <4>2. ctl' \in CtlState
        BY <4>1, <2>0 DEF CtlState
      <4>. QED BY <4>1, <4>2, <2>0 DEF Sending
    <3>. QED BY <3>2, <3>3
  <2>2. CASE TickEnd
    <3>1. ctl' = [pc |-> "idle", mode |-> "none", todo |-> {}, left |-> {},
                  key |-> NoKey, amps |-> -1, sample |-> s0]
      BY <2>2, <2>i DEF TickEnd
    <3>2. ctl' \in CtlState
      BY <3>1, <2>0 DEF CtlState
    <3>. QED BY <3>1, <3>2 DEF Sending
  <2>. QED BY <2>1, <2>2
<1>3. TypeOK'
  BY <1>1, <1>2, TypeParts DEF CInv, TypeOK
<1>. QED BY <1>1, <1>2, <1>3 DEF CInv, Counting, Commanding, FromConfigs

\* The controller turns to a charger.
LEMMA Enters ==
  ASSUME CInv, NEW c \in Chargers, EnterCharger(c)
  PROVE  /\ ctl.pc = "chargers" /\ c \in ctl.todo
         /\ UNCHANGED <<online, charging, tx, stale, enabled, override, safeAmps, limits, memory,
                        lastSet, man, webui, txDefault, txProfile>>
         /\ ctl' \in CtlState /\ ctl'.mode = ctl.mode /\ ctl'.sample = ctl.sample
         /\ ctl'.key = ctl.key /\ ctl'.amps = ctl.amps
         /\ \A k \in ctl'.left : k[1] = c
         /\ ctl'.pc = IF ctl'.left = {} THEN "chargers" ELSE "connectors"
         /\ lowTicks' = [lowTicks EXCEPT ![c] =
              IF ctl.mode # "adjust" \/ ctl'.left = {} THEN @
              ELSE IF WouldStop(ctl.sample, limits) THEN IF @ < 3 THEN @ + 1 ELSE @ ELSE 0]
         /\ lowTicks' \in [Chargers -> 0 .. 3]
<1>1. ctl \in CtlState /\ charging \subseteq Keys /\ lowTicks \in [Chargers -> 0 .. 3]
  BY TypeParts DEF CInv
<1>h. PICK here : here = {k \in charging : k[1] = c /\ ~(ctl.mode = "adjust" /\ c \in override)}
  OBVIOUS
<1>2. PICK pc \in {"chargers", "connectors"} : pc = IF here = {} THEN "chargers" ELSE "connectors"
  OBVIOUS
<1>3. /\ ctl.pc = "chargers" /\ c \in ctl.todo
      /\ ctl' = [ctl EXCEPT !.todo = @ \ {c}, !.left = here, !.pc = pc]
      /\ lowTicks' = [lowTicks EXCEPT ![c] =
              IF ctl.mode # "adjust" \/ here = {} THEN @
              ELSE IF WouldStop(ctl.sample, limits) THEN IF @ < 3 THEN @ + 1 ELSE @ ELSE 0]
  BY <1>h, <1>2 DEF EnterCharger
<1>4. ctl' = [pc |-> pc, mode |-> ctl.mode, todo |-> ctl.todo \ {c}, left |-> here,
              key |-> ctl.key, amps |-> ctl.amps, sample |-> ctl.sample]
  BY <1>1, <1>3 DEF CtlState
<1>5. /\ here \in SUBSET Keys /\ \A k \in here : k[1] = c
      /\ ctl.todo \ {c} \in SUBSET Chargers
      /\ ctl.mode \in {"none", "adjust", "revert"} /\ ctl.key \in Keys \cup {NoKey}
      /\ ctl.amps \in Nat \cup {-1} /\ ctl.sample \in Samples
  BY <1>1, <1>h DEF CtlState
<1>6. ctl' \in CtlState
  BY <1>4, <1>5, <1>2 DEF CtlState
<1>7. lowTicks' \in [Chargers -> 0 .. 3]
  <2>1. lowTicks[c] \in 0 .. 3
    BY <1>1
  <2>2. PICK n \in 0 .. 3 : n = IF ctl.mode # "adjust" \/ here = {} THEN lowTicks[c]
              ELSE IF WouldStop(ctl.sample, limits)
                   THEN IF lowTicks[c] < 3 THEN lowTicks[c] + 1 ELSE lowTicks[c] ELSE 0
    BY <2>1
  <2>3. lowTicks' = [lowTicks EXCEPT ![c] = n]
    BY <1>3, <2>2
  <2>. QED BY <2>2, <2>3, <1>1
<1>8. UNCHANGED <<online, charging, tx, stale, enabled, override, safeAmps, limits, memory,
                  lastSet, man, webui, txDefault, txProfile>>
  BY DEF EnterCharger, repos, control, devices
<1>. QED BY <1>2, <1>3, <1>4, <1>5, <1>6, <1>7, <1>8

\* Turning to a charger keeps the types.
LEMMA CEnter == ASSUME CInv, NEW c \in Chargers, EnterCharger(c) PROVE CInv'
<1>1. TypeOK'
  BY Enters, TypeParts DEF CInv, TypeOK
<1>2. Sending'
  BY Enters DEF CInv, Sending
<1>. QED BY <1>1, <1>2, Enters DEF CInv, Counting, Commanding, FromConfigs

\* processConnector computes and, unless the cache knows better, sends.
LEMMA CAdjust == ASSUME CInv, NEW k \in Keys, Adjust(k) PROVE CInv'
<1>c. PICK c \in Chargers : c = k[1]
  BY DEF Keys
<1>1. /\ memory \in [Chargers -> Memory] /\ limits \in Bounds /\ ctl.sample \in Sample
      /\ safeAmps \in Nat
  BY TypeParts, ControlAssumption DEF CInv, CtlState
<1>n. PICK n : n = Computed(memory[c], ctl.sample, limits)
  OBVIOUS
<1>2. /\ n \in Memory /\ n.last \in Nat
      /\ IF n.isStopped THEN n.above <= 1 ELSE n.below <= 2
  BY <1>1, <1>n, ComputedCounts DEF CInv, Counting
<1>a. PICK amps \in Nat : amps = IF n.isStopped THEN safeAmps ELSE n.last
  BY <1>1, <1>2
<1>3. /\ memory' = [memory EXCEPT ![c] = n] /\ SendUnlessCached(k, amps)
      /\ k \in ctl.left /\ ctl.mode = "adjust" /\ ctl.pc = "connectors"
      /\ UNCHANGED <<online, charging, tx, stale, enabled, override, safeAmps, limits, lastSet,
                     man, webui, txDefault, txProfile, lowTicks>>
  BY <1>c, <1>n, <1>a DEF Adjust, repos, devices
<1>4. /\ ctl' \in CtlState /\ ctl'.mode = ctl.mode
      /\ \/ ctl' = Leaving(ctl, k)
         \/ ctl'.pc = "default" /\ ctl'.key = k /\ ctl'.amps = amps /\ ctl'.left = ctl.left
  BY <1>3, Sends DEF CInv
<1>5. Sending'
  <2>1. CASE ctl' = Leaving(ctl, k)
    BY <2>1, <1>3, <1>4, Left, TypeParts DEF CInv, Sending
  <2>. QED BY <2>1, <1>3, <1>4 DEF Sending
<1>6. memory' \in [Chargers -> Memory] /\ Counting'
  BY <1>1, <1>2, <1>3 DEF CInv, Counting
<1>7. TypeOK'
  BY <1>3, <1>4, <1>6, TypeParts DEF CInv, TypeOK
<1>. QED BY <1>3, <1>5, <1>6, <1>7 DEF CInv, Commanding, FromConfigs

\* revertAllToSafe sends the safe current.
LEMMA CRevert == ASSUME CInv, NEW k \in Keys, Revert(k) PROVE CInv'
<1>1. /\ SendUnlessCached(k, ctl.amps) /\ k \in ctl.left /\ ctl.mode = "revert"
      /\ ctl.pc = "connectors"
      /\ UNCHANGED <<online, charging, tx, stale, enabled, override, safeAmps, limits, memory,
                     lastSet, man, webui, txDefault, txProfile, lowTicks>>
  BY DEF Revert, repos, control, devices
<1>2. ctl.amps \in Nat
  BY <1>1 DEF CInv, Sending
<1>3. /\ ctl' \in CtlState /\ ctl'.mode = ctl.mode
      /\ \/ ctl' = Leaving(ctl, k)
         \/ ctl'.pc = "default" /\ ctl'.key = k /\ ctl'.amps = ctl.amps /\ ctl'.left = ctl.left
  BY <1>1, <1>2, Sends DEF CInv
<1>4. Sending'
  <2>1. CASE ctl' = Leaving(ctl, k)
    BY <2>1, <1>1, <1>2, <1>3, Left, TypeParts DEF CInv, Sending
  <2>. QED BY <2>1, <1>1, <1>2, <1>3 DEF Sending
<1>5. TypeOK'
  BY <1>1, <1>3, TypeParts DEF CInv, TypeOK
<1>. QED BY <1>1, <1>4, <1>5 DEF CInv, Counting, Commanding, FromConfigs
\* The answers to the controller's commands.
LEMMA Answered ==
  ASSUME CInv, \/ ControllerTx
               \/ \E out \in {"ok", "lost", "failed"} : ControllerDefault(out)
  PROVE  /\ ctl.pc \in {"default", "tx"} /\ ctl.key \in Keys /\ ctl.key \in ctl.left
         /\ ctl.amps \in Nat
         /\ UNCHANGED <<online, charging, tx, stale, enabled, override, safeAmps, limits, memory,
                        man, webui, lowTicks>>
         /\ lastSet' \in [Keys -> Amps] /\ txDefault' \in [Keys -> Amps]
         /\ txProfile' \in [Keys -> Amps]
         /\ \/ ctl' = Leaving(ctl, ctl.key)
            \/ /\ ctl'.pc = "tx" /\ ctl'.key = ctl.key /\ ctl'.amps = ctl.amps
               /\ ctl'.left = ctl.left
         /\ ctl' \in CtlState /\ ctl'.mode = ctl.mode /\ ctl'.sample = ctl.sample
<1>1. /\ ctl.pc \in {"default", "tx"} /\ ctl.key \in ctl.left /\ ctl.amps \in Nat
      /\ UNCHANGED <<online, charging, tx, stale, enabled, override, safeAmps, limits, memory,
                     man, webui, lowTicks>>
  BY DEF ControllerTx, ControllerDefault, repos, CInv, Sending
<1>2. ctl \in CtlState /\ ctl.key \in Keys /\ lastSet \in [Keys -> Amps] /\ ctl.amps \in Amps
      /\ txDefault \in [Keys -> Amps] /\ txProfile \in [Keys -> Amps]
  BY <1>1, TypeParts DEF CInv, CtlState, Amps
<1>3. CASE ControllerTx
  <2>1. /\ ctl' = Leaving(ctl, ctl.key) /\ lastSet' = [lastSet EXCEPT ![ctl.key] = ctl.amps]
        /\ \/ SendTx(ctl.key, ctl.amps)
           \/ txDefault' = txDefault /\ txProfile' = txProfile
    BY <1>3 DEF ControllerTx, devices
  <2>2. txDefault' \in [Keys -> Amps] /\ txProfile' \in [Keys -> Amps]
    BY <2>1, <1>1, <1>2, SentTypes DEF CInv
  <2>3. lastSet' \in [Keys -> Amps]
    BY <2>1, <1>2
  <2>4. ctl' \in CtlState /\ ctl'.mode = ctl.mode /\ ctl'.sample = ctl.sample
    BY <2>1, <1>2, Left
  <2>. QED BY <1>1, <1>2, <2>1, <2>2, <2>3, <2>4
<1>4. ASSUME NEW out \in {"ok", "lost", "failed"}, ControllerDefault(out)
      PROVE  /\ lastSet' \in [Keys -> Amps] /\ txDefault' \in [Keys -> Amps]
             /\ txProfile' \in [Keys -> Amps]
             /\ \/ ctl' = Leaving(ctl, ctl.key)
                \/ /\ ctl'.pc = "tx" /\ ctl'.key = ctl.key /\ ctl'.amps = ctl.amps
                   /\ ctl'.left = ctl.left
             /\ ctl' \in CtlState /\ ctl'.mode = ctl.mode /\ ctl'.sample = ctl.sample
  <2>1. SendDefault(ctl.key, ctl.amps, out)
    BY <1>4 DEF ControllerDefault
  <2>2. txDefault' \in [Keys -> Amps] /\ txProfile' \in [Keys -> Amps]
    BY <2>1, <1>1, <1>2, SentTypes DEF CInv
  <2>3. CASE out = "ok" /\ ctl.key \in tx
    <3>1. ctl' = [ctl EXCEPT !.pc = "tx"] /\ lastSet' = lastSet
      BY <1>4, <2>3 DEF ControllerDefault
    <3>2. ctl' = [pc |-> "tx", mode |-> ctl.mode, todo |-> ctl.todo, left |-> ctl.left,
                  key |-> ctl.key, amps |-> ctl.amps, sample |-> ctl.sample]
      BY <3>1, <1>2 DEF CtlState
    <3>3. /\ ctl.mode \in {"none", "adjust", "revert"} /\ ctl.todo \in SUBSET Chargers
          /\ ctl.left \in SUBSET Keys /\ ctl.key \in Keys \cup {NoKey}
          /\ ctl.amps \in Nat \cup {-1} /\ ctl.sample \in Samples
      BY <1>2 DEF CtlState
    <3>4. ctl' \in CtlState
      BY <3>2, <3>3 DEF CtlState
    <3>. QED BY <3>1, <3>2, <3>4, <2>2, <1>2
  <2>4. CASE ~(out = "ok" /\ ctl.key \in tx)
    <3>1. /\ ctl' = Leaving(ctl, ctl.key)
          /\ \/ lastSet' = lastSet
             \/ lastSet' = [lastSet EXCEPT ![ctl.key] = ctl.amps]
      BY <1>4, <2>4 DEF ControllerDefault
    <3>2. lastSet' \in [Keys -> Amps]
      BY <3>1, <1>2
    <3>3. ctl' \in CtlState /\ ctl'.mode = ctl.mode /\ ctl'.sample = ctl.sample
      BY <3>1, <1>2, Left
    <3>. QED BY <3>1, <3>2, <3>3, <2>2
  <2>. QED BY <2>3, <2>4
<1>. QED BY <1>1, <1>2, <1>3, <1>4

\* They keep the types.
LEMMA CAnswer ==
  ASSUME CInv, \/ ControllerTx
               \/ \E out \in {"ok", "lost", "failed"} : ControllerDefault(out)
  PROVE  CInv'
<1>1. TypeOK'
  BY Answered, TypeParts DEF CInv, TypeOK, Amps
<1>2. Sending'
  <2>1. CASE ctl' = Leaving(ctl, ctl.key)
    BY <2>1, Answered, Left, TypeParts DEF CInv, Sending
  <2>2. CASE ctl'.pc = "tx" /\ ctl'.key = ctl.key /\ ctl'.amps = ctl.amps /\ ctl'.left = ctl.left
    BY <2>2, Answered DEF CInv, Sending
  <2>. QED BY <2>1, <2>2, Answered
<1>. QED BY <1>1, <1>2, Answered DEF CInv, Counting, Commanding, FromConfigs

\* The MQTT handler goes from connector to connector.
LEMMA CManual == ASSUME CInv, Manual PROVE CInv'
<1>1. UNCHANGED <<online, charging, tx, stale, enabled, safeAmps, limits, memory, lastSet, ctl,
                  webui, lowTicks>>
  BY DEF Manual, SetAmps, ManualDefault, ManualTx, ManualEnd, repos, control
<1>2. /\ man.pc \in {"idle", "connectors", "tx"} /\ man.for \in SUBSET Chargers
      /\ man.left \in SUBSET Keys /\ man.key \in Keys \cup {NoKey}
      /\ man.amps \in UserAmps \cup {-1} /\ man.sent \in BOOLEAN
      /\ man \in ManState /\ UserAmps \subseteq Nat
      /\ override \subseteq Chargers
      /\ txDefault \in [Keys -> Amps] /\ txProfile \in [Keys -> Amps]
  BY TypeParts, ControlAssumption DEF CInv, ManState
<1>3. /\ man' \in ManState /\ Commanding' /\ override' \subseteq Chargers
      /\ txDefault' \in [Keys -> Amps] /\ txProfile' \in [Keys -> Amps]
  <2>1. ASSUME NEW c \in Chargers, NEW a \in UserAmps, SetAmps(c, a) PROVE <1>3!:
    <3>1. man' = [pc |-> "connectors", for |-> {c}, left |-> {c} \X Connectors, key |-> NoKey,
                  amps |-> a, sent |-> FALSE]
      BY <2>1 DEF SetAmps, ManIdle
    <3>2. {c} \X Connectors \in SUBSET Keys /\ {c} \in SUBSET Chargers
      BY DEF Keys
    <3>3. man' \in ManState
      BY <3>1, <3>2 DEF ManState
    <3>4. UNCHANGED <<override, txDefault, txProfile>>
      BY <2>1 DEF SetAmps, control, devices
    <3>. QED BY <3>1, <3>3, <3>4, <1>2 DEF Commanding
  <2>2. ASSUME NEW k \in Keys, NEW out \in {"ok", "lost", "failed"}, ManualDefault(k, out)
        PROVE  <1>3!:
    <3>1. man.amps \in UserAmps /\ man.amps \in Nat /\ SendDefault(k, man.amps, out)
          /\ override' = override
      BY <2>2, <1>2 DEF ManualDefault, CInv, Commanding, control
    <3>t. PICK toTx \in BOOLEAN : toTx = (out = "ok" /\ k \in tx)
      OBVIOUS
    <3>s. PICK sent \in BOOLEAN : sent = (man.sent \/ out = "ok")
      OBVIOUS
    <3>k. PICK key \in {k, NoKey} : key = IF toTx THEN k ELSE NoKey
      OBVIOUS
    <3>p. PICK pc \in {"connectors", "tx"} : pc = IF toTx THEN "tx" ELSE "connectors"
      OBVIOUS
    <3>2. man' = [man EXCEPT !.sent = sent, !.left = @ \ {k}, !.key = key, !.pc = pc]
      BY <2>2, <3>t, <3>s, <3>k, <3>p DEF ManualDefault
    <3>3. man' = [pc |-> pc, for |-> man.for, left |-> man.left \ {k}, key |-> key,
                  amps |-> man.amps, sent |-> sent]
      BY <3>2, <1>2 DEF ManState
    <3>4. man.left \ {k} \in SUBSET Keys
      BY <1>2
    <3>5. man' \in ManState
      BY <3>3, <3>4, <1>2 DEF ManState
    <3>6. Commanding'
      BY <3>1, <3>3, <3>k, <3>p DEF Commanding
    <3>7. txDefault' \in [Keys -> Amps] /\ txProfile' \in [Keys -> Amps]
      BY <3>1, SentTypes DEF CInv
    <3>. QED BY <3>1, <3>5, <3>6, <3>7, <1>2
  <2>3. CASE ManualTx
    <3>1. /\ man.amps \in UserAmps /\ man.amps \in Nat /\ man.key \in Keys
          /\ \/ SendTx(man.key, man.amps)
             \/ txDefault' = txDefault /\ txProfile' = txProfile
          /\ man' = [man EXCEPT !.pc = "connectors", !.key = NoKey]
          /\ override' = override
      BY <2>3, <1>2 DEF ManualTx, CInv, Commanding, devices, control
    <3>2. man' = [pc |-> "connectors", for |-> man.for, left |-> man.left, key |-> NoKey,
                  amps |-> man.amps, sent |-> man.sent]
      BY <3>1, <1>2 DEF ManState
    <3>3. man' \in ManState
      BY <3>2, <1>2 DEF ManState
    <3>4. Commanding'
      BY <3>1, <3>2 DEF Commanding
    <3>5. txDefault' \in [Keys -> Amps] /\ txProfile' \in [Keys -> Amps]
      BY <3>1, <1>2, SentTypes DEF CInv
    <3>. QED BY <3>1, <3>3, <3>4, <3>5, <1>2
  <2>4. CASE ManualEnd
    <3>1. /\ man' = ManIdle /\ UNCHANGED <<txDefault, txProfile>>
          /\ override' \subseteq Chargers
      BY <2>4, <1>2 DEF ManualEnd, devices
    <3>2. man' \in ManState /\ Commanding'
      BY <3>1 DEF ManIdle, ManState, Commanding
    <3>. QED BY <3>1, <3>2, <1>2
  <2>. QED BY <2>1, <2>2, <2>3, <2>4 DEF Manual
<1>4. TypeOK'
  BY <1>1, <1>3, TypeParts DEF CInv, TypeOK, Amps
<1>. QED BY <1>1, <1>3, <1>4 DEF CInv, Counting, Sending, FromConfigs

\* Toggles, the WebUI, and what happens around the program.
LEMMA COthers == ASSUME CInv, Toggles \/ WebUI \/ Environment PROVE CInv'
<1>1. UNCHANGED <<memory, lastSet, ctl, man, lowTicks>>
  <2>1. CASE Toggles
    BY <2>1 DEF Toggles, SetSmartCharging, SetChargingMode
  <2>2. CASE WebUI
    BY <2>2 DEF WebUI, UpdateSafeAmps, UpdateLimits
  <2>3. CASE Environment
    BY <2>3 DEF Environment, EnergyData, Connect, Disconnect, StatusNotification,
                StartTransaction, StopTransaction, control
  <2>. QED BY <2>1, <2>2, <2>3
<1>2. /\ online \subseteq Chargers /\ override \subseteq Chargers
      /\ charging \subseteq Keys /\ tx \subseteq Keys
      /\ stale \in BOOLEAN /\ enabled \in BOOLEAN
      /\ safeAmps \in Nat /\ limits \in Bounds /\ FromConfigs
      /\ txDefault \in [Keys -> Amps] /\ txProfile \in [Keys -> Amps]
      /\ webui \in Configs \cup {NoConfig}
  BY TypeParts DEF CInv
<1> DEFINE Rest ==
      /\ online \subseteq Chargers /\ override \subseteq Chargers
      /\ charging \subseteq Keys /\ tx \subseteq Keys
      /\ stale \in BOOLEAN /\ enabled \in BOOLEAN
      /\ safeAmps \in Nat /\ limits \in Bounds /\ FromConfigs
      /\ txDefault \in [Keys -> Amps] /\ txProfile \in [Keys -> Amps]
      /\ webui \in Configs \cup {NoConfig}
<1>3. Rest'
  <2>1. CASE Toggles
    <3>1. UNCHANGED <<online, charging, tx, stale, safeAmps, limits, txDefault, txProfile, webui>>
      BY <2>1 DEF Toggles, SetSmartCharging, SetChargingMode, repos, devices
    <3>2. override' \subseteq Chargers /\ enabled' \in BOOLEAN
      BY <2>1, <1>2 DEF Toggles, SetSmartCharging, SetChargingMode
    <3>. QED BY <3>1, <3>2, <1>2 DEF FromConfigs
  <2>2. CASE WebUI
    <3>1. UNCHANGED <<online, charging, tx, stale, enabled, override, txDefault, txProfile>>
      BY <2>2 DEF WebUI, UpdateSafeAmps, UpdateLimits, repos, devices
    <3>2. CASE UpdateSafeAmps
      <4>1. /\ webui \in Configs /\ safeAmps' = webui.safe /\ webui' = NoConfig
            /\ limits' = limits
        BY <3>2, <1>2 DEF UpdateSafeAmps
      <4>2. safeAmps' \in Nat
        BY <4>1, ConfigLimits
      <4>. QED BY <4>1, <4>2, <3>1, <1>2 DEF FromConfigs
    <3>3. ASSUME NEW c \in Configs, UpdateLimits(c) PROVE Rest'
      <4>1. /\ limits' = [min |-> c.min, max |-> c.max] /\ webui' = c /\ safeAmps' = safeAmps
        BY <3>3 DEF UpdateLimits
      <4>. QED BY <4>1, <3>1, <1>2, ConfigLimits DEF FromConfigs
    <3>. QED BY <2>2, <3>2, <3>3 DEF WebUI
  <2>3. CASE Environment
    <3>1. UNCHANGED <<enabled, safeAmps, limits, webui>>
      BY <2>3 DEF Environment, EnergyData, Connect, Disconnect, StatusNotification,
                  StartTransaction, StopTransaction, control
    <3>2. ASSUME EnergyData PROVE Rest'
      BY <3>1, <3>2, <1>2 DEF EnergyData, repos, control, devices, FromConfigs
    <3>3. ASSUME NEW c \in Chargers, Connect(c) PROVE Rest'
      BY <3>1, <3>3, <1>2 DEF Connect, control, devices, FromConfigs
    <3>4. ASSUME NEW c \in Chargers, Disconnect(c) PROVE Rest'
      <4>1. /\ UNCHANGED <<charging, tx, stale>>
            /\ online' \subseteq Chargers /\ override' \subseteq Chargers
        BY <3>4, <1>2 DEF Disconnect
      <4>2. txDefault' \in [Keys -> Amps] /\ txProfile' \in [Keys -> Amps]
        <5>1. CASE UNCHANGED devices
          BY <5>1, <1>2 DEF devices
        <5>2. CASE /\ txDefault' = [k \in Keys |-> IF k[1] = c THEN Unset ELSE txDefault[k]]
                   /\ txProfile' = [k \in Keys |-> IF k[1] = c THEN Unset ELSE txProfile[k]]
          <6>1. Unset \in Amps
            BY DEF Amps
          <6>. QED BY <5>2, <6>1, <1>2
        <5>. QED BY <3>4, <5>1, <5>2 DEF Disconnect
      <4>. QED BY <3>1, <4>1, <4>2, <1>2 DEF FromConfigs
    <3>5. ASSUME NEW k \in Keys, StatusNotification(k) PROVE Rest'
      BY <3>1, <3>5, <1>2 DEF StatusNotification, control, devices, FromConfigs
    <3>6. ASSUME NEW k \in Keys, StartTransaction(k) PROVE Rest'
      BY <3>1, <3>6, <1>2 DEF StartTransaction, control, devices, FromConfigs
    <3>7. ASSUME NEW k \in Keys, StopTransaction(k) PROVE Rest'
      <4>1. /\ UNCHANGED <<online, charging, stale, txDefault>>
            /\ tx' \subseteq Keys /\ override' \subseteq Chargers
            /\ txProfile' = [txProfile EXCEPT ![k] = Unset]
        BY <3>7, <1>2 DEF StopTransaction
      <4>2. Unset \in Amps
        BY DEF Amps
      <4>3. txProfile' \in [Keys -> Amps]
        BY <4>1, <4>2, <1>2
      <4>. QED BY <3>1, <4>1, <4>3, <1>2 DEF FromConfigs
    <3>. QED BY <2>3, <3>2, <3>3, <3>4, <3>5, <3>6, <3>7 DEF Environment
  <2>. QED BY <2>1, <2>2, <2>3
<1>4. TypeOK'
  BY <1>1, <1>3, TypeParts DEF CInv, TypeOK, Amps
<1>. QED BY <1>1, <1>3, <1>4 DEF CInv, Counting, Sending, Commanding

\* Every step keeps the invariant.
LEMMA CNext == ASSUME CInv, [Next]_vars PROVE CInv'
<1>1. CASE UNCHANGED vars
  BY <1>1 DEF vars, repos, control, devices, CInv, TypeOK, Counting, Sending, Commanding, FromConfigs
<1>2. CASE Controller
  BY <1>2, CTick, CEnter, CAdjust, CRevert, CAnswer DEF Controller
<1>. QED BY <1>1, <1>2, CManual, COthers DEF Next

\* The inductive invariant of the control loop.
THEOREM CInvHolds == Spec => []CInv
BY CInit, CNext, PTL DEF Spec

\* The controller, the MQTT handler and what they command keep their types; the
\* counters of Compute never leave their range.
THEOREM ControlTypeCorrect == Spec => []TypeOK
<1>1. CInv => TypeOK
  BY DEF CInv
<1>. QED BY <1>1, CInvHolds, PTL
-----------------------------------------------------------------------------
(* The cache of sent limits                                                *)

\* No one commands beside the controller, answers arrive, and chargers keep
\* their profiles: what CacheCoherent needs.
Alone == UserAmps = {} /\ AnswersGetLost = FALSE /\ ProfilesForgotten = FALSE

\* The cache is right but for the profile that was taken and awaits its second half.
Cached ==
  /\ man.pc = "idle"
  /\ \A k \in Keys : lastSet[k] # Unset /\ ~(ctl.pc = "tx" /\ ctl.key = k)
                       => txDefault[k] = lastSet[k]
  /\ ctl.pc = "tx" => txDefault[ctl.key] = ctl.amps

\* Before it sends, the controller touches neither cache nor chargers.
LEMMA CachedBefore ==
  ASSUME CInv, Cached,
         \/ TickBegin \/ TickEnd
         \/ \E c \in Chargers : EnterCharger(c)
         \/ \E k \in Keys : Adjust(k) \/ Revert(k)
  PROVE  Cached'
<1>1. UNCHANGED <<man, lastSet, txDefault>> /\ ctl.pc # "tx"
  BY DEF TickBegin, TickEnd, EnterCharger, Adjust, Revert, repos, control, devices
<1>2. ctl'.pc # "tx"
  <2>1. CASE TickBegin
    BY <2>1 DEF TickBegin, CtlIdle
  <2>2. CASE TickEnd
    BY <2>2 DEF TickEnd, CtlIdle
  <2>3. ASSUME NEW c \in Chargers, EnterCharger(c) PROVE ctl'.pc # "tx"
    BY <2>3, Enters
  <2>4. ASSUME NEW k \in Keys, Adjust(k) \/ Revert(k) PROVE ctl'.pc # "tx"
    <3>1. PICK amps : SendUnlessCached(k, amps)
      BY <2>4 DEF Adjust, Revert
    <3>2. ctl \in CtlState
      BY TypeParts DEF CInv
    <3>3. CASE ctl' = Leaving(ctl, k)
      BY <3>2, <3>3, Left
    <3>4. CASE ctl' = [ctl EXCEPT !.pc = "default", !.key = k, !.amps = amps]
      BY <3>2, <3>4 DEF CtlState
    <3>. QED BY <3>1, <3>3, <3>4 DEF SendUnlessCached
  <2>. QED BY <2>1, <2>2, <2>3, <2>4
<1>. QED BY <1>1, <1>2 DEF Cached

\* An answered default profile enters the cache with its second half at the latest.
LEMMA CachedAnswer ==
  ASSUME CInv, Cached, Alone,
         \/ ControllerTx
         \/ \E out \in {"ok", "lost", "failed"} : ControllerDefault(out)
  PROVE  Cached'
<1>k. PICK k \in Keys : k = ctl.key
  BY Answered
<1>1. /\ man' = man /\ ctl \in CtlState
      /\ lastSet \in [Keys -> Amps] /\ txDefault \in [Keys -> Amps] /\ ctl.amps \in Nat
  BY Answered, TypeParts DEF CInv
<1>2. CASE ControllerTx
  <2>1. /\ txDefault' = txDefault /\ lastSet' = [lastSet EXCEPT ![k] = ctl.amps]
        /\ ctl' = Leaving(ctl, k) /\ ctl.pc = "tx" /\ txDefault[k] = ctl.amps
    BY <1>2, <1>k DEF ControllerTx, SendTx, devices, Cached
  <2>2. ctl'.pc # "tx"
    BY <2>1, <1>1, Left
  <2>. QED BY <2>1, <2>2, <1>1, <1>k DEF Cached
<1>3. ASSUME NEW out \in {"ok", "lost", "failed"}, ControllerDefault(out) PROVE Cached'
  <2>1. /\ out \in {"ok", "failed"} /\ ctl.pc = "default"
        /\ txDefault' = IF out = "failed" THEN txDefault ELSE [txDefault EXCEPT ![k] = ctl.amps]
    BY <1>3, <1>k DEF ControllerDefault, SendDefault, DefaultOutcomes, Alone
  <2>2. CASE out = "failed"
    <3>1. ctl' = Leaving(ctl, k) /\ lastSet' = lastSet /\ txDefault' = txDefault
      BY <2>1, <2>2, <1>3, <1>k DEF ControllerDefault
    <3>2. ctl'.pc # "tx"
      BY <3>1, <1>1, Left
    <3>. QED BY <3>1, <3>2, <2>1, <1>1 DEF Cached
  <2>3. CASE out = "ok" /\ k \in tx
    <3>1. ctl' = [ctl EXCEPT !.pc = "tx"] /\ lastSet' = lastSet
          /\ txDefault' = [txDefault EXCEPT ![k] = ctl.amps]
      BY <2>1, <2>3, <1>3, <1>k DEF ControllerDefault
    <3>2. ctl'.pc = "tx" /\ ctl'.key = k /\ ctl'.amps = ctl.amps
      BY <3>1, <1>1, <1>k DEF CtlState
    <3>. QED BY <3>1, <3>2, <2>1, <1>1 DEF Cached
  <2>4. CASE out = "ok" /\ k \notin tx
    <3>1. ctl' = Leaving(ctl, k) /\ lastSet' = [lastSet EXCEPT ![k] = ctl.amps]
          /\ txDefault' = [txDefault EXCEPT ![k] = ctl.amps]
      BY <2>1, <2>4, <1>3, <1>k DEF ControllerDefault
    <3>2. ctl'.pc # "tx"
      BY <3>1, <1>1, Left
    <3>. QED BY <3>1, <3>2, <2>1, <1>1 DEF Cached
  <2>. QED BY <2>1, <2>2, <2>3, <2>4
<1>. QED BY <1>2, <1>3

\* Nothing else changes the cache, or a default profile.
LEMMA CachedElse ==
  ASSUME CInv, Cached, Alone,
         UNCHANGED vars \/ Manual \/ Toggles \/ WebUI \/ Environment
  PROVE  Cached'
<1>1. ~Manual
  BY DEF Manual, SetAmps, ManualDefault, ManualTx, ManualEnd, Cached, Alone
<1>2. UNCHANGED <<man, lastSet, ctl, txDefault>>
  <2>1. CASE UNCHANGED vars
    BY <2>1 DEF vars, control, devices
  <2>2. CASE Toggles
    BY <2>2 DEF Toggles, SetSmartCharging, SetChargingMode, devices
  <2>3. CASE WebUI
    BY <2>3 DEF WebUI, UpdateSafeAmps, UpdateLimits, devices
  <2>4. CASE Environment
    BY <2>4 DEF Environment, EnergyData, Connect, Disconnect, StatusNotification,
                StartTransaction, StopTransaction, control, devices, Alone
  <2>. QED BY <1>1, <2>1, <2>2, <2>3, <2>4
<1>. QED BY <1>2 DEF Cached

\* What lastSetAmps says a connector holds is what it holds, for every number of
\* chargers and connectors, as long as the controller commands alone.
THEOREM CacheIsRight == ASSUME Alone PROVE Spec => []CacheCoherent
<1>1. Init => Cached
  BY DEF Init, Cached, ManIdle, CtlIdle
<1>2. CInv /\ Cached /\ [Next]_vars => Cached'
  BY CachedBefore, CachedAnswer, CachedElse DEF Next, Controller
<1>3. Cached => CacheCoherent
  BY DEF Cached, CacheCoherent
<1>. QED BY <1>1, <1>2, <1>3, CInvHolds, PTL DEF Spec

-----------------------------------------------------------------------------
(* Three low visits before a stop                                          *)

\* A charger has one connector, and no new limit moves the threshold.
OneConnector == /\ \A i, j \in Connectors : i = j
                /\ \A c, d \in Configs : c.min = d.min

\* The controller is about to compute for charger c.
Due(c) == ctl.pc = "connectors" /\ ctl.mode = "adjust" /\ \E k \in ctl.left : k[1] = c

\* No low visit is missing in the count: of a charger that is due the one under
\* way is counted already.
Visited ==
  /\ \A j, k \in ctl.left : j[1] = k[1]
  /\ \A c \in Chargers : ~memory[c].isStopped =>
       IF Due(c) THEN WouldStop(ctl.sample, limits) => memory[c].below + 1 <= lowTicks[c]
                 ELSE memory[c].below <= lowTicks[c]

\* One charger, one key.
LEMMA OneKey ==
  ASSUME OneConnector, NEW j \in Keys, NEW k \in Keys, j[1] = k[1]
  PROVE  j = k
BY DEF OneConnector, Keys

\* What is left to visit is the one connector of a charger.
LEMMA LeftIsOne ==
  ASSUME CInv, OneConnector, Visited, NEW k \in ctl.left
  PROVE  ctl.left = {k} /\ k \in Keys
<1>1. ctl.left \subseteq Keys
  BY TypeParts DEF CInv, CtlState
<1>. QED BY <1>1, OneKey DEF Visited

\* A tick begins and ends between two visits.
LEMMA VisitedTick == ASSUME CInv, Visited, TickBegin \/ TickEnd PROVE Visited'
<1>1. UNCHANGED <<memory, lowTicks>> /\ ctl.pc \in {"idle", "chargers"}
  BY DEF TickBegin, TickEnd, control
<1>. QED BY <1>1, CTick DEF Visited, Due

\* A visit counts once, before Compute.
LEMMA VisitedEnter == ASSUME CInv, Visited, NEW c \in Chargers, EnterCharger(c) PROVE Visited'
<1>1. /\ ctl.pc = "chargers" /\ UNCHANGED <<memory, limits>>
      /\ ctl'.mode = ctl.mode /\ ctl'.sample = ctl.sample
      /\ \A k \in ctl'.left : k[1] = c
      /\ ctl'.pc = IF ctl'.left = {} THEN "chargers" ELSE "connectors"
  BY Enters
<1>2. /\ memory \in [Chargers -> Memory] /\ lowTicks \in [Chargers -> 0 .. 3]
  BY TypeParts DEF CInv
<1>3. \A d \in Chargers : ~memory[d].isStopped =>
         memory[d].below <= lowTicks[d] /\ memory[d].below \in 0 .. 2
  BY <1>1, <1>2 DEF Visited, Due, CInv, Counting, Memory
<1>n. PICK n : n = IF ctl.mode # "adjust" \/ ctl'.left = {} THEN lowTicks[c]
                   ELSE IF WouldStop(ctl.sample, limits)
                        THEN IF lowTicks[c] < 3 THEN lowTicks[c] + 1 ELSE lowTicks[c] ELSE 0
  OBVIOUS
<1>4. lowTicks' = [lowTicks EXCEPT ![c] = n]
  BY <1>n, Enters
<1>5. ASSUME NEW d \in Chargers, ~memory[d].isStopped
      PROVE  IF Due(d)' THEN WouldStop(ctl.sample, limits) => memory[d].below + 1 <= lowTicks'[d]
                        ELSE memory[d].below <= lowTicks'[d]
  <2>1. CASE d # c
    <3>1. ~Due(d)' /\ lowTicks'[d] = lowTicks[d]
      BY <2>1, <1>1, <1>2, <1>4 DEF Due
    <3>. QED BY <3>1, <1>3, <1>5
  <2>2. CASE d = c
    <3>1. lowTicks'[d] = n /\ lowTicks[d] \in 0 .. 3
      BY <2>2, <1>2, <1>4
    <3>2. Due(d)' <=> ctl.mode = "adjust" /\ ctl'.left # {}
      BY <2>2, <1>1 DEF Due
    <3>. QED BY <2>2, <3>1, <3>2, <1>n, <1>3, <1>5
  <2>. QED BY <2>1, <2>2
<1>. QED BY <1>1, <1>5 DEF Visited

\* Compute stops a charger at its third low visit at the earliest.
LEMMA VisitedAdjust ==
  ASSUME CInv, OneConnector, Visited, NEW k \in Keys, Adjust(k)
  PROVE  /\ Visited'
         /\ \A c \in Chargers : ~memory[c].isStopped /\ memory'[c].isStopped => lowTicks[c] >= 3
<1>c. PICK c \in Chargers : c = k[1]
  BY DEF Keys
<1>1. /\ memory \in [Chargers -> Memory] /\ limits \in Bounds /\ ctl.sample \in Sample
      /\ ctl \in CtlState /\ lowTicks \in [Chargers -> 0 .. 3]
  BY TypeParts, ControlAssumption DEF CInv, CtlState
<1>n. PICK n : n = Computed(memory[c], ctl.sample, limits)
  OBVIOUS
<1>2. PICK amps : /\ memory' = [memory EXCEPT ![c] = n] /\ SendUnlessCached(k, amps)
                  /\ k \in ctl.left /\ ctl.mode = "adjust" /\ ctl.pc = "connectors"
                  /\ UNCHANGED <<limits, lowTicks>>
  BY <1>c, <1>n DEF Adjust
<1>3. /\ ~memory[c].isStopped /\ n.isStopped =>
           memory[c].below = 2 /\ WouldStop(ctl.sample, limits)
      /\ ~memory[c].isStopped /\ ~n.isStopped =>
           n.below = IF WouldStop(ctl.sample, limits) THEN memory[c].below + 1 ELSE 0
      /\ memory[c].isStopped /\ ~n.isStopped => n.below = 0
  BY <1>1, <1>n, ComputedCounts DEF CInv, Counting
<1>4. ctl.left = {k}
  BY <1>2, LeftIsOne
<1>5. ~memory[c].isStopped /\ WouldStop(ctl.sample, limits) => memory[c].below + 1 <= lowTicks[c]
  BY <1>c, <1>2 DEF Visited, Due
<1>6. ctl'.left \subseteq {k} /\ ctl'.pc # "connectors"
  <2>1. CASE ctl' = Leaving(ctl, k)
    BY <2>1, <1>1, <1>4, Left
  <2>2. CASE ctl' = [ctl EXCEPT !.pc = "default", !.key = k, !.amps = amps]
    BY <2>2, <1>1, <1>4 DEF CtlState
  <2>. QED BY <2>1, <2>2, <1>2 DEF SendUnlessCached
<1>7. lowTicks[c] \in 0 .. 3
  BY <1>1
<1>8. ~n.isStopped => n.below <= lowTicks[c]
  BY <1>3, <1>5, <1>7
<1>9. ~memory[c].isStopped /\ n.isStopped => lowTicks[c] >= 3
  BY <1>3, <1>5, <1>7
<1>10. ASSUME NEW d \in Chargers, d # c
       PROVE  memory'[d] = memory[d] /\ (~memory[d].isStopped => memory[d].below <= lowTicks[d])
  <2>1. ~Due(d)
    BY <1>c, <1>4, <1>10 DEF Due
  <2>. QED BY <2>1, <1>1, <1>2, <1>10 DEF Visited
<1>11. memory'[c] = n
  BY <1>1, <1>2
<1>12. Visited'
  <2>1. \A d \in Chargers : ~Due(d)'
    BY <1>6 DEF Due
  <2>2. \A d \in Chargers : ~memory'[d].isStopped => memory'[d].below <= lowTicks[d]
    BY <1>8, <1>10, <1>11
  <2>. QED BY <2>1, <2>2, <1>2, <1>6 DEF Visited
<1>. QED BY <1>9, <1>10, <1>11, <1>12

\* Neither a revert nor an answer makes another charger due.
LEMMA VisitedSends ==
  ASSUME CInv, OneConnector, Visited,
         \/ \E k \in Keys : Revert(k)
         \/ ControllerTx
         \/ \E out \in {"ok", "lost", "failed"} : ControllerDefault(out)
  PROVE  Visited'
<1>0. ctl \in CtlState
  BY TypeParts DEF CInv
<1>1. UNCHANGED <<memory, lowTicks, limits>>
  BY DEF Revert, ControllerTx, ControllerDefault, control
<1>2. /\ ctl'.left \subseteq ctl.left
      /\ \A c \in Chargers : ~Due(c) /\ ~Due(c)'
  <2>1. ASSUME NEW k \in Keys, Revert(k) PROVE <1>2!:
    <3>1. /\ ctl.mode = "revert" /\ SendUnlessCached(k, ctl.amps)
      BY <2>1 DEF Revert
    <3>2. CASE ctl' = Leaving(ctl, k)
      BY <3>1, <3>2, <1>0, Left DEF Due
    <3>3. CASE ctl' = [ctl EXCEPT !.pc = "default", !.key = k, !.amps = ctl.amps]
      BY <3>1, <3>3, <1>0 DEF Due, CtlState
    <3>. QED BY <3>1, <3>2, <3>3 DEF SendUnlessCached
  <2>2. CASE \/ ControllerTx
             \/ \E out \in {"ok", "lost", "failed"} : ControllerDefault(out)
    <3>1. /\ ctl.pc \in {"default", "tx"} /\ ctl.left = {ctl.key}
          /\ \/ ctl' = Leaving(ctl, ctl.key)
             \/ ctl'.pc = "tx" /\ ctl'.left = ctl.left
      BY <2>2, Answered, LeftIsOne
    <3>2. CASE ctl' = Leaving(ctl, ctl.key)
      BY <3>1, <3>2, <1>0, Left DEF Due
    <3>3. CASE ctl'.pc = "tx" /\ ctl'.left = ctl.left
      BY <3>1, <3>3 DEF Due
    <3>. QED BY <3>1, <3>2, <3>3
  <2>. QED BY <2>1, <2>2
<1>. QED BY <1>1, <1>2 DEF Visited

\* No one else visits; other limits have the same minimum.
LEMMA VisitedElse ==
  ASSUME CInv, CInv', OneConnector, Visited,
         UNCHANGED vars \/ Manual \/ Toggles \/ WebUI \/ Environment
  PROVE  Visited' /\ memory' = memory
<1>1. UNCHANGED <<memory, ctl, lowTicks>>
  <2>1. CASE UNCHANGED vars
    BY <2>1 DEF vars, control
  <2>2. CASE Manual
    BY <2>2 DEF Manual, SetAmps, ManualDefault, ManualTx, ManualEnd, control
  <2>3. CASE Toggles
    BY <2>3 DEF Toggles, SetSmartCharging, SetChargingMode
  <2>4. CASE WebUI
    BY <2>4 DEF WebUI, UpdateSafeAmps, UpdateLimits
  <2>5. CASE Environment
    BY <2>5 DEF Environment, EnergyData, Connect, Disconnect, StatusNotification,
                StartTransaction, StopTransaction, control
  <2>. QED BY <2>1, <2>2, <2>3, <2>4, <2>5
<1>2. limits'.min = limits.min
  BY DEF CInv, FromConfigs, OneConnector
<1>3. WouldStop(ctl.sample, limits)' <=> WouldStop(ctl.sample, limits)
  BY <1>1, <1>2 DEF WouldStop, IdealAmps, Surplus
<1>. QED BY <1>1, <1>3 DEF Visited, Due

\* "3 consecutive below-threshold ticks to stop", for every number of chargers
\* that have one connector each.
THEOREM ThreeTicksFirst == ASSUME OneConnector PROVE Spec => ThreeTicksToStop
<1> DEFINE Late == \A c \in Chargers : ~memory[c].isStopped /\ memory'[c].isStopped
                                         => lowTicks[c] >= StopConfirmTicks
<1>1. Init => Visited
  BY DEF Init, Visited, Due, CtlIdle, FreshMemory
<1>2. CInv /\ Visited /\ [Next]_vars => Visited' /\ [Late]_vars
  <2> SUFFICES ASSUME CInv, Visited, [Next]_vars PROVE Visited' /\ Late
    OBVIOUS
  <2>1. CASE TickBegin \/ TickEnd
    BY <2>1, VisitedTick DEF TickBegin, TickEnd, control
  <2>2. ASSUME NEW c \in Chargers, EnterCharger(c) PROVE Visited' /\ Late
    BY <2>2, VisitedEnter DEF EnterCharger, control
  <2>3. ASSUME NEW k \in Keys, Adjust(k) PROVE Visited' /\ Late
    BY <2>3, VisitedAdjust
  <2>4. CASE \/ \E k \in Keys : Revert(k)
             \/ ControllerTx
             \/ \E out \in {"ok", "lost", "failed"} : ControllerDefault(out)
    BY <2>4, VisitedSends DEF Revert, ControllerTx, ControllerDefault, control
  <2>5. CASE UNCHANGED vars \/ Manual \/ Toggles \/ WebUI \/ Environment
    BY <2>5, CNext, VisitedElse
  <2>. QED BY <2>1, <2>2, <2>3, <2>4, <2>5 DEF Next, Controller
<1>. QED BY <1>1, <1>2, CInvHolds, PTL DEF Spec, ThreeTicksToStop
-----------------------------------------------------------------------------
(* Where the currents come from                                            *)

\* The currents that the configurations allow.
Allowed == {a \in Nat : \E c \in Configs : a = c.safe \/ (c.min <= a /\ a <= c.max)}

\* Whatever fails, is lost, is hot-applied between two steps or runs beside the
\* controller: a current it has set lies inside the limits of a configuration
\* or is its safe current, and any other that a charger holds is a user's.
CurrentsConfigured ==
  \A k \in Keys : /\ lastSet[k] \in Allowed \cup {Unset}
                  /\ txDefault[k] \in Allowed \cup UserAmps \cup {Unset}
                  /\ txProfile[k] \in Allowed \cup UserAmps \cup {Unset}

\* So do the current that it is sending, the safe current, and the limits that
\* the calculator remembers from earlier configurations.
AboutToSet ==
  /\ safeAmps \in Allowed
  /\ \A c \in Chargers : memory[c].last \in Allowed \cup {NoLimit}
  /\ ctl.pc \in {"default", "tx"} \/ ctl.mode = "revert" => ctl.amps \in Allowed

\* Compute answers a current of its configuration, or one that it remembered.
LEMMA ComputedAllowed ==
  ASSUME NEW m \in Memory, NEW s \in Sample, NEW c \in Configs, NEW b \in Bounds,
         b.min = c.min, b.max = c.max, m.last \in Allowed \cup {NoLimit}
  PROVE  Computed(m, s, b).last \in Allowed
<1>r. PICK r : r = Reading(s, b)
  OBVIOUS
<1>d. PICK d : d = Debounced(m, r)
  OBVIOUS
<1>1. d.last = m.last
  BY <1>d DEF Debounced
<1>2. /\ c.min \in Nat /\ c.max \in Nat /\ c.min <= c.max /\ IdealAmps(s) \in Nat
  BY IdealIsNat, ControlAssumption
<1>3. \A a \in Nat : c.min <= a /\ a <= c.max => a \in Allowed
  BY DEF Allowed
<1>4. -1 \notin Allowed /\ d.last \in Allowed \cup {-1}
  BY <1>1 DEF Allowed
<1>5. LimitFor(d, s, b) \in Allowed
  <2>1. b.min \in Allowed
    BY <1>2, <1>3
  <2>2. d.last >= b.min => d.last \in Allowed
    BY <1>2, <1>4
  <2>3. \A x : InHysteresisBand(d, x) => d.last \in Allowed
    BY <1>4 DEF InHysteresisBand
  <2>4. ~WouldStop(s, b) => Capped(IdealAmps(s), b) \in Allowed
    BY <1>2, <1>3 DEF WouldStop, Capped
  <2>. QED BY <2>1, <2>2, <2>3, <2>4 DEF LimitFor
<1>a. PICK a \in Allowed : a = LimitFor(d, s, b)
  BY <1>5
<1>6. PICK p, q, v : d = [isStopped |-> p, below |-> q, above |-> v, last |-> m.last]
  BY <1>d DEF Debounced
<1>n. PICK n : n = Computed(m, s, b)
  OBVIOUS
<1>7. n = [d EXCEPT !.last = a]
  BY <1>n, <1>r, <1>d, <1>a DEF Computed
<1>8. n.last = a
  BY <1>6, <1>7
<1>. QED BY <1>n, <1>8

\* A profile that is sent reaches one connector, or none.
LEMMA SentConfigured ==
  ASSUME TypeOK, CurrentsConfigured, NEW k \in Keys, NEW amps \in Allowed \cup UserAmps,
         \/ \E out : SendDefault(k, amps, out)
         \/ SendTx(k, amps)
         \/ UNCHANGED devices
  PROVE  \A j \in Keys : /\ txDefault'[j] \in Allowed \cup UserAmps \cup {Unset}
                         /\ txProfile'[j] \in Allowed \cup UserAmps \cup {Unset}
<1>1. txDefault \in [Keys -> Amps] /\ txProfile \in [Keys -> Amps]
  BY TypeParts
<1>2. /\ txDefault' = txDefault \/ txDefault' = [txDefault EXCEPT ![k] = amps]
      /\ txProfile' = txProfile \/ txProfile' = [txProfile EXCEPT ![k] = amps]
  BY DEF SendDefault, SendTx, devices
<1>. QED BY <1>1, <1>2 DEF CurrentsConfigured

\* The controller up to a command: what it is going to send was allowed.
LEMMA AllowedBefore ==
  ASSUME CInv, AboutToSet, CurrentsConfigured,
         \/ TickBegin \/ TickEnd
         \/ \E c \in Chargers : EnterCharger(c)
         \/ \E k \in Keys : Adjust(k) \/ Revert(k)
  PROVE  AboutToSet' /\ CurrentsConfigured'
<1>1. UNCHANGED <<safeAmps, lastSet, txDefault, txProfile>>
  BY DEF TickBegin, TickEnd, EnterCharger, Adjust, Revert, control, devices
<1>2. CurrentsConfigured'
  BY <1>1 DEF CurrentsConfigured
<1>3. ctl \in CtlState
  BY TypeParts DEF CInv
<1>4. ASSUME memory' = memory, ctl'.pc \in {"default", "tx"} \/ ctl'.mode = "revert" => ctl'.amps \in Allowed
      PROVE  AboutToSet'
  BY <1>1, <1>4 DEF AboutToSet
<1>5. CASE TickBegin
  <2>1. memory' = memory /\ ctl'.pc = "chargers"
    BY <1>5 DEF TickBegin, CtlIdle, control
  <2>2. ctl'.mode = "revert" => ctl'.amps = safeAmps
    BY <1>5 DEF TickBegin, CtlIdle
  <2>. QED BY <1>2, <1>4, <2>1, <2>2 DEF AboutToSet
<1>6. CASE TickEnd
  <2>1. memory' = memory /\ ctl'.pc = "idle" /\ ctl'.mode = "none"
    BY <1>6 DEF TickEnd, CtlIdle, control
  <2>. QED BY <1>2, <1>4, <2>1
<1>7. ASSUME NEW c \in Chargers, EnterCharger(c) PROVE AboutToSet'
  <2>1. /\ memory' = memory /\ ctl'.mode = ctl.mode /\ ctl'.amps = ctl.amps
        /\ ctl'.pc \notin {"default", "tx"}
    BY <1>7, Enters
  <2>. QED BY <1>4, <2>1 DEF AboutToSet
<1>8. ASSUME NEW k \in Keys, Revert(k) PROVE AboutToSet'
  <2>1. /\ memory' = memory /\ SendUnlessCached(k, ctl.amps) /\ k \in ctl.left
        /\ ctl.mode = "revert" /\ ctl.amps \in Allowed /\ ctl.amps \in Nat
    BY <1>8 DEF Revert, control, AboutToSet, CInv, Sending
  <2>2. ctl' = Leaving(ctl, k) \/ ctl'.amps = ctl.amps
    BY <2>1, Sends DEF CInv
  <2>3. ctl' = Leaving(ctl, k) => ctl'.amps = ctl.amps
    BY <1>3, <2>1, Left
  <2>. QED BY <1>4, <2>1, <2>2, <2>3
<1>9. ASSUME NEW k \in Keys, Adjust(k) PROVE AboutToSet'
  <2>c. PICK c \in Chargers : c = k[1]
    BY DEF Keys
  <2>b. PICK b \in Configs : limits = [min |-> b.min, max |-> b.max]
    BY DEF CInv, FromConfigs
  <2>1. /\ memory \in [Chargers -> Memory] /\ limits \in Bounds /\ ctl.sample \in Sample
        /\ safeAmps \in Allowed /\ memory[c].last \in Allowed \cup {NoLimit}
    BY TypeParts, ControlAssumption DEF CInv, CtlState, AboutToSet
  <2>n. PICK n : n = Computed(memory[c], ctl.sample, limits)
    OBVIOUS
  <2>2. n.last \in Allowed
    BY <2>1, <2>b, <2>n, ComputedAllowed
  <2>a. PICK amps \in Allowed : amps = IF n.isStopped THEN safeAmps ELSE n.last
    BY <2>1, <2>2
  <2>3. /\ memory' = [memory EXCEPT ![c] = n] /\ SendUnlessCached(k, amps)
        /\ k \in ctl.left /\ ctl.mode = "adjust"
    BY <1>9, <2>c, <2>n, <2>a DEF Adjust
  <2>4. \A d \in Chargers : memory'[d].last \in Allowed \cup {NoLimit}
    BY <2>1, <2>2, <2>3 DEF AboutToSet
  <2>5. amps \in Nat
    BY DEF Allowed
  <2>6. /\ ctl'.mode = "adjust"
        /\ ctl' = Leaving(ctl, k) \/ ctl'.amps = amps
    BY <2>3, <2>5, Sends DEF CInv
  <2>7. ctl' = Leaving(ctl, k) => ctl'.pc \notin {"default", "tx"}
    BY <1>3, Left
  <2>. QED BY <1>1, <2>1, <2>4, <2>6, <2>7 DEF AboutToSet
<1>. QED BY <1>2, <1>5, <1>6, <1>7, <1>8, <1>9

\* The answer to a command: the charger and the cache hold what was sent.
LEMMA AllowedAnswer ==
  ASSUME CInv, AboutToSet, CurrentsConfigured,
         \/ ControllerTx
         \/ \E out \in {"ok", "lost", "failed"} : ControllerDefault(out)
  PROVE  AboutToSet' /\ CurrentsConfigured'
<1>k. PICK k \in Keys : k = ctl.key
  BY Answered
<1>a. PICK amps \in Allowed : amps = ctl.amps
  BY Answered DEF AboutToSet
<1>1. /\ UNCHANGED <<safeAmps, memory>> /\ ctl'.mode = ctl.mode /\ ctl \in CtlState
      /\ lastSet \in [Keys -> Amps]
  BY Answered, TypeParts DEF CInv
<1>2. \/ \E out : SendDefault(k, amps, out)
      \/ SendTx(k, amps)
      \/ UNCHANGED devices
  BY <1>k, <1>a DEF ControllerTx, ControllerDefault
<1>3. \A j \in Keys : /\ txDefault'[j] \in Allowed \cup UserAmps \cup {Unset}
                      /\ txProfile'[j] \in Allowed \cup UserAmps \cup {Unset}
  BY <1>2, SentConfigured DEF CInv
<1>4. lastSet' = lastSet \/ lastSet' = [lastSet EXCEPT ![k] = amps]
  BY <1>k, <1>a DEF ControllerTx, ControllerDefault
<1>5. \A j \in Keys : lastSet'[j] \in Allowed \cup {Unset}
  BY <1>1, <1>4 DEF CurrentsConfigured
<1>6. ctl' = Leaving(ctl, ctl.key) \/ ctl'.amps = amps
  BY <1>a, Answered
<1>7. ctl' = Leaving(ctl, ctl.key) =>
        ctl'.pc \notin {"default", "tx"} /\ (ctl'.mode = "revert" => ctl'.amps = ctl.amps)
  BY <1>1, Left
<1>8. AboutToSet'
  BY <1>1, <1>a, <1>6, <1>7 DEF AboutToSet
<1>. QED BY <1>3, <1>5, <1>8 DEF CurrentsConfigured

\* The MQTT handler sends what a user asked for.
LEMMA AllowedManual ==
  ASSUME CInv, AboutToSet, CurrentsConfigured, Manual
  PROVE  AboutToSet' /\ CurrentsConfigured'
<1>1. UNCHANGED <<safeAmps, memory, lastSet, ctl>>
  BY DEF Manual, SetAmps, ManualDefault, ManualTx, ManualEnd, control
<1>2. \A j \in Keys : /\ txDefault'[j] \in Allowed \cup UserAmps \cup {Unset}
                      /\ txProfile'[j] \in Allowed \cup UserAmps \cup {Unset}
  <2>1. CASE UNCHANGED devices
    BY <2>1 DEF devices, CurrentsConfigured
  <2>2. ASSUME NEW k \in Keys, NEW out, ManualDefault(k, out) PROVE <1>2!:
    <3>1. man.amps \in UserAmps /\ SendDefault(k, man.amps, out)
      BY <2>2 DEF ManualDefault, CInv, Commanding
    <3>. QED BY <3>1, SentConfigured DEF CInv
  <2>3. CASE ManualTx
    <3>1. /\ man.amps \in UserAmps /\ man.key \in Keys
          /\ SendTx(man.key, man.amps) \/ UNCHANGED devices
      BY <2>3 DEF ManualTx, CInv, Commanding
    <3>. QED BY <3>1, SentConfigured DEF CInv
  <2>. QED BY <2>1, <2>2, <2>3 DEF Manual, SetAmps, ManualEnd
<1>. QED BY <1>1, <1>2 DEF AboutToSet, CurrentsConfigured

\* Elsewhere profiles are only lost, and a new safe current is configured.
LEMMA AllowedElse ==
  ASSUME CInv, AboutToSet, CurrentsConfigured,
         UNCHANGED vars \/ Toggles \/ WebUI \/ Environment
  PROVE  AboutToSet' /\ CurrentsConfigured'
<1>t. txDefault \in [Keys -> Amps] /\ txProfile \in [Keys -> Amps]
  BY TypeParts DEF CInv
<1>1. UNCHANGED <<memory, lastSet, ctl>>
  BY DEF vars, control, Toggles, SetSmartCharging, SetChargingMode, WebUI, UpdateSafeAmps, UpdateLimits,
     Environment, EnergyData, Connect, Disconnect, StatusNotification, StartTransaction,
     StopTransaction
<1>2. safeAmps' = safeAmps \/ safeAmps' \in Allowed
  <2>1. CASE UpdateSafeAmps
    <3>1. webui \in Configs /\ safeAmps' = webui.safe
      BY <2>1, TypeParts DEF UpdateSafeAmps, CInv
    <3>2. webui.safe \in Nat
      BY <3>1, ControlAssumption
    <3>. QED BY <3>1, <3>2 DEF Allowed
  <2>2. CASE UNCHANGED vars \/ Toggles \/ Environment \/ \E c \in Configs : UpdateLimits(c)
    BY <2>2 DEF vars, control, Toggles, SetSmartCharging, SetChargingMode, UpdateLimits,
       Environment, EnergyData, Connect, Disconnect, StatusNotification, StartTransaction,
       StopTransaction
  <2>. QED BY <2>1, <2>2 DEF WebUI
<1>3. \A j \in Keys : /\ txDefault'[j] \in {txDefault[j], Unset}
                      /\ txProfile'[j] \in {txProfile[j], Unset}
  <2>1. CASE UNCHANGED devices
    BY <2>1 DEF devices
  <2>2. ASSUME NEW c \in Chargers, Disconnect(c) PROVE <1>3!:
    BY <2>2, <1>t DEF Disconnect, devices
  <2>3. ASSUME NEW k \in Keys, StopTransaction(k) PROVE <1>3!:
    BY <2>3, <1>t DEF StopTransaction
  <2>4. \/ UNCHANGED devices
        \/ \E c \in Chargers : Disconnect(c)
        \/ \E k \in Keys : StopTransaction(k)
    BY DEF vars, Toggles, SetSmartCharging, SetChargingMode, WebUI, UpdateSafeAmps, UpdateLimits,
       Environment, EnergyData, Connect, StatusNotification, StartTransaction
  <2>. QED BY <2>1, <2>2, <2>3, <2>4
<1>4. AboutToSet'
  BY <1>1, <1>2 DEF AboutToSet
<1>5. CurrentsConfigured'
  BY <1>1, <1>3 DEF CurrentsConfigured
<1>. QED BY <1>4, <1>5

\* No charger is ever held at a current that no configuration allows, unless a
\* user asked for it.
THEOREM CurrentsAreConfigured == Spec => []CurrentsConfigured
<1>1. Init => AboutToSet /\ CurrentsConfigured
  <2> SUFFICES ASSUME Init PROVE AboutToSet /\ CurrentsConfigured
    OBVIOUS
  <2>1. safeAmps \in Allowed
    <3>1. PICK c \in Configs : safeAmps = c.min
      BY DEF Init
    <3>2. c.min \in Nat /\ c.max \in Nat /\ c.min <= c.max
      BY ControlAssumption
    <3>. QED BY <3>1, <3>2 DEF Allowed
  <2>2. \A c \in Chargers : memory[c].last = NoLimit
    BY DEF Init, FreshMemory
  <2>3. ctl.pc = "idle" /\ ctl.mode = "none"
    BY DEF Init, CtlIdle
  <2>4. \A k \in Keys : lastSet[k] = Unset /\ txDefault[k] = Unset /\ txProfile[k] = Unset
    BY DEF Init
  <2>. QED BY <2>1, <2>2, <2>3, <2>4 DEF AboutToSet, CurrentsConfigured
<1>2. CInv /\ AboutToSet /\ CurrentsConfigured /\ [Next]_vars => AboutToSet' /\ CurrentsConfigured'
  BY AllowedBefore, AllowedAnswer, AllowedManual, AllowedElse DEF Next, Controller
<1>. QED BY <1>1, <1>2, CInvHolds, PTL DEF Spec
=============================================================================
