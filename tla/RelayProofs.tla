----------------------------- MODULE RelayProofs ------------------------------
(***************************************************************************)
(* The relay and the connection hooks, for every set of chargers, actions  *)
(* and overrides and every number of hooks and messages: no client of the  *)
(* cloud is lost, connections are counted, flags and clients are right     *)
(* once the hooks of a charger ended in order, and the cloud gets what the *)
(* policy lets out, at the rate that was set and in the order of requests  *)
(* that were not given up: the relay implements the abstract uplink.       *)
(***************************************************************************)
EXTENDS Relay, FiniteSetTheorems, SequenceTheorems, TLAPS

HookRec == [kind : {"connect", "disconnect"}, charger : Chargers,
            entry : HookIds \cup {NoClient}, pc : HookSteps]
MessageSteps == {"route", "throttle", "send", "upsert", "done"}
MessageRec == [charger : Chargers, epoch : Nat, action : Actions,
               entry : HookIds \cup {NoClient}, answered : BOOLEAN, pc : MessageSteps]

\* The charger of the hook that dials has no client.
DialsAlone == \A i \in DOMAIN hooks : hooks[i].pc = "dial" => clients[hooks[i].charger] = NoClient

\* The last hook of a charger says whether it is connected.
Last(i) == \A j \in DOMAIN hooks : hooks[j].charger = hooks[i].charger => j <= i
LastTells ==
  \A i \in DOMAIN hooks : Last(i) => (link[hooks[i].charger] <=> hooks[i].kind = "connect")

\* Where no hook has overtaken another, a hook begins when those before it
\* have ended, and the last one leaves flag and client as they should be.
Begun(i) == hooks[i].pc # IF hooks[i].kind = "connect" THEN "online" ELSE "delete"
OneByOne ==
  \A i, j \in DOMAIN hooks :
    (j < i /\ hooks[j].charger = hooks[i].charger /\ ~overtaken[hooks[i].charger] /\ Begun(i))
      => hooks[j].pc = "done"
LastLeaves ==
  \A i \in DOMAIN hooks : (Last(i) /\ ~overtaken[hooks[i].charger] /\ Begun(i)) =>
    IF hooks[i].kind = "connect" THEN online[hooks[i].charger]
    ELSE /\ hooks[i].pc = "done" => ~online[hooks[i].charger]
         /\ clients[hooks[i].charger] = NoClient

\* A charger without hooks was never connected.
Unhooked(c) == \A i \in DOMAIN hooks : hooks[i].charger # c
NeverSeen ==
  \A c \in Chargers : Unhooked(c) =>
    ~link[c] /\ clients[c] = NoClient /\ (overtaken[c] \/ ~online[c])

\* Hooks that will still count a connection up, or down.
ToCount == {i \in DOMAIN hooks : hooks[i].kind = "connect" /\ hooks[i].pc = "online"}
ToDiscount == {i \in DOMAIN hooks : hooks[i].kind = "disconnect" /\ hooks[i].pc # "done"}
Linked == {c \in Chargers : link[c]}
Counted ==
  activeConns + Cardinality(ToCount) - Cardinality(ToDiscount) = Cardinality(Linked)

\* A charger waits for one request of its connection, and what the cloud has is
\* routed.
SameConnection(m, k) == msgs[m].charger = msgs[k].charger /\ msgs[m].epoch = msgs[k].epoch
OneRequest ==
  /\ \A m \in DOMAIN msgs : msgs[m].pc # "done" => ~msgs[m].answered
  /\ \A m, k \in DOMAIN msgs : (m < k /\ SameConnection(m, k)) => msgs[m].answered \/ m \in forgone
SentIsRouted ==
  \A k \in DOMAIN upstream :
    upstream[k] \in DOMAIN msgs /\ msgs[upstream[k]].pc \in {"upsert", "done"}

\* What is on its way to the cloud, or there, may leave.
Passes(m) == ShouldForward(Decide(RouterPolicy, "inbound", msgs[m].action))
Cleared ==
  \A m \in DOMAIN msgs : (Forwarded(m) \/ msgs[m].pc \in {"throttle", "send"}) => Passes(m)

\* Meter values that were granted and not sent yet; each grant is an interval
\* after the one before.
Granted(c) ==
  {m \in DOMAIN msgs : /\ msgs[m].charger = c /\ msgs[m].action = "MeterValues"
                       /\ msgs[m].pc = "send"}
Paced ==
  \A c \in Chargers :
    IF mvLastSent[c] = Never THEN mvSent[c] + Cardinality(Granted(c)) = 0
    ELSE /\ mvLastSent[c] <= clock
         /\ mvSent[c] + Cardinality(Granted(c)) <= 1 + (mvLastSent[c] \div MinInterval)

-----------------------------------------------------------------------------
(* Hooks and messages as sequences                                         *)

\* The hooks are a sequence of hook records, and each index is a hook id.
LEMMA HookDomain ==
  ASSUME TypeOK
  PROVE  /\ hooks \in Seq(HookRec) /\ Len(hooks) \in Nat /\ DOMAIN hooks = 1 .. Len(hooks)
         /\ DOMAIN hooks \subseteq HookIds /\ DOMAIN hooks \subseteq Nat
         /\ \A i \in DOMAIN hooks : hooks[i] \in HookRec
<1>1. hooks \in Seq(HookRec) /\ Len(hooks) <= MaxHooks
  BY DEF TypeOK, HookRec
<1>2. Len(hooks) \in Nat /\ DOMAIN hooks = 1 .. Len(hooks)
  BY <1>1, LenProperties
<1>3. \A i \in 1 .. Len(hooks) : hooks[i] \in HookRec
  BY <1>1, ElementOfSeq
<1>4. MaxHooks \in Nat
  BY RelayAssumption
<1>5. DOMAIN hooks \subseteq HookIds /\ DOMAIN hooks \subseteq Nat
  BY <1>1, <1>2, <1>4 DEF HookIds
<1>. QED BY <1>1, <1>2, <1>3, <1>5

\* So are the messages.
LEMMA MessageDomain ==
  ASSUME TypeOK
  PROVE  /\ msgs \in Seq(MessageRec) /\ Len(msgs) \in Nat /\ DOMAIN msgs = 1 .. Len(msgs)
         /\ DOMAIN msgs \subseteq Messages /\ DOMAIN msgs \subseteq Nat
         /\ \A m \in DOMAIN msgs : msgs[m] \in MessageRec
<1>1. msgs \in Seq(MessageRec) /\ Len(msgs) <= MaxMessages
  BY DEF TypeOK, MessageRec, MessageSteps
<1>2. Len(msgs) \in Nat /\ DOMAIN msgs = 1 .. Len(msgs)
  BY <1>1, LenProperties
<1>3. \A m \in 1 .. Len(msgs) : msgs[m] \in MessageRec
  BY <1>1, ElementOfSeq
<1>4. MaxMessages \in Nat
  BY RelayAssumption
<1>5. DOMAIN msgs \subseteq Messages /\ DOMAIN msgs \subseteq Nat
  BY <1>1, <1>2, <1>4 DEF Messages
<1>. QED BY <1>1, <1>2, <1>3, <1>5

\* A step of hook i: its new place, and the client it is to stop.
Goes(i, pc, entry) ==
  /\ i \in DOMAIN hooks /\ hooks[i].pc # "done"
  /\ GoOn(i, pc, entry) /\ NoteOrder(i)

\* It changes this hook only.
LEMMA HookMoves ==
  ASSUME TypeOK, NEW i, NEW pc \in HookSteps, NEW entry \in HookIds \cup {NoClient},
         Goes(i, pc, entry)
  PROVE  /\ hooks' \in Seq(HookRec) /\ Len(hooks') = Len(hooks) /\ DOMAIN hooks' = DOMAIN hooks
         /\ \A j \in DOMAIN hooks : /\ hooks'[j].kind = hooks[j].kind
                                    /\ hooks'[j].charger = hooks[j].charger
                                    /\ j # i => hooks'[j] = hooks[j]
         /\ hooks'[i].pc = pc /\ hooks'[i].entry = entry
<1>1. /\ hooks \in Seq(HookRec) /\ Len(hooks) \in Nat /\ DOMAIN hooks = 1 .. Len(hooks)
      /\ i \in 1 .. Len(hooks) /\ hooks[i] \in HookRec
  BY HookDomain DEF Goes
<1> DEFINE r == [hooks[i] EXCEPT !.pc = pc, !.entry = entry]
<1>2. /\ r \in HookRec /\ r.kind = hooks[i].kind /\ r.charger = hooks[i].charger
      /\ r.pc = pc /\ r.entry = entry
  BY <1>1 DEF HookRec
<1>3. hooks' = [hooks EXCEPT ![i] = r]
  BY <1>1 DEF Goes, GoOn, HookRec
<1> HIDE DEF r
<1>4. /\ hooks' \in Seq(HookRec) /\ Len(hooks') = Len(hooks)
      /\ \A j \in 1 .. Len(hooks) : hooks'[j] = IF j = i THEN r ELSE hooks[j]
  BY <1>1, <1>2, <1>3, ExceptSeq
<1>5. DOMAIN hooks' = DOMAIN hooks
  BY <1>3
<1>. QED BY <1>1, <1>2, <1>4, <1>5

\* A new hook comes last, and has not begun.
LEMMA HookBegins ==
  ASSUME TypeOK, NEW kind \in {"connect", "disconnect"}, NEW c \in Chargers,
         Len(hooks) < MaxHooks, hooks' = Begin(kind, c)
  PROVE  LET n == Len(hooks) + 1
         IN /\ hooks' \in Seq(HookRec) /\ Len(hooks') = n /\ DOMAIN hooks' = DOMAIN hooks \cup {n}
            /\ n \notin DOMAIN hooks /\ n \in HookIds /\ \A j \in DOMAIN hooks : j < n
            /\ \A j \in DOMAIN hooks : hooks'[j] = hooks[j]
            /\ hooks'[n].kind = kind /\ hooks'[n].charger = c /\ hooks'[n].entry = NoClient
            /\ hooks'[n].pc = IF kind = "connect" THEN "online" ELSE "delete"
<1> DEFINE r == [kind |-> kind, charger |-> c, entry |-> NoClient,
                 pc |-> IF kind = "connect" THEN "online" ELSE "delete"]
<1>1. /\ hooks \in Seq(HookRec) /\ Len(hooks) \in Nat /\ DOMAIN hooks = 1 .. Len(hooks)
  BY HookDomain
<1>2. r \in HookRec
  BY DEF HookRec, HookSteps
<1>3. hooks' = Append(hooks, r)
  BY DEF Begin
<1>4. /\ r.kind = kind /\ r.charger = c /\ r.entry = NoClient
      /\ r.pc = IF kind = "connect" THEN "online" ELSE "delete"
  OBVIOUS
<1> HIDE DEF r
<1>5. /\ hooks' \in Seq(HookRec) /\ Len(hooks') = Len(hooks) + 1
      /\ \A j \in 1 .. Len(hooks) : hooks'[j] = hooks[j]
      /\ hooks'[Len(hooks) + 1] = r
  BY <1>1, <1>2, <1>3, AppendProperties
<1>6. DOMAIN hooks' = 1 .. Len(hooks) + 1
  BY <1>5, LenProperties
<1>7. Len(hooks) + 1 \in HookIds
  BY <1>1, RelayAssumption DEF HookIds
<1>. QED BY <1>1, <1>4, <1>5, <1>6, <1>7

\* Message m becomes r: what the charger sent stays.
Becomes(m, r) ==
  /\ m \in DOMAIN msgs /\ r \in MessageRec
  /\ msgs' = [msgs EXCEPT ![m] = r]
  /\ r.charger = msgs[m].charger /\ r.epoch = msgs[m].epoch /\ r.action = msgs[m].action
  /\ msgs[m].answered => r.answered

\* This changes one message only.
LEMMA MessageMoves ==
  ASSUME TypeOK, NEW m, NEW r, Becomes(m, r)
  PROVE  /\ msgs' \in Seq(MessageRec) /\ Len(msgs') = Len(msgs) /\ DOMAIN msgs' = DOMAIN msgs
         /\ msgs'[m] = r
         /\ \A k \in DOMAIN msgs : /\ msgs'[k].charger = msgs[k].charger
                                   /\ msgs'[k].epoch = msgs[k].epoch
                                   /\ msgs'[k].action = msgs[k].action
                                   /\ msgs[k].answered => msgs'[k].answered
                                   /\ k # m => msgs'[k] = msgs[k]
<1>1. /\ msgs \in Seq(MessageRec) /\ Len(msgs) \in Nat /\ DOMAIN msgs = 1 .. Len(msgs)
      /\ m \in 1 .. Len(msgs) /\ r \in MessageRec /\ msgs' = [msgs EXCEPT ![m] = r]
  BY MessageDomain DEF Becomes
<1>2. /\ msgs' \in Seq(MessageRec) /\ Len(msgs') = Len(msgs)
      /\ \A k \in 1 .. Len(msgs) : msgs'[k] = IF k = m THEN r ELSE msgs[k]
  BY <1>1, ExceptSeq
<1>3. DOMAIN msgs' = DOMAIN msgs
  BY <1>1
<1>. QED BY <1>1, <1>2, <1>3 DEF Becomes

\* The router has done its part.
LEMMA RoutedBecomes ==
  ASSUME TypeOK, NEW m \in DOMAIN msgs, msgs' = Routed(m)
  PROVE  \E r : /\ Becomes(m, r) /\ r.pc \in {"upsert", "done"}
                /\ r.pc = "upsert" => (r.answered => msgs[m].answered)
<1>1. msgs[m] \in MessageRec
  BY MessageDomain
<1> DEFINE boots == msgs[m].action = "BootNotification"
           r == [msgs[m] EXCEPT !.pc = IF boots THEN "upsert" ELSE "done",
                                !.entry = NoClient, !.answered = @ \/ ~boots]
<1>2. /\ r \in MessageRec /\ r.charger = msgs[m].charger /\ r.epoch = msgs[m].epoch
      /\ r.action = msgs[m].action /\ r.pc = (IF boots THEN "upsert" ELSE "done")
      /\ r.answered = (msgs[m].answered \/ ~boots)
  BY <1>1 DEF MessageRec, MessageSteps
<1>3. msgs' = [msgs EXCEPT ![m] = r]
  BY <1>1 DEF Routed, MessageRec
<1>4. Becomes(m, r)
  BY <1>2, <1>3 DEF Becomes
<1> HIDE DEF r
<1>. QED BY <1>2, <1>4

\* A message that goes on in the relay.
LEMMA ProceedBecomes ==
  ASSUME TypeOK, NEW m \in DOMAIN msgs, NEW pc \in MessageSteps,
         NEW entry \in HookIds \cup {NoClient},
         \/ msgs' = [msgs EXCEPT ![m].pc = pc]
         \/ msgs' = [msgs EXCEPT ![m].entry = entry, ![m].pc = pc]
  PROVE  \E r : Becomes(m, r) /\ r.pc = pc /\ r.answered = msgs[m].answered
<1>1. msgs[m] \in MessageRec
  BY MessageDomain
<1>2. CASE msgs' = [msgs EXCEPT ![m].pc = pc]
  <2> DEFINE r == [msgs[m] EXCEPT !.pc = pc]
  <2>1. /\ r \in MessageRec /\ r.charger = msgs[m].charger /\ r.epoch = msgs[m].epoch
        /\ r.action = msgs[m].action /\ r.pc = pc /\ r.answered = msgs[m].answered
    BY <1>1 DEF MessageRec
  <2>2. msgs' = [msgs EXCEPT ![m] = r]
    BY <1>1, <1>2 DEF MessageRec
  <2> HIDE DEF r
  <2>. QED BY <2>1, <2>2 DEF Becomes
<1>3. CASE msgs' = [msgs EXCEPT ![m].entry = entry, ![m].pc = pc]
  <2> DEFINE r == [msgs[m] EXCEPT !.entry = entry, !.pc = pc]
  <2>1. /\ r \in MessageRec /\ r.charger = msgs[m].charger /\ r.epoch = msgs[m].epoch
        /\ r.action = msgs[m].action /\ r.pc = pc /\ r.answered = msgs[m].answered
    BY <1>1 DEF MessageRec
  <2>2. msgs' = [msgs EXCEPT ![m] = r]
    BY <1>1, <1>3 DEF MessageRec
  <2> HIDE DEF r
  <2>. QED BY <2>1, <2>2 DEF Becomes
<1>. QED BY <1>2, <1>3

\* The boot notification is recorded and answered.
LEMMA UpsertBecomes ==
  ASSUME TypeOK, NEW m, UpsertOnBoot(m)
  PROVE  \E r : Becomes(m, r) /\ r.pc = "done"
<1>1. m \in DOMAIN msgs /\ msgs[m] \in MessageRec
  BY MessageDomain DEF UpsertOnBoot, MessageAt
<1> DEFINE r == [msgs[m] EXCEPT !.pc = "done", !.answered = TRUE]
<1>2. /\ r \in MessageRec /\ r.charger = msgs[m].charger /\ r.epoch = msgs[m].epoch
      /\ r.action = msgs[m].action /\ r.pc = "done" /\ r.answered
  BY <1>1 DEF MessageRec, MessageSteps
<1>3. msgs' = [msgs EXCEPT ![m] = r]
  BY <1>1 DEF UpsertOnBoot, MessageRec
<1> HIDE DEF r
<1>. QED BY <1>1, <1>2, <1>3 DEF Becomes

-----------------------------------------------------------------------------
(* Types                                                                   *)

\* The initial states are well-typed.
LEMMA TypeInit == Init => TypeOK
<1> SUFFICES ASSUME Init PROVE TypeOK
  OBVIOUS
<1>1. hooks \in Seq(HookRec) /\ Len(hooks) = 0 /\ msgs \in Seq(MessageRec) /\ Len(msgs) = 0
      /\ upstream \in Seq(Messages) /\ DOMAIN hooks = {}
  BY EmptySeq DEF Init
<1>2. \A i \in HookIds : i # Free
  BY DEF HookIds, Free
<1>3. Len(hooks) <= MaxHooks /\ Len(msgs) <= MaxMessages
  BY <1>1, RelayAssumption
<1>4. closer \in [pc : {"idle", "delete", "stop"}, todo : SUBSET Chargers,
                  entry : HookIds \cup {NoClient}]
  BY DEF Init, Resting
<1>. QED BY <1>1, <1>2, <1>3, <1>4 DEF Init, TypeOK, HookRec, MessageRec, MessageSteps, NoClient, Never

\* Where a hook may go, and what the variables of the relay become.
LEMMA TypeGoes ==
  ASSUME TypeOK, NEW i, NEW pc \in HookSteps, NEW entry \in HookIds \cup {NoClient},
         Goes(i, pc, entry),
         UNCHANGED <<chargers, closer, overrides, msgs, throttle, cloud>>,
         online' \in [Chargers -> BOOLEAN], activeConns' \in Int,
         clients' \in [Chargers -> HookIds \cup {NoClient}],
         phase' \in [HookIds -> {"none", "dialing", "running", "stopped"}],
         \/ hooks[i].pc # "dial" /\ pc # "dial" /\ mu' = mu
         \/ hooks[i].pc # "dial" /\ pc = "dial" /\ mu = Free /\ mu' = i
         \/ hooks[i].pc = "dial" /\ pc # "dial" /\ mu' = Free
  PROVE  TypeOK'
<1>1. /\ hooks' \in Seq(HookRec) /\ Len(hooks') = Len(hooks) /\ DOMAIN hooks' = DOMAIN hooks
      /\ \A j \in DOMAIN hooks : j # i => hooks'[j] = hooks[j]
      /\ hooks'[i].pc = pc
  BY HookMoves
<1>2. i \in DOMAIN hooks /\ DOMAIN hooks \subseteq HookIds /\ Free \notin HookIds
  BY HookDomain DEF Goes, HookIds, Free
<1>3. \A j \in HookIds : mu = j <=> j \in DOMAIN hooks /\ hooks[j].pc = "dial"
  BY DEF TypeOK
<1>4. mu' \in HookIds \cup {Free} /\ \A j \in HookIds : mu' = j <=> j \in DOMAIN hooks' /\ hooks'[j].pc = "dial"
  <2>1. CASE hooks[i].pc # "dial" /\ pc # "dial" /\ mu' = mu
    <3>1. \A j \in DOMAIN hooks : hooks'[j].pc = "dial" <=> hooks[j].pc = "dial"
      BY <1>1, <1>2, <2>1
    <3>. QED BY <1>1, <1>3, <2>1, <3>1 DEF TypeOK
  <2>2. CASE hooks[i].pc # "dial" /\ pc = "dial" /\ mu = Free /\ mu' = i
    <3>1. \A j \in DOMAIN hooks : hooks[j].pc # "dial"
      BY <1>2, <1>3, <2>2
    <3>. QED BY <1>1, <1>2, <2>2, <3>1
  <2>3. CASE hooks[i].pc = "dial" /\ pc # "dial" /\ mu' = Free
    <3>1. \A j \in DOMAIN hooks : hooks[j].pc = "dial" => j = i
      BY <1>2, <1>3, <2>3
    <3>. QED BY <1>1, <1>2, <2>3, <3>1
  <2>. QED BY <2>1, <2>2, <2>3
<1>5. overtaken' \in [Chargers -> BOOLEAN]
  <2>1. overtaken \in [Chargers -> BOOLEAN]
    BY DEF TypeOK
  <2>2. (overtaken[hooks[i].charger] \/ Overtakes(i)) \in BOOLEAN
    OBVIOUS
  <2>3. overtaken' = [overtaken EXCEPT ![hooks[i].charger] =
                        overtaken[hooks[i].charger] \/ Overtakes(i)]
    BY <2>1 DEF Goes, NoteOrder, TypeOK
  <2> HIDE DEF Overtakes
  <2>. QED BY <2>1, <2>2, <2>3
<1>6. /\ link' = link /\ epoch' = epoch /\ forgone' = forgone
      /\ closer' = closer /\ overrides' = overrides
      /\ msgs' = msgs /\ mvLastSent' = mvLastSent /\ clock' = clock
      /\ upstream' = upstream /\ mvSent' = mvSent
  BY DEF chargers, throttle, cloud
<1>. QED BY <1>1, <1>4, <1>5, <1>6 DEF TypeOK, HookRec

\* What the steps of the hooks do, one by one: where the hook goes, and the
\* effect on the lock.
LEMMA HookGoes ==
  ASSUME TypeOK, NEW i \in HookIds, Hook(i)
  PROVE  /\ i \in DOMAIN hooks /\ hooks[i] \in HookRec
         /\ UNCHANGED <<chargers, closer, overrides, msgs, throttle, cloud>>
         /\ MarkOnline(i) => \E pc \in {"connect", "done"} : Goes(i, pc, NoClient)
         /\ Connect(i) => \/ Goes(i, "done", NoClient) /\ mu' = mu /\ phase' = phase
                          \/ /\ Goes(i, "dial", i) /\ clients[hooks[i].charger] = NoClient
                             /\ mu = Free /\ mu' = i
                             /\ phase' = [phase EXCEPT ![i] = "dialing"]
         /\ Connected(i) => Goes(i, "done", NoClient)
         /\ ConnectFails(i) => Goes(i, "done", NoClient)
         /\ Disconnect(i) => \/ /\ clients[hooks[i].charger] = NoClient
                                /\ Goes(i, "offline", clients[hooks[i].charger])
                             \/ /\ clients[hooks[i].charger] # NoClient
                                /\ Goes(i, "stop", clients[hooks[i].charger])
         /\ StopClient(i) => Goes(i, "offline", NoClient)
         /\ MarkOffline(i) => Goes(i, "done", NoClient)
<1>1. i \in DOMAIN hooks
  BY DEF Hook, MarkOnline, Connect, Connected, ConnectFails, Disconnect, StopClient, MarkOffline, At
<1>2. hooks[i] \in HookRec
  BY <1>1, HookDomain
<1>3. UNCHANGED <<chargers, closer, overrides, msgs, throttle, cloud>>
  BY DEF Hook, MarkOnline, Connect, Connected, ConnectFails, Disconnect, StopClient, MarkOffline,
     relay
<1>4. ASSUME MarkOnline(i) PROVE \E pc \in {"connect", "done"} : Goes(i, pc, NoClient)
  BY <1>1, <1>4 DEF MarkOnline, Goes, At
<1>5. ASSUME Connect(i)
      PROVE  \/ Goes(i, "done", NoClient) /\ mu' = mu /\ phase' = phase
             \/ /\ Goes(i, "dial", i) /\ clients[hooks[i].charger] = NoClient
                /\ mu = Free /\ mu' = i /\ phase' = [phase EXCEPT ![i] = "dialing"]
  BY <1>1, <1>5 DEF Connect, Goes, At
<1>6. (Connected(i) => Goes(i, "done", NoClient)) /\ (ConnectFails(i) => Goes(i, "done", NoClient))
  BY <1>1 DEF Connected, ConnectFails, Goes, At
<1>7. ASSUME Disconnect(i)
      PROVE  \/ /\ clients[hooks[i].charger] = NoClient
                /\ Goes(i, "offline", clients[hooks[i].charger])
             \/ /\ clients[hooks[i].charger] # NoClient
                /\ Goes(i, "stop", clients[hooks[i].charger])
  BY <1>1, <1>7 DEF Disconnect, Goes, At
<1>8. (StopClient(i) => Goes(i, "offline", NoClient)) /\ (MarkOffline(i) => Goes(i, "done", NoClient))
  BY <1>1 DEF StopClient, MarkOffline, Goes, At
<1>. QED BY <1>1, <1>2, <1>3, <1>4, <1>5, <1>6, <1>7, <1>8

\* Hooks keep the types.
LEMMA TypeHook == ASSUME TypeOK, NEW i \in HookIds, Hook(i) PROVE TypeOK'
<1>1. /\ i \in DOMAIN hooks /\ hooks[i] \in HookRec
      /\ UNCHANGED <<chargers, closer, overrides, msgs, throttle, cloud>>
  BY HookGoes
<1>2. /\ online \in [Chargers -> BOOLEAN] /\ activeConns \in Int
      /\ clients \in [Chargers -> HookIds \cup {NoClient}]
      /\ phase \in [HookIds -> {"none", "dialing", "running", "stopped"}]
  BY DEF TypeOK
<1>3. {"online", "connect", "dial", "delete", "stop", "offline", "done"} = HookSteps
  BY DEF HookSteps
<1>4. hooks[i].charger \in Chargers
  BY <1>1 DEF HookRec
<1>5. CASE MarkOnline(i)
  <2>1. /\ activeConns' \in Int /\ clients' = clients /\ phase' = phase /\ mu' = mu
        /\ hooks[i].pc # "dial"
    BY <1>2, <1>5 DEF MarkOnline, relay, At
  <2>0. online' \in [Chargers -> BOOLEAN]
    BY <1>2, <1>5 DEF MarkOnline
  <2>2. PICK pc \in {"connect", "done"} : Goes(i, pc, NoClient)
    BY <1>5, HookGoes
  <2>. QED BY <1>1, <1>2, <1>3, <2>0, <2>1, <2>2, TypeGoes
<1>6. CASE Connect(i)
  <2>1. /\ online' = online /\ activeConns' = activeConns /\ clients' = clients
        /\ hooks[i].pc # "dial"
    BY <1>6 DEF Connect, At
  <2>2. CASE Goes(i, "done", NoClient) /\ mu' = mu /\ phase' = phase
    BY <1>1, <1>2, <1>3, <2>1, <2>2, TypeGoes
  <2>3. CASE Goes(i, "dial", i) /\ mu = Free /\ mu' = i /\ phase' = [phase EXCEPT ![i] = "dialing"]
    <3>1. phase' \in [HookIds -> {"none", "dialing", "running", "stopped"}]
      BY <1>2, <2>3
    <3>. QED BY <1>1, <1>2, <1>3, <2>1, <2>3, <3>1, TypeGoes
  <2>. QED BY <1>6, <2>2, <2>3, HookGoes
<1>7. CASE Connected(i)
  <2>1. /\ online' = online /\ activeConns' = activeConns /\ mu' = Free /\ hooks[i].pc = "dial"
        /\ clients' \in [Chargers -> HookIds \cup {NoClient}]
        /\ phase' \in [HookIds -> {"none", "dialing", "running", "stopped"}]
    BY <1>2, <1>7 DEF Connected, At
  <2>. QED BY <1>1, <1>2, <1>3, <1>7, <2>1, TypeGoes, HookGoes
<1>8. CASE ConnectFails(i)
  <2>1. /\ online' = online /\ activeConns' = activeConns /\ mu' = Free /\ hooks[i].pc = "dial"
        /\ clients' = clients
        /\ phase' \in [HookIds -> {"none", "dialing", "running", "stopped"}]
    BY <1>2, <1>8 DEF ConnectFails, At
  <2>. QED BY <1>1, <1>2, <1>3, <1>8, <2>1, TypeGoes, HookGoes
<1>9. CASE Disconnect(i)
  <2>1. /\ online' = online /\ activeConns' = activeConns /\ mu' = mu /\ hooks[i].pc # "dial"
        /\ clients' \in [Chargers -> HookIds \cup {NoClient}] /\ phase' = phase
    BY <1>2, <1>9 DEF Disconnect, At
  <2>2. clients[hooks[i].charger] \in HookIds \cup {NoClient}
    BY <1>2, <1>4
  <2>3. PICK pc \in {"offline", "stop"} : Goes(i, pc, clients[hooks[i].charger])
    BY <1>9, HookGoes
  <2>. QED BY <1>1, <1>2, <1>3, <2>1, <2>2, <2>3, TypeGoes
<1>10. CASE StopClient(i)
  <2>1. /\ online' = online /\ activeConns' = activeConns /\ mu' = mu /\ hooks[i].pc # "dial"
        /\ clients' = clients
        /\ phase' \in [HookIds -> {"none", "dialing", "running", "stopped"}]
    BY <1>2, <1>10 DEF StopClient, At
  <2>. QED BY <1>1, <1>2, <1>3, <1>10, <2>1, TypeGoes, HookGoes
<1>11. CASE MarkOffline(i)
  <2>1. /\ activeConns' \in Int /\ clients' = clients /\ phase' = phase /\ mu' = mu
        /\ hooks[i].pc # "dial"
    BY <1>2, <1>11 DEF MarkOffline, relay, At
  <2>0. online' \in [Chargers -> BOOLEAN]
    BY <1>2, <1>11 DEF MarkOffline
  <2>. QED BY <1>1, <1>2, <1>3, <1>11, <2>0, <2>1, TypeGoes, HookGoes
<1>. QED BY <1>5, <1>6, <1>7, <1>8, <1>9, <1>10, <1>11 DEF Hook

\* So do the connections that begin and end.
LEMMA TypeLink == ASSUME TypeOK, NEW c \in Chargers, LinkUp(c) \/ LinkDown(c) PROVE TypeOK'
<1>1. PICK kind \in {"connect", "disconnect"} : hooks' = Begin(kind, c) /\ Len(hooks) < MaxHooks
  BY DEF LinkUp, LinkDown
<1>2. /\ hooks' \in Seq(HookRec) /\ Len(hooks') = Len(hooks) + 1
      /\ DOMAIN hooks' = DOMAIN hooks \cup {Len(hooks) + 1}
      /\ \A j \in DOMAIN hooks : hooks'[j] = hooks[j]
      /\ hooks'[Len(hooks) + 1].pc # "dial" /\ Len(hooks) + 1 \notin DOMAIN hooks
  BY <1>1, HookBegins
<1>3. link' \in [Chargers -> BOOLEAN] /\ epoch' \in [Chargers -> Nat]
  <2>1. link \in [Chargers -> BOOLEAN] /\ epoch \in [Chargers -> Nat]
    BY DEF TypeOK
  <2>2. link' \in [Chargers -> BOOLEAN]
    BY <2>1 DEF LinkUp, LinkDown
  <2>3. epoch' \in [Chargers -> Nat]
    BY <2>1 DEF LinkUp, LinkDown
  <2>. QED BY <2>2, <2>3
<1>4. /\ online' = online /\ activeConns' = activeConns /\ clients' = clients /\ phase' = phase
      /\ mu' = mu /\ closer' = closer /\ overrides' = overrides /\ msgs' = msgs
      /\ mvLastSent' = mvLastSent /\ clock' = clock /\ upstream' = upstream /\ mvSent' = mvSent
      /\ overtaken' = overtaken /\ forgone' = forgone
  BY DEF LinkUp, LinkDown, relay, throttle, cloud
<1>5. \A i \in HookIds : mu' = i <=> i \in DOMAIN hooks' /\ hooks'[i].pc = "dial"
  BY <1>2, <1>4 DEF TypeOK
<1>6. Len(hooks') <= MaxHooks
  BY <1>1, <1>2, HookDomain, RelayAssumption
<1>. QED BY <1>2, <1>3, <1>4, <1>5, <1>6 DEF TypeOK, HookRec

\* So does Close.
LEMMA TypeClose == ASSUME TypeOK, Close \/ Closing PROVE TypeOK'
<1>1. /\ link' = link /\ epoch' = epoch /\ forgone' = forgone /\ hooks' = hooks /\ online' = online
      /\ activeConns' = activeConns /\ mu' = mu /\ overrides' = overrides /\ msgs' = msgs
      /\ mvLastSent' = mvLastSent /\ clock' = clock /\ upstream' = upstream /\ mvSent' = mvSent
      /\ overtaken' = overtaken
  BY DEF Close, Closing, CloseNext, CloseStops, chargers, relay, throttle, cloud
<1>2. /\ clients' \in [Chargers -> HookIds \cup {NoClient}]
      /\ phase' \in [HookIds -> {"none", "dialing", "running", "stopped"}]
  BY DEF Close, Closing, CloseNext, CloseStops, relay, TypeOK
<1>3. closer' \in [pc : {"idle", "delete", "stop"}, todo : SUBSET Chargers,
                   entry : HookIds \cup {NoClient}]
  <2>1. CASE Close
    <3>1. closer' = [pc |-> "delete", todo |-> {c \in Chargers : clients[c] # NoClient},
                     entry |-> NoClient]
      BY <2>1 DEF Close, Resting
    <3>. QED BY <3>1
  <2>2. CASE CloseStops
    <3>1. closer' = [pc |-> "delete", todo |-> closer.todo, entry |-> NoClient]
      BY <2>2 DEF CloseStops, TypeOK
    <3>. QED BY <3>1 DEF TypeOK
  <2>3. ASSUME NEW c \in Chargers, CloseNext(c)
        PROVE  closer' \in [pc : {"idle", "delete", "stop"}, todo : SUBSET Chargers,
                            entry : HookIds \cup {NoClient}]
    BY <2>3 DEF CloseNext, TypeOK
  <2>. QED BY <2>1, <2>2, <2>3 DEF Closing
<1>. QED BY <1>1, <1>2, <1>3 DEF TypeOK
\* A new request comes last, is not answered, and is the only one of its
\* connection that its charger waits for.
LEMMA RequestAppends ==
  ASSUME TypeOK, NEW c \in Chargers, NEW a \in Actions, Request(c, a)
  PROVE  LET n == Len(msgs) + 1
         IN /\ msgs' \in Seq(MessageRec) /\ Len(msgs') = n /\ DOMAIN msgs' = DOMAIN msgs \cup {n}
            /\ n \notin DOMAIN msgs /\ \A m \in DOMAIN msgs : m < n /\ msgs'[m] = msgs[m]
            /\ n <= MaxMessages
            /\ msgs'[n].charger = c /\ msgs'[n].epoch = epoch[c] /\ msgs'[n].action = a
            /\ msgs'[n].pc = "route" /\ ~msgs'[n].answered
            /\ \A m \in DOMAIN msgs :
                 (msgs[m].charger = c /\ msgs[m].epoch = epoch[c])
                   => msgs[m].answered \/ m \in forgone
            /\ UNCHANGED <<chargers, hooks, online, activeConns, relay, closer, overrides,
                           throttle, cloud, overtaken>>
<1> DEFINE r == [charger |-> c, epoch |-> epoch[c], action |-> a, pc |-> "route",
                 entry |-> NoClient, answered |-> FALSE]
<1>1. msgs \in Seq(MessageRec) /\ Len(msgs) \in Nat /\ DOMAIN msgs = 1 .. Len(msgs)
  BY MessageDomain
<1>2. r \in MessageRec
  BY DEF MessageRec, MessageSteps, TypeOK
<1>3. msgs' = Append(msgs, r) /\ Len(msgs) < MaxMessages
  BY DEF Request
<1>4. /\ r.charger = c /\ r.epoch = epoch[c] /\ r.action = a /\ r.pc = "route" /\ r.answered = FALSE
  OBVIOUS
<1> HIDE DEF r
<1>5. /\ msgs' \in Seq(MessageRec) /\ Len(msgs') = Len(msgs) + 1
      /\ \A m \in 1 .. Len(msgs) : msgs'[m] = msgs[m]
      /\ msgs'[Len(msgs) + 1] = r
  BY <1>1, <1>2, <1>3, AppendProperties
<1>6. DOMAIN msgs' = 1 .. Len(msgs) + 1
  BY <1>5, LenProperties
<1>7. /\ \A m \in DOMAIN msgs :
           (msgs[m].charger = c /\ msgs[m].epoch = epoch[c])
                   => msgs[m].answered \/ m \in forgone
      /\ UNCHANGED <<chargers, hooks, online, activeConns, relay, closer, overrides,
                     throttle, cloud, overtaken>>
  BY DEF Request
<1>8. Len(msgs) + 1 <= MaxMessages
  BY <1>1, <1>3, RelayAssumption
<1>. QED BY <1>1, <1>4, <1>5, <1>6, <1>7, <1>8

\* Forward: only what may leave goes on to the cloud, meter values by way of
\* the throttle.
LEMMA ForwardBecomes ==
  ASSUME TypeOK, NEW m, Forward(m)
  PROVE  /\ m \in DOMAIN msgs /\ msgs[m].pc = "route"
         /\ \E r : /\ Becomes(m, r)
                   /\ r.pc # "done" => (r.answered => msgs[m].answered)
                   /\ r.pc \in {"throttle", "send"} => Passes(m)
                   /\ r.pc = "send" => msgs[m].action # "MeterValues"
<1>1. m \in DOMAIN msgs /\ msgs[m].pc = "route"
  BY DEF Forward, MessageAt
<1>2. CASE msgs' = Routed(m)
  <2>1. PICK r : /\ Becomes(m, r) /\ r.pc \in {"upsert", "done"}
                 /\ r.pc = "upsert" => (r.answered => msgs[m].answered)
    BY <1>1, <1>2, RoutedBecomes
  <2>. QED BY <1>1, <2>1
<1>3. CASE msgs' # Routed(m)
  <2> DEFINE pc == IF msgs[m].action = "MeterValues" THEN "throttle" ELSE "send"
             entry == clients[msgs[m].charger]
  <2>1. /\ Passes(m)
        /\ msgs' = [msgs EXCEPT ![m].entry = entry, ![m].pc = pc]
    BY <1>3 DEF Forward, Passes
  <2>2. pc \in MessageSteps /\ entry \in HookIds \cup {NoClient}
    <3>1. msgs[m].charger \in Chargers
      BY <1>1, MessageDomain DEF MessageRec
    <3>. QED BY <3>1 DEF MessageSteps, TypeOK
  <2>3. pc = "send" => msgs[m].action # "MeterValues"
    OBVIOUS
  <2> HIDE DEF pc, entry
  <2>4. PICK r : Becomes(m, r) /\ r.pc = pc /\ r.answered = msgs[m].answered
    BY <1>1, <2>1, <2>2, ProceedBecomes
  <2>. QED BY <1>1, <2>1, <2>3, <2>4
<1>. QED BY <1>2, <1>3

\* The throttle: a grant comes an interval after the last, and is noted.
LEMMA ThrottleBecomes ==
  ASSUME TypeOK, NEW m, ShouldThrottleMV(m)
  PROVE  /\ m \in DOMAIN msgs /\ msgs[m].pc = "throttle"
         /\ \E r : /\ Becomes(m, r)
                   /\ r.pc # "done" => (r.answered => msgs[m].answered)
                   /\ r.pc # "throttle"
                   /\ \/ r.pc # "send" /\ mvLastSent' = mvLastSent
                      \/ /\ mvLastSent[msgs[m].charger] # Never =>
                              clock - mvLastSent[msgs[m].charger] >= MinInterval
                         /\ mvLastSent' = [mvLastSent EXCEPT ![msgs[m].charger] = clock]
<1>1. m \in DOMAIN msgs /\ msgs[m].pc = "throttle"
  BY DEF ShouldThrottleMV, MessageAt
<1>2. CASE msgs' = Routed(m) /\ mvLastSent' = mvLastSent
  <2>1. PICK r : /\ Becomes(m, r) /\ r.pc \in {"upsert", "done"}
                 /\ r.pc = "upsert" => (r.answered => msgs[m].answered)
    BY <1>1, <1>2, RoutedBecomes
  <2>. QED BY <1>1, <1>2, <2>1
<1>3. CASE /\ ~(mvLastSent[msgs[m].charger] # Never
                /\ clock - mvLastSent[msgs[m].charger] < MinInterval)
           /\ msgs' = Proceed(m, "send")
           /\ mvLastSent' = [mvLastSent EXCEPT ![msgs[m].charger] = clock]
  <2>1. "send" \in MessageSteps /\ NoClient \in HookIds \cup {NoClient}
    BY DEF MessageSteps
  <2>2. PICK r : Becomes(m, r) /\ r.pc = "send" /\ r.answered = msgs[m].answered
    BY <1>1, <1>3, <2>1, ProceedBecomes DEF Proceed
  <2>3. mvLastSent[msgs[m].charger] # Never => clock - mvLastSent[msgs[m].charger] >= MinInterval
    <3>1. msgs[m].charger \in Chargers
      BY <1>1, MessageDomain DEF MessageRec
    <3>2. MinInterval \in Nat /\ clock \in Nat /\ mvLastSent[msgs[m].charger] \in Nat \cup {Never}
      BY <3>1, RelayAssumption DEF TypeOK
    <3>. QED BY <1>3, <3>2
  <2>. QED BY <1>1, <1>3, <2>2, <2>3
<1>. QED BY <1>2, <1>3 DEF ShouldThrottleMV

\* What is sent is routed.
LEMMA SendBecomes ==
  ASSUME TypeOK, NEW m, Send(m)
  PROVE  /\ m \in DOMAIN msgs /\ msgs[m].pc = "send"
         /\ \E r : /\ Becomes(m, r) /\ r.pc \in {"upsert", "done"}
                   /\ r.pc # "done" => (r.answered => msgs[m].answered)
<1>1. m \in DOMAIN msgs /\ msgs[m].pc = "send" /\ msgs' = Routed(m)
  BY DEF Send, MessageAt
<1>2. PICK r : /\ Becomes(m, r) /\ r.pc \in {"upsert", "done"}
               /\ r.pc = "upsert" => (r.answered => msgs[m].answered)
  BY <1>1, RoutedBecomes
<1>. QED BY <1>1, <1>2
\* A message that moves on keeps the types.
LEMMA TypeBecomes ==
  ASSUME TypeOK, NEW m, NEW r, Becomes(m, r),
         UNCHANGED <<chargers, hooks, activeConns, relay, closer, overrides, clock>>,
         online' \in [Chargers -> BOOLEAN], overtaken' \in [Chargers -> BOOLEAN],
         upstream' \in Seq(Messages), mvSent' \in [Chargers -> Nat],
         mvLastSent' \in [Chargers -> Nat \cup {Never}]
  PROVE  TypeOK'
<1>1. msgs' \in Seq(MessageRec) /\ Len(msgs') = Len(msgs)
  BY MessageMoves
<1>2. /\ link' = link /\ epoch' = epoch /\ forgone' = forgone /\ hooks' = hooks
      /\ activeConns' = activeConns
      /\ clients' = clients /\ phase' = phase /\ mu' = mu /\ closer' = closer
      /\ overrides' = overrides /\ clock' = clock
  BY DEF chargers, relay
<1>. QED BY <1>1, <1>2 DEF TypeOK, MessageRec, MessageSteps

\* The handlers keep the types.
LEMMA TypeHandle == ASSUME TypeOK, NEW m \in Messages, Handle(m) PROVE TypeOK'
<1>1. /\ online \in [Chargers -> BOOLEAN] /\ overtaken \in [Chargers -> BOOLEAN]
      /\ upstream \in Seq(Messages) /\ mvSent \in [Chargers -> Nat]
      /\ mvLastSent \in [Chargers -> Nat \cup {Never}] /\ clock \in Nat
  BY DEF TypeOK
<1>2. CASE Forward(m)
  <2>1. /\ online' = online /\ overtaken' = overtaken /\ upstream' = upstream
        /\ mvSent' = mvSent /\ mvLastSent' = mvLastSent
        /\ UNCHANGED <<chargers, hooks, activeConns, relay, closer, overrides, clock>>
    BY <1>2 DEF Forward, throttle, cloud
  <2>2. PICK r : Becomes(m, r)
    BY <1>2, ForwardBecomes
  <2>. QED BY <1>1, <2>1, <2>2, TypeBecomes
<1>3. CASE ShouldThrottleMV(m)
  <2>1. /\ online' = online /\ overtaken' = overtaken /\ upstream' = upstream
        /\ mvSent' = mvSent
        /\ UNCHANGED <<chargers, hooks, activeConns, relay, closer, overrides, clock>>
    BY <1>3 DEF ShouldThrottleMV, throttle, cloud
  <2>2. mvLastSent' \in [Chargers -> Nat \cup {Never}]
    BY <1>1, <1>3 DEF ShouldThrottleMV
  <2>3. PICK r : Becomes(m, r)
    BY <1>3, ThrottleBecomes
  <2>. QED BY <1>1, <2>1, <2>2, <2>3, TypeBecomes
<1>4. CASE Send(m)
  <2>1. /\ online' = online /\ overtaken' = overtaken /\ mvLastSent' = mvLastSent
        /\ UNCHANGED <<chargers, hooks, activeConns, relay, closer, overrides, clock>>
    BY <1>4 DEF Send, throttle
  <2>2. upstream' \in Seq(Messages)
    <3>1. upstream' = upstream \/ upstream' = Append(upstream, m)
      BY <1>4 DEF Send, cloud
    <3>2. Append(upstream, m) \in Seq(Messages)
      BY <1>1, AppendProperties
    <3>. QED BY <1>1, <3>1, <3>2
  <2>3. mvSent' \in [Chargers -> Nat]
    BY <1>1, <1>4 DEF Send, cloud
  <2>4. PICK r : Becomes(m, r)
    BY <1>4, SendBecomes
  <2>. QED BY <1>1, <2>1, <2>2, <2>3, <2>4, TypeBecomes
<1>5. CASE UpsertOnBoot(m)
  <2>1. /\ mvSent' = mvSent /\ upstream' = upstream /\ mvLastSent' = mvLastSent
        /\ UNCHANGED <<chargers, hooks, activeConns, relay, closer, overrides, clock>>
    BY <1>5 DEF UpsertOnBoot, throttle, cloud
  <2>2. online' \in [Chargers -> BOOLEAN]
    BY <1>1, <1>5 DEF UpsertOnBoot
  <2>3. overtaken' \in [Chargers -> BOOLEAN]
    <3> DEFINE c == msgs[m].charger
               late == overtaken[c] \/ ~link[c] \/ epoch[c] # msgs[m].epoch
    <3>1. late \in BOOLEAN
      OBVIOUS
    <3>2. overtaken' = [overtaken EXCEPT ![c] = late]
      BY <1>1, <1>5 DEF UpsertOnBoot
    <3> HIDE DEF late, c
    <3>. QED BY <1>1, <3>1, <3>2
  <2>4. PICK r : Becomes(m, r)
    BY <1>5, UpsertBecomes
  <2>. QED BY <1>1, <2>1, <2>2, <2>3, <2>4, TypeBecomes
<1>. QED BY <1>2, <1>3, <1>4, <1>5 DEF Handle

\* A new request keeps the types, and so does time.
LEMMA TypeRequest ==
  ASSUME TypeOK, NEW c \in Chargers, NEW a \in Actions, Request(c, a)
  PROVE  TypeOK'
<1>1. /\ msgs' \in Seq(MessageRec) /\ Len(msgs') = Len(msgs) + 1 /\ Len(msgs) + 1 <= MaxMessages
      /\ UNCHANGED <<chargers, hooks, online, activeConns, relay, closer, overrides,
                     throttle, cloud, overtaken>>
  BY RequestAppends
<1>2. /\ link' = link /\ epoch' = epoch /\ forgone' = forgone /\ hooks' = hooks
      /\ activeConns' = activeConns
      /\ online' = online /\ clients' = clients /\ phase' = phase /\ mu' = mu
      /\ closer' = closer /\ overrides' = overrides /\ mvLastSent' = mvLastSent /\ clock' = clock
      /\ upstream' = upstream /\ mvSent' = mvSent /\ overtaken' = overtaken
  BY <1>1 DEF chargers, relay, throttle, cloud
<1>3. forgone' \subseteq DOMAIN msgs'
  <2>1. DOMAIN msgs \subseteq DOMAIN msgs' /\ forgone \subseteq DOMAIN msgs
    BY RequestAppends DEF TypeOK
  <2>. QED BY <1>2, <2>1
<1>. QED BY <1>1, <1>2, <1>3 DEF TypeOK, MessageRec, MessageSteps

\* Every step keeps the types.
LEMMA TypeStep == TypeOK /\ [Next]_vars => TypeOK'
<1> SUFFICES ASSUME TypeOK, [Next]_vars PROVE TypeOK'
  OBVIOUS
<1>1. CASE UNCHANGED vars
  <2>1. /\ link' = link /\ epoch' = epoch /\ forgone' = forgone /\ hooks' = hooks
        /\ activeConns' = activeConns
        /\ online' = online /\ clients' = clients /\ phase' = phase /\ mu' = mu
        /\ closer' = closer /\ overrides' = overrides /\ msgs' = msgs
        /\ mvLastSent' = mvLastSent /\ clock' = clock
        /\ upstream' = upstream /\ mvSent' = mvSent /\ overtaken' = overtaken
    BY <1>1 DEF vars, chargers, relay, throttle, cloud
  <2>. QED BY <2>1 DEF TypeOK
<1>2. CASE Tick
  <2>1. /\ link' = link /\ epoch' = epoch /\ forgone' = forgone /\ hooks' = hooks
        /\ activeConns' = activeConns
        /\ online' = online /\ clients' = clients /\ phase' = phase /\ mu' = mu
        /\ closer' = closer /\ overrides' = overrides /\ msgs' = msgs
        /\ mvLastSent' = mvLastSent
        /\ upstream' = upstream /\ mvSent' = mvSent /\ overtaken' = overtaken
    BY <1>2 DEF Tick, chargers, relay, cloud
  <2>2. clock' \in Nat
    BY <1>2 DEF Tick, TypeOK
  <2>. QED BY <2>1, <2>2 DEF TypeOK
<1>3. ASSUME NEW c \in Chargers, LinkUp(c) \/ LinkDown(c) PROVE TypeOK'
  BY <1>3, TypeLink
<1>4. ASSUME NEW c \in Chargers, NEW a \in Actions, Request(c, a) PROVE TypeOK'
  BY <1>4, TypeRequest
<1>5. ASSUME NEW i \in HookIds, Hook(i) PROVE TypeOK'
  BY <1>5, TypeHook
<1>6. CASE Close \/ Closing
  BY <1>6, TypeClose
<1>7. ASSUME NEW m \in Messages, Handle(m) PROVE TypeOK'
  BY <1>7, TypeHandle
<1>8. ASSUME NEW m \in Messages, GiveUp(m) PROVE TypeOK'
  <2>1. /\ link' = link /\ epoch' = epoch /\ hooks' = hooks
        /\ activeConns' = activeConns
        /\ online' = online /\ clients' = clients /\ phase' = phase /\ mu' = mu
        /\ closer' = closer /\ overrides' = overrides /\ msgs' = msgs
        /\ mvLastSent' = mvLastSent /\ clock' = clock
        /\ upstream' = upstream /\ mvSent' = mvSent /\ overtaken' = overtaken
        /\ forgone' = forgone \cup {m} /\ m \in DOMAIN msgs
    BY <1>8 DEF GiveUp, relay, throttle, cloud
  <2>. QED BY <2>1 DEF TypeOK
<1>. QED BY <1>1, <1>2, <1>3, <1>4, <1>5, <1>6, <1>7, <1>8 DEF Next

-----------------------------------------------------------------------------
(* No client is lost                                                       *)

Kept == NoOrphan /\ DialsAlone

\* Requests, handlers and time touch neither hooks nor clients.
LEMMA OthersTouchNoClient ==
  ASSUME \/ UNCHANGED vars
         \/ Tick
         \/ \E c \in Chargers, a \in Actions : Request(c, a)
         \/ \E m \in Messages : Handle(m) \/ GiveUp(m)
  PROVE  UNCHANGED <<link, epoch, hooks, activeConns, clients, phase, mu, closer, overrides>>
BY DEF vars, Tick, GiveUp, Request, Handle, Forward, ShouldThrottleMV, Send, UpsertOnBoot,
       chargers, relay

\* A new hook stops no client, and dials none.
LEMMA KeptLink == ASSUME TypeOK, Kept, NEW c \in Chargers, LinkUp(c) \/ LinkDown(c) PROVE Kept'
<1>1. PICK kind \in {"connect", "disconnect"} : hooks' = Begin(kind, c) /\ Len(hooks) < MaxHooks
  BY DEF LinkUp, LinkDown
<1>2. /\ DOMAIN hooks' = DOMAIN hooks \cup {Len(hooks) + 1}
      /\ \A j \in DOMAIN hooks : hooks'[j] = hooks[j]
      /\ hooks'[Len(hooks) + 1].pc # "dial"
  BY <1>1, HookBegins
<1>3. clients' = clients /\ phase' = phase /\ closer' = closer
  BY DEF LinkUp, LinkDown, relay
<1>. QED BY <1>2, <1>3 DEF Kept, NoOrphan, DialsAlone

\* A hook that is not at a client leaves every client where it is.
LEMMA KeptGoes ==
  ASSUME TypeOK, Kept, NEW i, NEW pc \in HookSteps, Goes(i, pc, NoClient),
         hooks[i].pc # "stop", pc # "dial",
         UNCHANGED <<clients, closer>>,
         \A k \in HookIds : phase'[k] = "running" => phase[k] = "running"
  PROVE  Kept'
<1>1. /\ DOMAIN hooks' = DOMAIN hooks /\ hooks'[i].pc = pc
      /\ \A j \in DOMAIN hooks : /\ hooks'[j].charger = hooks[j].charger
                                 /\ j # i => hooks'[j] = hooks[j]
  BY HookMoves
<1>. QED BY <1>1 DEF Kept, NoOrphan, DialsAlone

\* The hooks lose no client.
LEMMA KeptHook == ASSUME TypeOK, Kept, NEW i \in HookIds, Hook(i) PROVE Kept'
<1>1. /\ i \in DOMAIN hooks /\ hooks[i] \in HookRec /\ closer' = closer
      /\ hooks[i].charger \in Chargers
  BY HookGoes DEF HookRec
<1>2. /\ clients \in [Chargers -> HookIds \cup {NoClient}]
      /\ phase \in [HookIds -> {"none", "dialing", "running", "stopped"}]
      /\ NoClient \notin HookIds /\ DOMAIN hooks \subseteq HookIds
  <2>1. NoClient \notin HookIds
    BY DEF NoClient, HookIds
  <2>2. DOMAIN hooks \subseteq HookIds
    BY HookDomain
  <2>3. /\ clients \in [Chargers -> HookIds \cup {NoClient}]
        /\ phase \in [HookIds -> {"none", "dialing", "running", "stopped"}]
    BY DEF TypeOK
  <2>. QED BY <2>1, <2>2, <2>3
<1>3. {"online", "connect", "dial", "delete", "stop", "offline", "done"} = HookSteps
  BY DEF HookSteps
<1>4. CASE MarkOnline(i)
  <2>1. PICK pc \in {"connect", "done"} : Goes(i, pc, NoClient)
    BY <1>4, HookGoes
  <2>2. clients' = clients /\ phase' = phase /\ hooks[i].pc # "stop"
    BY <1>4 DEF MarkOnline, relay, At
  <2>. QED BY <1>1, <1>3, <2>1, <2>2, KeptGoes
<1>5. CASE Connect(i)
  <2>1. clients' = clients /\ hooks[i].pc = "connect"
    BY <1>5 DEF Connect, At
  <2>2. CASE Goes(i, "done", NoClient) /\ phase' = phase
    BY <1>1, <1>3, <2>1, <2>2, KeptGoes
  <2>3. CASE /\ Goes(i, "dial", i) /\ clients[hooks[i].charger] = NoClient
             /\ phase' = [phase EXCEPT ![i] = "dialing"]
    <3>1. /\ DOMAIN hooks' = DOMAIN hooks
          /\ \A j \in DOMAIN hooks : /\ hooks'[j].charger = hooks[j].charger
                                     /\ j # i => hooks'[j] = hooks[j]
      BY <1>1, <1>3, <2>3, HookMoves
    <3>2. DialsAlone'
      BY <2>1, <2>3, <3>1 DEF Kept, DialsAlone
    <3>3. NoOrphan'
      BY <1>1, <1>2, <2>1, <2>3, <3>1 DEF Kept, NoOrphan
    <3>. QED BY <3>2, <3>3 DEF Kept
  <2>. QED BY <1>5, <2>2, <2>3, HookGoes
<1>6. CASE Connected(i)
  <2> DEFINE c == hooks[i].charger
  <2>1. /\ hooks[i].pc = "dial" /\ phase' = [phase EXCEPT ![i] = "running"]
        /\ clients' = [clients EXCEPT ![c] = i] /\ Goes(i, "done", NoClient)
    BY <1>6, HookGoes DEF Connected, At
  <2>2. /\ DOMAIN hooks' = DOMAIN hooks /\ hooks'[i].pc = "done"
        /\ \A j \in DOMAIN hooks : j # i => hooks'[j] = hooks[j]
    BY <1>3, <2>1, HookMoves
  <2>3. \A j \in DOMAIN hooks : hooks[j].pc = "dial" => j = i
    BY <1>1, <1>2, <2>1 DEF TypeOK
  <2>4. DialsAlone'
    BY <2>2, <2>3 DEF DialsAlone
  <2>5. clients[c] = NoClient
    BY <1>1, <2>1 DEF Kept, DialsAlone
  <2>6. NoOrphan'
    <3> SUFFICES ASSUME NEW k \in HookIds, phase'[k] = "running"
                 PROVE  \/ \E d \in Chargers : clients'[d] = k
                        \/ \E j \in DOMAIN hooks' : hooks'[j].pc = "stop" /\ hooks'[j].entry = k
                        \/ closer'.pc = "stop" /\ closer'.entry = k
      BY DEF NoOrphan
    <3>1. CASE k = i
      BY <1>1, <1>2, <2>1, <3>1
    <3>2. CASE k # i
      <4>1. phase[k] = "running"
        BY <1>2, <2>1, <3>2
      <4>2. \A d \in Chargers : clients[d] = k => clients'[d] = k
        BY <1>2, <2>1, <2>5
      <4>3. \A j \in DOMAIN hooks : hooks[j].pc = "stop" => hooks'[j] = hooks[j]
        BY <2>1, <2>2
      <4>. QED BY <1>1, <2>2, <4>1, <4>2, <4>3 DEF Kept, NoOrphan
    <3>. QED BY <3>1, <3>2
  <2>. QED BY <2>4, <2>6 DEF Kept
<1>7. CASE ConnectFails(i)
  <2>1. /\ clients' = clients /\ hooks[i].pc = "dial" /\ Goes(i, "done", NoClient)
        /\ phase' = [phase EXCEPT ![i] = "stopped"]
    BY <1>7, HookGoes DEF ConnectFails, At
  <2>2. \A k \in HookIds : phase'[k] = "running" => phase[k] = "running"
    BY <1>2, <2>1
  <2>. QED BY <1>1, <1>3, <2>1, <2>2, KeptGoes
<1>8. CASE Disconnect(i)
  <2> DEFINE c == hooks[i].charger
  <2>1. /\ phase' = phase /\ clients' = [clients EXCEPT ![c] = NoClient]
        /\ hooks[i].pc = "delete"
    BY <1>8 DEF Disconnect, At
  <2>2. PICK pc \in {"offline", "stop"} : /\ Goes(i, pc, clients[c])
                                          /\ clients[c] # NoClient => pc = "stop"
    BY <1>8, HookGoes
  <2>3. clients[c] \in HookIds \cup {NoClient}
    BY <1>1, <1>2
  <2>4. /\ DOMAIN hooks' = DOMAIN hooks /\ hooks'[i].pc = pc /\ hooks'[i].entry = clients[c]
        /\ \A j \in DOMAIN hooks : /\ hooks'[j].charger = hooks[j].charger
                                   /\ j # i => hooks'[j] = hooks[j]
    BY <1>3, <2>2, <2>3, HookMoves
  <2>5. DialsAlone'
    <3> SUFFICES ASSUME NEW j \in DOMAIN hooks, hooks'[j].pc = "dial"
                 PROVE  clients'[hooks[j].charger] = NoClient
      BY <2>4 DEF DialsAlone
    <3>1. j # i /\ hooks[j].pc = "dial" /\ hooks[j].charger \in Chargers
      BY <2>4, HookDomain DEF HookRec
    <3>2. clients[hooks[j].charger] = NoClient
      BY <3>1 DEF Kept, DialsAlone
    <3>. QED BY <1>2, <2>1, <3>1, <3>2
  <2>6. NoOrphan'
    <3> SUFFICES ASSUME NEW k \in HookIds, phase'[k] = "running"
                 PROVE  \/ \E d \in Chargers : clients'[d] = k
                        \/ \E j \in DOMAIN hooks' : hooks'[j].pc = "stop" /\ hooks'[j].entry = k
                        \/ closer'.pc = "stop" /\ closer'.entry = k
      BY DEF NoOrphan
    <3>1. CASE clients[c] = k
      <4>1. pc = "stop"
        BY <1>2, <2>2, <3>1
      <4>. QED BY <1>1, <2>4, <3>1, <4>1
    <3>2. CASE clients[c] # k
      <4>1. \A d \in Chargers : clients[d] = k => clients'[d] = k
        BY <1>2, <2>1, <3>2
      <4>2. \A j \in DOMAIN hooks : hooks[j].pc = "stop" => hooks'[j] = hooks[j]
        BY <2>1, <2>4
      <4>. QED BY <1>1, <2>1, <2>4, <4>1, <4>2 DEF Kept, NoOrphan
    <3>. QED BY <3>1, <3>2
  <2>. QED BY <2>5, <2>6 DEF Kept
<1>9. CASE StopClient(i)
  <2>1. /\ clients' = clients /\ hooks[i].pc = "stop" /\ Goes(i, "offline", NoClient)
        /\ phase' = [phase EXCEPT ![hooks[i].entry] = "stopped"]
    BY <1>9, HookGoes DEF StopClient, At
  <2>2. /\ DOMAIN hooks' = DOMAIN hooks /\ hooks'[i].pc = "offline"
        /\ \A j \in DOMAIN hooks : /\ hooks'[j].charger = hooks[j].charger
                                   /\ j # i => hooks'[j] = hooks[j]
    BY <1>3, <2>1, HookMoves
  <2>3. \A k \in HookIds : phase'[k] = "running" => phase[k] = "running" /\ k # hooks[i].entry
    BY <1>2, <2>1
  <2>4. DialsAlone'
    BY <2>1, <2>2 DEF Kept, DialsAlone
  <2>5. NoOrphan'
    BY <1>1, <2>1, <2>2, <2>3 DEF Kept, NoOrphan
  <2>. QED BY <2>4, <2>5 DEF Kept
<1>10. CASE MarkOffline(i)
  <2>1. /\ clients' = clients /\ phase' = phase /\ hooks[i].pc = "offline"
        /\ Goes(i, "done", NoClient)
    BY <1>10, HookGoes DEF MarkOffline, relay, At
  <2>. QED BY <1>1, <1>3, <2>1, KeptGoes
<1>. QED BY <1>4, <1>5, <1>6, <1>7, <1>8, <1>9, <1>10 DEF Hook

\* Nor does Close.
LEMMA KeptClose == ASSUME TypeOK, Kept, Close \/ Closing PROVE Kept'
<1>1. /\ clients \in [Chargers -> HookIds \cup {NoClient}] /\ hooks' = hooks
      /\ phase \in [HookIds -> {"none", "dialing", "running", "stopped"}]
  BY DEF TypeOK, Close, Closing, CloseNext, CloseStops
<1>2. \A j \in DOMAIN hooks : hooks[j].charger \in Chargers
  BY HookDomain DEF HookRec
<1>3. CASE Close
  <2>1. clients' = clients /\ phase' = phase /\ closer.pc = "idle"
    BY <1>3 DEF Close, relay
  <2>. QED BY <1>1, <2>1 DEF Kept, NoOrphan, DialsAlone
<1>4. ASSUME NEW c \in Chargers, CloseNext(c) PROVE Kept'
  <2>1. /\ closer.pc = "delete" /\ phase' = phase
        /\ clients' = [clients EXCEPT ![c] = NoClient]
        /\ closer'.entry = clients[c]
        /\ closer'.pc = IF clients[c] = NoClient THEN "delete" ELSE "stop"
    BY <1>4 DEF CloseNext
  <2>2. DialsAlone'
    BY <1>1, <1>2, <2>1 DEF Kept, DialsAlone
  <2>3. NoClient \notin HookIds
    BY DEF NoClient, HookIds
  <2>4. NoOrphan'
    BY <1>1, <2>1, <2>3 DEF Kept, NoOrphan
  <2>. QED BY <2>2, <2>4 DEF Kept
<1>5. CASE CloseStops
  <2>1. /\ clients' = clients /\ closer.pc = "stop"
        /\ phase' = [phase EXCEPT ![closer.entry] = "stopped"]
    BY <1>5 DEF CloseStops
  <2>. QED BY <1>1, <2>1 DEF Kept, NoOrphan, DialsAlone
<1>. QED BY <1>3, <1>4, <1>5 DEF Closing

\* No client is lost in any step.
LEMMA KeptStep == TypeOK /\ Kept /\ [Next]_vars => Kept'
<1> SUFFICES ASSUME TypeOK, Kept, [Next]_vars PROVE Kept'
  OBVIOUS
<1>1. ASSUME NEW c \in Chargers, LinkUp(c) \/ LinkDown(c) PROVE Kept'
  BY <1>1, KeptLink
<1>2. ASSUME NEW i \in HookIds, Hook(i) PROVE Kept'
  BY <1>2, KeptHook
<1>3. CASE Close \/ Closing
  BY <1>3, KeptClose
<1>4. CASE UNCHANGED <<link, epoch, hooks, activeConns, clients, phase, mu, closer, overrides>>
  BY <1>4 DEF Kept, NoOrphan, DialsAlone
<1>. QED BY <1>1, <1>2, <1>3, <1>4, OthersTouchNoClient DEF Next

-----------------------------------------------------------------------------
(* Flags and clients agree with the wire once the hooks ended in order     *)

\* Every charger with hooks has a last one.
Latest ==
  \A c \in Chargers : Unhooked(c) \/ \E i \in DOMAIN hooks : hooks[i].charger = c /\ Last(i)
Ordered == Latest /\ LastTells /\ OneByOne /\ LastLeaves /\ NeverSeen

\* Where the last hook left things as they should be, they are.
LEMMA OrderedAgrees == TypeOK /\ Ordered => QuietAgrees
<1> SUFFICES ASSUME TypeOK, Ordered, NEW c \in Chargers, Quiet(c), ~overtaken[c]
             PROVE  online[c] = link[c] /\ (clients[c] # NoClient => link[c])
  BY DEF QuietAgrees
<1>1. online[c] \in BOOLEAN /\ link[c] \in BOOLEAN
  BY DEF TypeOK
<1>2. CASE Unhooked(c)
  BY <1>1, <1>2 DEF Ordered, NeverSeen
<1>3. ASSUME NEW i \in DOMAIN hooks, hooks[i].charger = c, Last(i)
      PROVE  online[c] = link[c] /\ (clients[c] # NoClient => link[c])
  <2>1. hooks[i].pc = "done"
    BY <1>3 DEF Quiet
  <2>2. Begun(i)
    BY <2>1 DEF Begun
  <2>. QED BY <1>1, <1>3, <2>1, <2>2 DEF Ordered, LastTells, LastLeaves
<1>. QED BY <1>2, <1>3 DEF Ordered, Latest

\* A charger that comes or goes has a new last hook, which has not begun.
LEMMA OrderedLink ==
  ASSUME TypeOK, Ordered, NEW c \in Chargers, LinkUp(c) \/ LinkDown(c)
  PROVE  Ordered'
<1>0. PICK n \in Nat : n = Len(hooks) + 1
  BY HookDomain
<1>1. PICK kind \in {"connect", "disconnect"} :
        /\ hooks' = Begin(kind, c) /\ Len(hooks) < MaxHooks
        /\ link' = [link EXCEPT ![c] = (kind = "connect")]
  <2>1. CASE LinkUp(c)
    BY <2>1 DEF LinkUp
  <2>2. CASE LinkDown(c)
    BY <2>2 DEF LinkDown
  <2>. QED BY <2>1, <2>2
<1>2. /\ DOMAIN hooks' = DOMAIN hooks \cup {n} /\ n \notin DOMAIN hooks
      /\ \A j \in DOMAIN hooks : j < n /\ hooks'[j] = hooks[j]
      /\ hooks'[n].kind = kind /\ hooks'[n].charger = c
      /\ hooks'[n].pc = IF kind = "connect" THEN "online" ELSE "delete"
  BY <1>0, <1>1, HookBegins
<1>3. online' = online /\ clients' = clients /\ overtaken' = overtaken
  BY DEF LinkUp, LinkDown, relay
<1>4. /\ link \in [Chargers -> BOOLEAN] /\ DOMAIN hooks \subseteq Nat
      /\ \A j \in DOMAIN hooks : hooks[j].charger \in Chargers
  BY HookDomain DEF TypeOK, HookRec
<1>5. Last(n)' /\ ~Begun(n)'
  <2>1. \A j \in DOMAIN hooks' : j <= n
    BY <1>0, <1>2, <1>4
  <2>. QED BY <1>2, <2>1 DEF Last, Begun
<1>6. \A j \in DOMAIN hooks : Last(j)' => Last(j) /\ hooks[j].charger # c
  BY <1>2, <1>4 DEF Last
<1>7. \A j \in DOMAIN hooks : (Last(j) /\ hooks[j].charger # c) => Last(j)'
  BY <1>2 DEF Last
<1>8. \A j \in DOMAIN hooks : Begun(j)' <=> Begun(j)
  BY <1>2 DEF Begun
<1>9. \A d \in Chargers : Unhooked(d)' => Unhooked(d) /\ d # c
  BY <1>2 DEF Unhooked
<1>10. Latest'
  <2> SUFFICES ASSUME NEW d \in Chargers
               PROVE  Unhooked(d)' \/ \E i \in DOMAIN hooks' : hooks'[i].charger = d /\ Last(i)'
    BY DEF Latest
  <2>1. CASE d = c
    BY <1>2, <1>5, <2>1
  <2>2. CASE d # c /\ Unhooked(d)
    BY <1>2, <2>2 DEF Unhooked
  <2>3. CASE d # c /\ ~Unhooked(d)
    <3>1. PICK i \in DOMAIN hooks : hooks[i].charger = d /\ Last(i)
      BY <2>3 DEF Ordered, Latest
    <3>. QED BY <1>2, <1>7, <2>3, <3>1
  <2>. QED BY <2>1, <2>2, <2>3
<1>11. LastTells'
  <2> SUFFICES ASSUME NEW i \in DOMAIN hooks', Last(i)'
               PROVE  link'[hooks'[i].charger] <=> hooks'[i].kind = "connect"
    BY DEF LastTells
  <2>1. CASE i = n
    BY <1>1, <1>2, <1>4, <2>1
  <2>2. CASE i \in DOMAIN hooks
    <3>1. Last(i) /\ hooks[i].charger # c /\ hooks'[i] = hooks[i]
      BY <1>2, <1>6, <2>2
    <3>2. link'[hooks[i].charger] = link[hooks[i].charger]
      BY <1>1, <1>4, <2>2, <3>1
    <3>. QED BY <2>2, <3>1, <3>2 DEF Ordered, LastTells
  <2>. QED BY <1>2, <2>1, <2>2
<1>12. OneByOne'
  <2> SUFFICES ASSUME NEW i \in DOMAIN hooks', NEW j \in DOMAIN hooks', j < i,
                      hooks'[j].charger = hooks'[i].charger,
                      ~overtaken'[hooks'[i].charger], Begun(i)'
               PROVE  hooks'[j].pc = "done"
    BY DEF OneByOne
  <2>1. i \in DOMAIN hooks
    BY <1>2, <1>5
  <2>2. j \in DOMAIN hooks
    BY <1>2, <1>4, <2>1
  <2>. QED BY <1>2, <1>3, <1>8, <2>1, <2>2 DEF Ordered, OneByOne
<1>13. LastLeaves'
  <2> SUFFICES ASSUME NEW i \in DOMAIN hooks', Last(i)', ~overtaken'[hooks'[i].charger], Begun(i)'
               PROVE  IF hooks'[i].kind = "connect" THEN online'[hooks'[i].charger]
                      ELSE /\ hooks'[i].pc = "done" => ~online'[hooks'[i].charger]
                           /\ clients'[hooks'[i].charger] = NoClient
    BY DEF LastLeaves
  <2>1. i \in DOMAIN hooks
    BY <1>2, <1>5
  <2>. QED BY <1>2, <1>3, <1>6, <1>8, <2>1 DEF Ordered, LastLeaves
<1>14. NeverSeen'
  <2>1. \A d \in Chargers : d # c => link'[d] = link[d]
    BY <1>1, <1>4
  <2>. QED BY <1>3, <1>9, <2>1 DEF Ordered, NeverSeen
<1>. QED BY <1>10, <1>11, <1>12, <1>13, <1>14 DEF Ordered

\* A hook that leaves its charger as the last hook should keeps the order.
LEMMA OrderedGoes ==
  ASSUME TypeOK, Ordered, NEW i, NEW pc \in HookSteps, NEW entry \in HookIds \cup {NoClient},
         Goes(i, pc, entry), pc \notin {"online", "delete"}, link' = link,
         \A d \in Chargers : d # hooks[i].charger =>
           online'[d] = online[d] /\ clients'[d] = clients[d],
         (Last(i) /\ ~overtaken[hooks[i].charger]) =>
           IF hooks[i].kind = "connect" THEN online'[hooks[i].charger]
           ELSE /\ pc = "done" => ~online'[hooks[i].charger]
                /\ clients'[hooks[i].charger] = NoClient
  PROVE  Ordered'
<1> DEFINE c == hooks[i].charger
<1>1. /\ DOMAIN hooks' = DOMAIN hooks /\ hooks'[i].pc = pc
      /\ \A j \in DOMAIN hooks : /\ hooks'[j].kind = hooks[j].kind
                                 /\ hooks'[j].charger = hooks[j].charger
                                 /\ j # i => hooks'[j] = hooks[j]
  BY HookMoves
<1>2. /\ i \in DOMAIN hooks /\ hooks[i].pc # "done" /\ DOMAIN hooks = 1 .. Len(hooks)
      /\ Len(hooks) \in Nat /\ DOMAIN hooks \subseteq Nat
      /\ \A j \in DOMAIN hooks : hooks[j].charger \in Chargers
  BY HookDomain DEF Goes, HookRec
<1>3. overtaken' = [overtaken EXCEPT ![c] = overtaken[c] \/ Overtakes(i)]
  BY DEF Goes, NoteOrder
<1>4. overtaken \in [Chargers -> BOOLEAN]
  BY DEF TypeOK
<1>5. /\ \A d \in Chargers : d # c => overtaken'[d] = overtaken[d]
      /\ overtaken'[c] <=> overtaken[c] \/ Overtakes(i)
  BY <1>2, <1>3, <1>4
<1>6. \A j \in DOMAIN hooks : Last(j)' <=> Last(j)
  BY <1>1 DEF Last
<1>7. \A d \in Chargers : Unhooked(d)' <=> Unhooked(d)
  BY <1>1 DEF Unhooked
<1>8. \A j \in DOMAIN hooks : j # i => (Begun(j)' <=> Begun(j))
  BY <1>1 DEF Begun
<1>9. Latest' /\ LastTells'
  BY <1>1, <1>6, <1>7 DEF Ordered, Latest, LastTells
<1>10. OneByOne'
  <2> SUFFICES ASSUME NEW k \in DOMAIN hooks, NEW j \in DOMAIN hooks, j < k,
                      hooks[j].charger = hooks[k].charger,
                      ~overtaken'[hooks[k].charger], Begun(k)'
               PROVE  hooks'[j].pc = "done"
    BY <1>1 DEF OneByOne
  <2>1. ~overtaken[hooks[k].charger]
    BY <1>2, <1>5
  <2>2. CASE k = i
    <3>1. ~Overtakes(i)
      BY <1>5, <2>2
    <3>2. hooks[j].pc = "done"
      BY <1>2, <2>2, <3>1 DEF Overtakes
    <3>. QED BY <1>1, <1>2, <3>2
  <2>3. CASE k # i
    <3>1. hooks[j].pc = "done"
      BY <1>8, <2>1, <2>3 DEF Ordered, OneByOne
    <3>. QED BY <1>1, <1>2, <3>1
  <2>. QED BY <2>2, <2>3
<1>11. LastLeaves'
  <2> SUFFICES ASSUME NEW k \in DOMAIN hooks, Last(k), ~overtaken'[hooks[k].charger], Begun(k)'
               PROVE  IF hooks[k].kind = "connect" THEN online'[hooks[k].charger]
                      ELSE /\ hooks'[k].pc = "done" => ~online'[hooks[k].charger]
                           /\ clients'[hooks[k].charger] = NoClient
    BY <1>1, <1>6 DEF LastLeaves
  <2>1. ~overtaken[hooks[k].charger]
    BY <1>2, <1>5
  <2>2. CASE k = i
    BY <1>1, <2>1, <2>2
  <2>3. CASE k # i
    <3>1. Begun(k) /\ hooks'[k] = hooks[k]
      BY <1>1, <1>8, <2>3
    <3>2. hooks[k].charger # c
      <4>1. SUFFICES ASSUME hooks[k].charger = c PROVE FALSE
        OBVIOUS
      <4>2. i < k
        BY <1>2, <2>3, <4>1 DEF Last
      <4>3. hooks[i].pc = "done"
        BY <1>2, <2>1, <3>1, <4>1, <4>2 DEF Ordered, OneByOne
      <4>. QED BY <1>2, <4>3
    <3>3. /\ online'[hooks[k].charger] = online[hooks[k].charger]
          /\ clients'[hooks[k].charger] = clients[hooks[k].charger]
      BY <1>2, <3>2
    <3>. QED BY <2>1, <3>1, <3>3 DEF Ordered, LastLeaves
  <2>. QED BY <2>2, <2>3
<1>12. NeverSeen'
  <2> SUFFICES ASSUME NEW d \in Chargers, Unhooked(d)
               PROVE  ~link[d] /\ clients'[d] = NoClient /\ (overtaken'[d] \/ ~online'[d])
    BY <1>7 DEF NeverSeen
  <2>1. d # c
    BY <1>2 DEF Unhooked
  <2>. QED BY <1>5, <2>1 DEF Ordered, NeverSeen
<1>. QED BY <1>9, <1>10, <1>11, <1>12 DEF Ordered
\* Every hook does.
LEMMA OrderedHook == ASSUME TypeOK, Ordered, NEW i \in HookIds, Hook(i) PROVE Ordered'
<1> DEFINE c == hooks[i].charger
<1>1. /\ i \in DOMAIN hooks /\ hooks[i] \in HookRec /\ link' = link /\ c \in Chargers
  BY HookGoes DEF HookRec, chargers
<1>2. /\ clients \in [Chargers -> HookIds \cup {NoClient}] /\ online \in [Chargers -> BOOLEAN]
      /\ clients[c] \in HookIds \cup {NoClient}
  BY <1>1 DEF TypeOK
<1>3. {"online", "connect", "dial", "delete", "stop", "offline", "done"} = HookSteps
  BY DEF HookSteps
<1>4. ASSUME Last(i), ~overtaken[c], Begun(i)
      PROVE  IF hooks[i].kind = "connect" THEN online[c] ELSE clients[c] = NoClient
  BY <1>1, <1>4 DEF Ordered, LastLeaves
<1>5. CASE MarkOnline(i)
  <2>1. /\ clients' = clients /\ hooks[i].kind = "connect"
        /\ online' = [online EXCEPT ![c] = TRUE]
    BY <1>5 DEF MarkOnline, relay, At
  <2>2. PICK pc \in {"connect", "done"} : Goes(i, pc, NoClient)
    BY <1>5, HookGoes
  <2>3. online'[c] /\ \A d \in Chargers : d # c => online'[d] = online[d]
    BY <1>1, <1>2, <2>1
  <2>. QED BY <1>1, <1>3, <2>1, <2>2, <2>3, OrderedGoes
<1>6. CASE Connect(i)
  <2>1. /\ clients' = clients /\ online' = online /\ hooks[i].kind = "connect"
        /\ hooks[i].pc = "connect"
    BY <1>6 DEF Connect, At
  <2>2. PICK pc \in {"dial", "done"}, entry \in {i, NoClient} : Goes(i, pc, entry)
    BY <1>6, HookGoes
  <2>3. Begun(i)
    BY <2>1 DEF Begun
  <2>. QED BY <1>1, <1>3, <1>4, <2>1, <2>2, <2>3, OrderedGoes
<1>7. CASE Connected(i)
  <2>1. /\ clients' = [clients EXCEPT ![c] = i] /\ online' = online
        /\ hooks[i].kind = "connect" /\ hooks[i].pc = "dial" /\ Goes(i, "done", NoClient)
    BY <1>7, HookGoes DEF Connected, At
  <2>2. Begun(i)
    BY <2>1 DEF Begun
  <2>3. \A d \in Chargers : d # c => clients'[d] = clients[d]
    BY <1>2, <2>1
  <2>. QED BY <1>1, <1>3, <1>4, <2>1, <2>2, <2>3, OrderedGoes
<1>8. CASE ConnectFails(i)
  <2>1. /\ clients' = clients /\ online' = online
        /\ hooks[i].kind = "connect" /\ hooks[i].pc = "dial" /\ Goes(i, "done", NoClient)
    BY <1>8, HookGoes DEF ConnectFails, At
  <2>2. Begun(i)
    BY <2>1 DEF Begun
  <2>. QED BY <1>1, <1>3, <1>4, <2>1, <2>2, OrderedGoes
<1>9. CASE Disconnect(i)
  <2>1. /\ clients' = [clients EXCEPT ![c] = NoClient] /\ online' = online
        /\ hooks[i].kind = "disconnect"
    BY <1>9 DEF Disconnect, At
  <2>2. PICK pc \in {"offline", "stop"} : Goes(i, pc, clients[c])
    BY <1>9, HookGoes
  <2>3. clients'[c] = NoClient /\ \A d \in Chargers : d # c => clients'[d] = clients[d]
    BY <1>1, <1>2, <2>1
  <2>. QED BY <1>1, <1>2, <1>3, <2>1, <2>2, <2>3, OrderedGoes
<1>10. CASE StopClient(i)
  <2>1. /\ clients' = clients /\ online' = online
        /\ hooks[i].kind = "disconnect" /\ hooks[i].pc = "stop" /\ Goes(i, "offline", NoClient)
    BY <1>10, HookGoes DEF StopClient, At
  <2>2. Begun(i)
    BY <2>1 DEF Begun
  <2>. QED BY <1>1, <1>3, <1>4, <2>1, <2>2, OrderedGoes
<1>11. CASE MarkOffline(i)
  <2>1. /\ clients' = clients /\ online' = [online EXCEPT ![c] = FALSE]
        /\ hooks[i].kind = "disconnect" /\ hooks[i].pc = "offline" /\ Goes(i, "done", NoClient)
    BY <1>11, HookGoes DEF MarkOffline, relay, At
  <2>2. Begun(i)
    BY <2>1 DEF Begun
  <2>3. ~online'[c] /\ \A d \in Chargers : d # c => online'[d] = online[d]
    BY <1>1, <1>2, <2>1
  <2>. QED BY <1>1, <1>3, <1>4, <2>1, <2>2, <2>3, OrderedGoes
<1>. QED BY <1>5, <1>6, <1>7, <1>8, <1>9, <1>10, <1>11 DEF Hook

\* A boot notification that comes late says so; Close only takes clients away.
LEMMA OrderedFlags ==
  ASSUME TypeOK, Ordered, UNCHANGED <<link, hooks>>,
         \A c \in Chargers : /\ overtaken[c] => overtaken'[c]
                             /\ clients'[c] \in {clients[c], NoClient}
                             /\ online'[c] = online[c] \/ overtaken'[c] \/ (link[c] /\ online'[c])
  PROVE  Ordered'
<1>1. \A j \in DOMAIN hooks : hooks[j].charger \in Chargers
  BY HookDomain DEF HookRec
<1>2. Latest' /\ LastTells'
  BY DEF Ordered, Latest, LastTells, Unhooked, Last
<1>3. OneByOne'
  BY <1>1 DEF Ordered, OneByOne, Begun
<1>4. LastLeaves'
  <2> SUFFICES ASSUME NEW k \in DOMAIN hooks, Last(k), ~overtaken'[hooks[k].charger], Begun(k)
               PROVE  IF hooks[k].kind = "connect" THEN online'[hooks[k].charger]
                      ELSE /\ hooks[k].pc = "done" => ~online'[hooks[k].charger]
                           /\ clients'[hooks[k].charger] = NoClient
    BY DEF LastLeaves, Last, Begun
  <2>1. ~overtaken[hooks[k].charger]
    BY <1>1
  <2>2. link[hooks[k].charger] <=> hooks[k].kind = "connect"
    BY DEF Ordered, LastTells
  <2>3. IF hooks[k].kind = "connect" THEN online[hooks[k].charger]
        ELSE /\ hooks[k].pc = "done" => ~online[hooks[k].charger]
             /\ clients[hooks[k].charger] = NoClient
    BY <2>1 DEF Ordered, LastLeaves
  <2>. QED BY <1>1, <2>2, <2>3
<1>5. NeverSeen'
  BY DEF Ordered, NeverSeen, Unhooked
<1>. QED BY <1>2, <1>3, <1>4, <1>5 DEF Ordered

\* Every step keeps the order.
LEMMA OrderedStep == TypeOK /\ Ordered /\ [Next]_vars => Ordered'
<1> SUFFICES ASSUME TypeOK, Ordered, [Next]_vars PROVE Ordered'
  OBVIOUS
<1>0. /\ overtaken \in [Chargers -> BOOLEAN] /\ online \in [Chargers -> BOOLEAN]
      /\ clients \in [Chargers -> HookIds \cup {NoClient}]
  BY DEF TypeOK
<1>1. ASSUME NEW c \in Chargers, LinkUp(c) \/ LinkDown(c) PROVE Ordered'
  BY <1>1, OrderedLink
<1>2. ASSUME NEW i \in HookIds, Hook(i) PROVE Ordered'
  BY <1>2, OrderedHook
<1>3. CASE Close \/ Closing
  <2>1. /\ link' = link /\ hooks' = hooks /\ online' = online /\ overtaken' = overtaken
        /\ \A c \in Chargers : clients'[c] \in {clients[c], NoClient}
    BY <1>0, <1>3 DEF Close, Closing, CloseNext, CloseStops, chargers, relay
  <2>. QED BY <2>1, OrderedFlags
<1>4. ASSUME NEW m \in Messages, UpsertOnBoot(m) PROVE Ordered'
  <2>1. /\ link' = link /\ hooks' = hooks /\ clients' = clients
        /\ online' = [online EXCEPT ![msgs[m].charger] = TRUE]
        /\ overtaken' = [overtaken EXCEPT ![msgs[m].charger] =
             overtaken[msgs[m].charger] \/ ~link[msgs[m].charger]
             \/ epoch[msgs[m].charger] # msgs[m].epoch]
    BY <1>4 DEF UpsertOnBoot, chargers, relay
  <2>2. \A c \in Chargers : /\ overtaken[c] => overtaken'[c]
                            /\ online'[c] = online[c] \/ overtaken'[c] \/ (link[c] /\ online'[c])
    BY <1>0, <2>1
  <2>. QED BY <2>1, <2>2, OrderedFlags
<1>5. CASE UNCHANGED <<link, hooks, online, clients, overtaken>>
  BY <1>5, OrderedFlags
<1>6. ASSUME NEW m \in Messages, Handle(m), ~UpsertOnBoot(m) PROVE Ordered'
  <2>1. UNCHANGED <<link, hooks, online, clients, overtaken>>
    BY <1>6 DEF Handle, Forward, ShouldThrottleMV, Send, chargers, relay
  <2>. QED BY <2>1, <1>5
<1>7. ASSUME \/ UNCHANGED vars \/ Tick \/ \E m \in Messages : GiveUp(m)
             \/ \E c \in Chargers, a \in Actions : Request(c, a)
      PROVE  Ordered'
  <2>1. UNCHANGED <<link, hooks, online, clients, overtaken>>
    BY <1>7 DEF vars, Tick, GiveUp, Request, chargers, relay
  <2>. QED BY <2>1, <1>5
<1>. QED BY <1>1, <1>2, <1>3, <1>4, <1>6, <1>7 DEF Next

-----------------------------------------------------------------------------
(* Connections are counted                                                 *)

\* The sets that are counted are finite.
LEMMA CountedSets ==
  ASSUME TypeOK
  PROVE  /\ IsFiniteSet(ToCount) /\ Cardinality(ToCount) \in Nat
         /\ IsFiniteSet(ToDiscount) /\ Cardinality(ToDiscount) \in Nat
         /\ IsFiniteSet(Linked) /\ Cardinality(Linked) \in Nat
         /\ activeConns \in Int
<1>1. IsFiniteSet(DOMAIN hooks)
  BY HookDomain, FS_Interval
<1>2. IsFiniteSet(Chargers)
  BY RelayAssumption
<1>3. ToCount \subseteq DOMAIN hooks /\ ToDiscount \subseteq DOMAIN hooks /\ Linked \subseteq Chargers
  BY DEF ToCount, ToDiscount, Linked
<1>4. IsFiniteSet(ToCount) /\ IsFiniteSet(ToDiscount) /\ IsFiniteSet(Linked)
  BY <1>1, <1>2, <1>3, FS_Subset
<1>. QED BY <1>4, FS_CardinalityType DEF TypeOK

\* A connection that begins is to be counted, one that ends to be discounted.
LEMMA CountedLink ==
  ASSUME TypeOK, Counted, NEW c \in Chargers, LinkUp(c) \/ LinkDown(c)
  PROVE  Counted'
<1>0. PICK n \in Nat : n = Len(hooks) + 1
  BY HookDomain
<1>1. activeConns' = activeConns /\ link \in [Chargers -> BOOLEAN]
  BY DEF LinkUp, LinkDown, TypeOK
<1>2. CASE LinkUp(c)
  <2>1. /\ DOMAIN hooks' = DOMAIN hooks \cup {n} /\ n \notin DOMAIN hooks
        /\ \A j \in DOMAIN hooks : hooks'[j] = hooks[j]
        /\ hooks'[n].kind = "connect" /\ hooks'[n].pc = "online"
    BY <1>0, <1>2, HookBegins DEF LinkUp
  <2>2. ToCount' = ToCount \cup {n} /\ n \notin ToCount /\ ToDiscount' = ToDiscount
    BY <2>1 DEF ToCount, ToDiscount
  <2>3. Linked' = Linked \cup {c} /\ c \notin Linked
    BY <1>1, <1>2 DEF LinkUp, Linked
  <2>4. /\ Cardinality(ToCount') = Cardinality(ToCount) + 1
        /\ Cardinality(Linked') = Cardinality(Linked) + 1
    BY <2>2, <2>3, CountedSets, FS_AddElement
  <2>. QED BY <1>1, <2>2, <2>4, CountedSets DEF Counted
<1>3. CASE LinkDown(c)
  <2>1. /\ DOMAIN hooks' = DOMAIN hooks \cup {n} /\ n \notin DOMAIN hooks
        /\ \A j \in DOMAIN hooks : hooks'[j] = hooks[j]
        /\ hooks'[n].kind = "disconnect" /\ hooks'[n].pc = "delete"
    BY <1>0, <1>3, HookBegins DEF LinkDown
  <2>2. ToDiscount' = ToDiscount \cup {n} /\ n \notin ToDiscount /\ ToCount' = ToCount
    BY <2>1 DEF ToCount, ToDiscount
  <2>3. Linked' = Linked \ {c} /\ c \in Linked
    BY <1>1, <1>3 DEF LinkDown, Linked
  <2>4. /\ Cardinality(ToDiscount') = Cardinality(ToDiscount) + 1
        /\ Cardinality(Linked') = Cardinality(Linked) - 1
    BY <2>2, <2>3, CountedSets, FS_AddElement, FS_RemoveElement
  <2>. QED BY <1>1, <2>2, <2>4, CountedSets DEF Counted
<1>. QED BY <1>2, <1>3

\* The hooks count each of them once.
LEMMA CountedHook == ASSUME TypeOK, Counted, NEW i \in HookIds, Hook(i) PROVE Counted'
<1>1. i \in DOMAIN hooks /\ Linked' = Linked
  BY HookGoes DEF Linked, chargers
<1>2. {"online", "connect", "dial", "delete", "stop", "offline", "done"} = HookSteps
  BY DEF HookSteps
<1>3. ASSUME NEW pc \in HookSteps, NEW entry \in HookIds \cup {NoClient}, Goes(i, pc, entry)
      PROVE  /\ DOMAIN hooks' = DOMAIN hooks /\ hooks'[i].pc = pc
             /\ \A j \in DOMAIN hooks : hooks'[j].kind = hooks[j].kind
                                        /\ (j # i => hooks'[j] = hooks[j])
  BY <1>3, HookMoves
<1>4. CASE MarkOnline(i)
  <2>1. PICK pc \in {"connect", "done"} : Goes(i, pc, NoClient)
    BY <1>4, HookGoes
  <2>2. hooks[i].kind = "connect" /\ hooks[i].pc = "online" /\ activeConns' = activeConns + 1
    BY <1>4 DEF MarkOnline, At
  <2>3. ToCount' = ToCount \ {i} /\ i \in ToCount /\ ToDiscount' = ToDiscount
    BY <1>1, <1>2, <1>3, <2>1, <2>2 DEF ToCount, ToDiscount
  <2>4. Cardinality(ToCount') = Cardinality(ToCount) - 1
    BY <2>3, CountedSets, FS_RemoveElement
  <2>. QED BY <1>1, <2>2, <2>3, <2>4, CountedSets DEF Counted
<1>5. CASE MarkOffline(i)
  <2>1. Goes(i, "done", NoClient)
    BY <1>5, HookGoes
  <2>2. hooks[i].kind = "disconnect" /\ hooks[i].pc = "offline" /\ activeConns' = activeConns - 1
    BY <1>5 DEF MarkOffline, At
  <2>3. ToDiscount' = ToDiscount \ {i} /\ i \in ToDiscount /\ ToCount' = ToCount
    BY <1>1, <1>2, <1>3, <2>1, <2>2 DEF ToCount, ToDiscount
  <2>4. Cardinality(ToDiscount') = Cardinality(ToDiscount) - 1
    BY <2>3, CountedSets, FS_RemoveElement
  <2>. QED BY <1>1, <2>2, <2>3, <2>4, CountedSets DEF Counted
<1>6. CASE Connect(i) \/ Connected(i) \/ ConnectFails(i)
  <2>1. hooks[i].kind = "connect" /\ hooks[i].pc # "online" /\ activeConns' = activeConns
    BY <1>6 DEF Connect, Connected, ConnectFails, At
  <2>2. PICK pc \in {"dial", "done"}, entry \in {i, NoClient} : Goes(i, pc, entry)
    BY <1>6, HookGoes
  <2>3. ToDiscount' = ToDiscount /\ ToCount' = ToCount
    BY <1>1, <1>2, <1>3, <2>1, <2>2 DEF ToCount, ToDiscount
  <2>. QED BY <1>1, <2>1, <2>3 DEF Counted
<1>7. CASE Disconnect(i) \/ StopClient(i)
  <2>1. hooks[i].kind = "disconnect" /\ hooks[i].pc # "done" /\ activeConns' = activeConns
    BY <1>7 DEF Disconnect, StopClient, At
  <2>2. PICK pc \in {"offline", "stop"}, entry \in {clients[hooks[i].charger], NoClient} :
          Goes(i, pc, entry)
    BY <1>7, HookGoes
  <2>3. clients[hooks[i].charger] \in HookIds \cup {NoClient}
    BY HookGoes DEF TypeOK, HookRec
  <2>4. ToDiscount' = ToDiscount /\ ToCount' = ToCount
    BY <1>1, <1>2, <1>3, <2>1, <2>2, <2>3 DEF ToCount, ToDiscount
  <2>. QED BY <1>1, <2>1, <2>4 DEF Counted
<1>. QED BY <1>4, <1>5, <1>6, <1>7 DEF Hook

\* Every step keeps the count.
LEMMA CountedStep == TypeOK /\ Counted /\ [Next]_vars => Counted'
<1> SUFFICES ASSUME TypeOK, Counted, [Next]_vars PROVE Counted'
  OBVIOUS
<1>1. ASSUME NEW c \in Chargers, LinkUp(c) \/ LinkDown(c) PROVE Counted'
  BY <1>1, CountedLink
<1>2. ASSUME NEW i \in HookIds, Hook(i) PROVE Counted'
  BY <1>2, CountedHook
<1>3. CASE UNCHANGED <<link, hooks, activeConns>>
  BY <1>3 DEF Counted, ToCount, ToDiscount, Linked
<1>4. CASE Close \/ Closing
  <2>1. UNCHANGED <<link, hooks, activeConns>>
    BY <1>4 DEF Close, Closing, CloseNext, CloseStops, chargers
  <2>. QED BY <1>3, <2>1
<1>. QED BY <1>1, <1>2, <1>3, <1>4, OthersTouchNoClient DEF Next

\* When no hook is at work, the count is the number of connections.
LEMMA CountedWhenIdle == TypeOK /\ Counted => IdleIsCounted
<1> SUFFICES ASSUME TypeOK, Counted, \A c \in Chargers : Quiet(c)
             PROVE  activeConns = Cardinality({c \in Chargers : link[c]})
  BY DEF IdleIsCounted
<1>1. \A i \in DOMAIN hooks : hooks[i].pc = "done"
  BY HookDomain DEF Quiet, HookRec
<1>2. ToCount = {} /\ ToDiscount = {}
  BY <1>1 DEF ToCount, ToDiscount
<1>3. Cardinality(ToCount) = 0 /\ Cardinality(ToDiscount) = 0
  BY <1>2, FS_EmptySet
<1>. QED BY <1>3, CountedSets DEF Counted, Linked

\* At the start nothing is connected.
LEMMA HooksInit == Init => Kept /\ Ordered /\ Counted
<1> SUFFICES ASSUME Init PROVE Kept /\ Ordered /\ Counted
  OBVIOUS
<1>1. DOMAIN hooks = {} /\ \A k \in HookIds : phase[k] = "none"
  BY EmptySeq DEF Init
<1>2. Kept
  BY <1>1 DEF Kept, NoOrphan, DialsAlone
<1>3. Ordered
  BY <1>1 DEF Init, Ordered, Latest, LastTells, OneByOne, LastLeaves, NeverSeen, Unhooked
<1>4. ToCount = {} /\ ToDiscount = {} /\ Linked = {}
  BY <1>1 DEF Init, ToCount, ToDiscount, Linked
<1>5. Counted
  BY <1>4, FS_EmptySet DEF Init, Counted
<1>. QED BY <1>2, <1>3, <1>5

-----------------------------------------------------------------------------
(* What the cloud receives, and in what order                              *)

Sent == OneRequest /\ SentIsRouted /\ Cleared /\ InOrder

\* What the policy forwards was named: by the default policy, or by an override.
LEMMA NamedMayLeave ==
  ASSUME NEW m, Passes(m)
  PROVE  IF msgs[m].action \in DOMAIN overrides THEN ShouldForward(overrides[msgs[m].action])
         ELSE msgs[m].action \in InboundBoth \cup InboundUpstream
<1> DEFINE a == msgs[m].action
           out == Outbound(DefaultPolicy, DOMAIN overrides)
           table == DefaultPolicy.inbound
           over == [b \in DOMAIN overrides \ out |-> overrides[b]]
<1>1. RouterPolicy["inbound"] = Overlay(table, over)
  BY DEF RouterPolicy, Merge
<1>2. DOMAIN table = InboundBoth \cup InboundUpstream
  BY DEF DefaultPolicy
<1>3. out \cap DOMAIN table = {}
  BY DEF Outbound
<1> HIDE DEF out, table
<1>4. DOMAIN RouterPolicy["inbound"] = DOMAIN table \cup (DOMAIN overrides \ out)
  BY <1>1 DEF Overlay
<1>5. a \in DOMAIN RouterPolicy["inbound"]
  <2>1. ~ShouldForward("local_only")
    BY DEF ShouldForward
  <2>. QED BY <2>1 DEF Passes, Decide
<1>6. CASE a \in DOMAIN overrides \ out
  <2>1. RouterPolicy["inbound"][a] = overrides[a]
    BY <1>1, <1>6 DEF Overlay
  <2>. QED BY <1>5, <1>6, <2>1 DEF Passes, Decide
<1>7. CASE a \notin DOMAIN overrides \ out
  BY <1>2, <1>3, <1>4, <1>5, <1>7
<1>. QED BY <1>6, <1>7

\* A message that moves on, and is sent at most once it was granted.
LEMMA SentKept ==
  ASSUME TypeOK, Sent, NEW m, NEW r, Becomes(m, r), overrides' = overrides,
         forgone' = forgone, msgs[m].pc # "done", msgs[m].pc = "upsert" => r.pc = "done",
         r.pc # "done" => (r.answered => msgs[m].answered),
         r.pc \in {"throttle", "send"} => Passes(m),
         \/ upstream' = upstream
         \/ /\ upstream' = Append(upstream, m)
            /\ msgs[m].pc = "send" /\ r.pc \in {"upsert", "done"}
  PROVE  Sent'
<1>1. /\ DOMAIN msgs' = DOMAIN msgs /\ msgs'[m] = r
      /\ \A k \in DOMAIN msgs : /\ msgs'[k].charger = msgs[k].charger
                                /\ msgs'[k].epoch = msgs[k].epoch
                                /\ msgs'[k].action = msgs[k].action
                                /\ msgs[k].answered => msgs'[k].answered
                                /\ k # m => msgs'[k] = msgs[k]
  BY MessageMoves
<1>2. m \in DOMAIN msgs /\ DOMAIN msgs \subseteq Nat
  BY MessageDomain DEF Becomes
<1>3. /\ upstream \in Seq(Messages) /\ DOMAIN upstream = 1 .. Len(upstream)
      /\ Len(upstream) \in Nat /\ m \in Messages
  BY <1>2, LenProperties, MessageDomain DEF TypeOK
<1>4. \/ upstream' = upstream
      \/ /\ DOMAIN upstream' = DOMAIN upstream \cup {Len(upstream) + 1}
         /\ \A k \in DOMAIN upstream : upstream'[k] = upstream[k]
         /\ upstream'[Len(upstream) + 1] = m
         /\ msgs[m].pc = "send" /\ r.pc \in {"upsert", "done"}
  <2>1. ASSUME upstream' = Append(upstream, m)
        PROVE  /\ DOMAIN upstream' = DOMAIN upstream \cup {Len(upstream) + 1}
               /\ \A k \in DOMAIN upstream : upstream'[k] = upstream[k]
               /\ upstream'[Len(upstream) + 1] = m
    <3>1. /\ Append(upstream, m) \in Seq(Messages)
          /\ Len(Append(upstream, m)) = Len(upstream) + 1
          /\ \A k \in 1 .. Len(upstream) : Append(upstream, m)[k] = upstream[k]
          /\ Append(upstream, m)[Len(upstream) + 1] = m
      BY <1>3, AppendProperties
    <3>2. DOMAIN Append(upstream, m) = 1 .. Len(upstream) + 1
      BY <3>1, LenProperties
    <3>3. 1 .. Len(upstream) + 1 = DOMAIN upstream \cup {Len(upstream) + 1}
      BY <1>3
    <3>4. \A k \in DOMAIN upstream : upstream'[k] = upstream[k]
      BY <1>3, <2>1, <3>1
    <3>. QED BY <2>1, <3>1, <3>2, <3>3, <3>4
  <2>. QED BY <2>1
<1>5. \A k \in DOMAIN msgs : Passes(k)' <=> Passes(k)
  BY <1>1 DEF Passes, RouterPolicy
<1>6. OneRequest'
  <2>1. \A k \in DOMAIN msgs : msgs'[k].pc # "done" => ~msgs'[k].answered
    BY <1>1, <1>2 DEF Sent, OneRequest
  <2>2. \A j, k \in DOMAIN msgs : SameConnection(j, k)' <=> SameConnection(j, k)
    BY <1>1 DEF SameConnection
  <2>. QED BY <1>1, <2>1, <2>2 DEF Sent, OneRequest
<1>7. SentIsRouted'
  BY <1>1, <1>2, <1>4 DEF Sent, SentIsRouted
<1>8. Cleared'
  <2> SUFFICES ASSUME NEW k \in DOMAIN msgs, Forwarded(k)' \/ msgs'[k].pc \in {"throttle", "send"}
               PROVE  Passes(k)
    BY <1>1, <1>5 DEF Cleared
  <2>1. CASE msgs'[k].pc \in {"throttle", "send"}
    BY <1>1, <2>1 DEF Sent, Cleared
  <2>2. CASE Forwarded(k)'
    <3>1. Forwarded(k) \/ (k = m /\ msgs[m].pc = "send")
      BY <1>4, <2>2 DEF Forwarded
    <3>. QED BY <3>1 DEF Sent, Cleared
  <2>. QED BY <2>1, <2>2
<1>9. InOrder'
  <2>1. CASE upstream' = upstream
    BY <1>1, <2>1 DEF Sent, InOrder, SentIsRouted
  <2>2. CASE /\ DOMAIN upstream' = DOMAIN upstream \cup {Len(upstream) + 1}
             /\ \A k \in DOMAIN upstream : upstream'[k] = upstream[k]
             /\ upstream'[Len(upstream) + 1] = m
             /\ msgs[m].pc = "send"
    <3> SUFFICES ASSUME NEW j \in DOMAIN upstream', NEW k \in DOMAIN upstream', j < k,
                        msgs'[upstream'[j]].charger = msgs'[upstream'[k]].charger,
                        msgs'[upstream'[j]].epoch = msgs'[upstream'[k]].epoch,
                        upstream'[k] \notin forgone
                 PROVE  upstream'[j] < upstream'[k]
      BY DEF InOrder
    <3>1. j \in DOMAIN upstream
      BY <1>3, <2>2
    <3>2. upstream'[j] = upstream[j] /\ upstream[j] \in DOMAIN msgs
          /\ msgs[upstream[j]].pc \in {"upsert", "done"}
      BY <2>2, <3>1 DEF Sent, SentIsRouted
    <3>3. CASE k \in DOMAIN upstream
      <4>1. upstream'[k] = upstream[k] /\ upstream[k] \in DOMAIN msgs
        BY <2>2, <3>3 DEF Sent, SentIsRouted
      <4>. QED BY <1>1, <3>1, <3>2, <3>3, <4>1 DEF Sent, InOrder
    <3>4. CASE k = Len(upstream) + 1
      <4>1. SameConnection(m, upstream[j]) /\ upstream'[k] = m
        BY <1>1, <1>2, <2>2, <3>2, <3>4 DEF SameConnection
      <4>2. ~msgs[m].answered /\ upstream[j] # m
        BY <1>2, <2>2, <3>2 DEF Sent, OneRequest
      <4>3. ~(m < upstream[j])
        BY <1>2, <3>2, <4>1, <4>2 DEF Sent, OneRequest, SameConnection
      <4>. QED BY <1>2, <3>2, <4>1, <4>2, <4>3
    <3>. QED BY <2>2, <3>3, <3>4
  <2>. QED BY <1>4, <2>1, <2>2
<1>. QED BY <1>6, <1>7, <1>8, <1>9 DEF Sent
\* A new request comes after every message that was sent.
LEMMA SentRequest ==
  ASSUME TypeOK, Sent, NEW c \in Chargers, NEW a \in Actions, Request(c, a)
  PROVE  Sent'
<1>0. PICK n \in Nat : n = Len(msgs) + 1
  BY MessageDomain
<1>1. /\ DOMAIN msgs' = DOMAIN msgs \cup {n} /\ n \notin DOMAIN msgs
      /\ \A m \in DOMAIN msgs : m < n /\ msgs'[m] = msgs[m]
      /\ msgs'[n].charger = c /\ msgs'[n].epoch = epoch[c]
      /\ msgs'[n].pc = "route" /\ ~msgs'[n].answered
      /\ \A m \in DOMAIN msgs :
           (msgs[m].charger = c /\ msgs[m].epoch = epoch[c])
                   => msgs[m].answered \/ m \in forgone
      /\ upstream' = upstream /\ overrides' = overrides /\ forgone' = forgone
  BY <1>0, RequestAppends DEF cloud, chargers
<1>2. DOMAIN msgs \subseteq Nat
  BY MessageDomain
<1>3. \A k \in DOMAIN upstream : upstream[k] \in DOMAIN msgs
  BY DEF Sent, SentIsRouted
<1>4. \A m \in DOMAIN msgs : Passes(m)' <=> Passes(m)
  BY <1>1 DEF Passes, RouterPolicy
<1>5. OneRequest'
  <2>1. \A m \in DOMAIN msgs' : msgs'[m].pc # "done" => ~msgs'[m].answered
    BY <1>1 DEF Sent, OneRequest
  <2>2. ASSUME NEW m \in DOMAIN msgs', NEW k \in DOMAIN msgs', m < k, SameConnection(m, k)'
        PROVE  msgs'[m].answered \/ m \in forgone
    <3>1. m \in DOMAIN msgs
      BY <1>0, <1>1, <1>2, <2>2
    <3>2. CASE k \in DOMAIN msgs
      BY <1>1, <2>2, <3>1, <3>2 DEF Sent, OneRequest, SameConnection
    <3>3. CASE k = n
      BY <1>1, <2>2, <3>1, <3>3 DEF SameConnection
    <3>. QED BY <1>1, <3>2, <3>3
  <2>. QED BY <1>1, <2>1, <2>2 DEF OneRequest
<1>6. SentIsRouted'
  BY <1>1, <1>3 DEF Sent, SentIsRouted
<1>7. Cleared'
  <2>1. ~Forwarded(n)'
    BY <1>1, <1>3 DEF Forwarded
  <2>2. \A m \in DOMAIN msgs : Forwarded(m)' <=> Forwarded(m)
    BY <1>1 DEF Forwarded
  <2>. QED BY <1>1, <1>4, <2>1, <2>2 DEF Sent, Cleared
<1>8. InOrder'
  BY <1>1, <1>3 DEF Sent, InOrder
<1>. QED BY <1>5, <1>6, <1>7, <1>8 DEF Sent

\* The handlers keep what is sent in order.
LEMMA SentHandle == ASSUME TypeOK, Sent, NEW m \in Messages, Handle(m) PROVE Sent'
<1>1. CASE Forward(m)
  <2>1. upstream' = upstream /\ overrides' = overrides /\ forgone' = forgone
    BY <1>1 DEF Forward, cloud, chargers
  <2>. QED BY <1>1, <2>1, ForwardBecomes, SentKept
<1>2. CASE ShouldThrottleMV(m)
  <2>1. upstream' = upstream /\ overrides' = overrides /\ forgone' = forgone
    BY <1>2 DEF ShouldThrottleMV, cloud, chargers
  <2>2. m \in DOMAIN msgs /\ msgs[m].pc = "throttle"
    BY <1>2, ThrottleBecomes
  <2>3. Passes(m)
    BY <2>2 DEF Sent, Cleared
  <2>. QED BY <1>2, <2>1, <2>2, <2>3, ThrottleBecomes, SentKept
<1>3. CASE Send(m)
  <2>1. /\ overrides' = overrides /\ forgone' = forgone
        /\ upstream' = upstream \/ upstream' = Append(upstream, m)
    BY <1>3 DEF Send, cloud, chargers
  <2>2. PICK r : /\ Becomes(m, r) /\ r.pc \in {"upsert", "done"}
                 /\ r.pc # "done" => (r.answered => msgs[m].answered)
    BY <1>3, SendBecomes
  <2>3. msgs[m].pc = "send"
    BY <1>3, SendBecomes
  <2>. QED BY <2>1, <2>2, <2>3, SentKept
<1>4. CASE UpsertOnBoot(m)
  <2>1. /\ upstream' = upstream /\ overrides' = overrides /\ forgone' = forgone
        /\ msgs[m].pc = "upsert"
    BY <1>4 DEF UpsertOnBoot, MessageAt, cloud, chargers
  <2>. QED BY <1>4, <2>1, UpsertBecomes, SentKept
<1>. QED BY <1>1, <1>2, <1>3, <1>4 DEF Handle

\* Every step does.
LEMMA SentStep == TypeOK /\ Sent /\ [Next]_vars => Sent'
<1> SUFFICES ASSUME TypeOK, Sent, [Next]_vars PROVE Sent'
  OBVIOUS
<1>1. ASSUME NEW c \in Chargers, NEW a \in Actions, Request(c, a) PROVE Sent'
  BY <1>1, SentRequest
<1>2. ASSUME NEW m \in Messages, Handle(m) PROVE Sent'
  BY <1>2, SentHandle
<1>3. ASSUME \/ UNCHANGED vars \/ Tick \/ Close \/ Closing
             \/ \E c \in Chargers : LinkUp(c) \/ LinkDown(c)
             \/ \E i \in HookIds : Hook(i)
      PROVE  Sent'
  <2>1. UNCHANGED <<msgs, upstream, overrides, forgone>>
    BY <1>3 DEF vars, Tick, Close, Closing, CloseNext, CloseStops, LinkUp, LinkDown, Hook,
       MarkOnline, Connect, Connected, ConnectFails, Disconnect, StopClient, MarkOffline, cloud,
       chargers
  <2>. QED BY <2>1 DEF Sent, OneRequest, SentIsRouted, Cleared, InOrder, SameConnection,
                       Forwarded, Passes, RouterPolicy
<1>4. ASSUME NEW m \in Messages, GiveUp(m) PROVE Sent'
  <2>1. UNCHANGED <<msgs, upstream, overrides>> /\ forgone' = forgone \cup {m}
    BY <1>4 DEF GiveUp, cloud
  <2>. QED BY <2>1 DEF Sent, OneRequest, SentIsRouted, Cleared, InOrder, SameConnection,
                       Forwarded, Passes, RouterPolicy
<1>. QED BY <1>1, <1>2, <1>3, <1>4 DEF Next

\* At the start nothing was sent.
LEMMA SentInit == Init => Sent
<1> SUFFICES ASSUME Init PROVE Sent
  OBVIOUS
<1>1. DOMAIN msgs = {} /\ DOMAIN upstream = {}
  BY EmptySeq DEF Init
<1>. QED BY <1>1 DEF Sent, OneRequest, SentIsRouted, Cleared, InOrder

-----------------------------------------------------------------------------
(* The rate of meter values                                                *)

\* An interval later, the count of intervals is one more.
LEMMA NextInterval ==
  ASSUME NEW a \in Nat, NEW b \in Nat
  PROVE  /\ a \div MinInterval \in Nat
         /\ a <= b => a \div MinInterval <= b \div MinInterval
         /\ b - a >= MinInterval => b \div MinInterval >= (a \div MinInterval) + 1
<1>1. MinInterval \in Nat \ {0}
  BY RelayAssumption
<1>2. a \div MinInterval \in Nat
  BY <1>1
<1>3. a <= b => a \div MinInterval <= b \div MinInterval
  BY <1>1
<1>4. b - a >= MinInterval => b \div MinInterval >= (a \div MinInterval) + 1
  BY <1>1
<1>. QED BY <1>2, <1>3, <1>4

\* Grants that are not sent yet are finitely many.
LEMMA GrantedSet ==
  ASSUME TypeOK, NEW c
  PROVE  IsFiniteSet(Granted(c)) /\ Cardinality(Granted(c)) \in Nat
<1>1. IsFiniteSet(DOMAIN msgs)
  BY MessageDomain, FS_Interval
<1>2. Granted(c) \subseteq DOMAIN msgs
  BY DEF Granted
<1>3. IsFiniteSet(Granted(c))
  BY <1>1, <1>2, FS_Subset
<1>. QED BY <1>3, FS_CardinalityType

\* A message that moves on becomes a grant, or is none (any more).
LEMMA GrantedMoves ==
  ASSUME TypeOK, NEW m, NEW r, Becomes(m, r), NEW c
  PROVE  Granted(c)' =
           IF msgs[m].charger = c /\ msgs[m].action = "MeterValues" /\ r.pc = "send"
           THEN Granted(c) \cup {m} ELSE Granted(c) \ {m}
<1>1. /\ DOMAIN msgs' = DOMAIN msgs /\ msgs'[m] = r /\ m \in DOMAIN msgs
      /\ \A k \in DOMAIN msgs : /\ msgs'[k].charger = msgs[k].charger
                                /\ msgs'[k].action = msgs[k].action
                                /\ k # m => msgs'[k] = msgs[k]
  BY MessageMoves DEF Becomes
<1>. QED BY <1>1 DEF Granted

\* The throttle grants one message, an interval after the last.
LEMMA PacedThrottle ==
  ASSUME TypeOK, Paced, NEW m, ShouldThrottleMV(m)
  PROVE  Paced'
<1> DEFINE c == msgs[m].charger
<1>1. /\ m \in DOMAIN msgs /\ msgs[m].pc = "throttle" /\ c \in Chargers
  BY ThrottleBecomes, MessageDomain DEF MessageRec
<1>2. PICK r : /\ Becomes(m, r)
               /\ \/ r.pc # "send" /\ mvLastSent' = mvLastSent
                  \/ /\ mvLastSent[c] # Never => clock - mvLastSent[c] >= MinInterval
                     /\ mvLastSent' = [mvLastSent EXCEPT ![c] = clock]
  BY ThrottleBecomes
<1>3. mvSent' = mvSent /\ clock' = clock
  BY DEF ShouldThrottleMV, cloud
<1>4. \A d : m \notin Granted(d)
  BY <1>1 DEF Granted
<1>5. /\ mvLastSent \in [Chargers -> Nat \cup {Never}] /\ clock \in Nat
      /\ mvSent \in [Chargers -> Nat] /\ Never \notin Nat
  BY DEF TypeOK, Never
<1> SUFFICES ASSUME NEW d \in Chargers
             PROVE  IF mvLastSent'[d] = Never THEN mvSent[d] + Cardinality(Granted(d)') = 0
                    ELSE /\ mvLastSent'[d] <= clock
                         /\ mvSent[d] + Cardinality(Granted(d)')
                              <= 1 + (mvLastSent'[d] \div MinInterval)
  BY <1>3 DEF Paced
<1>6. IF mvLastSent[d] = Never THEN mvSent[d] + Cardinality(Granted(d)) = 0
      ELSE /\ mvLastSent[d] <= clock
           /\ mvSent[d] + Cardinality(Granted(d)) <= 1 + (mvLastSent[d] \div MinInterval)
  BY DEF Paced
<1>7. CASE Granted(d)' = Granted(d) /\ mvLastSent'[d] = mvLastSent[d]
  BY <1>6, <1>7
<1>8. CASE d # c \/ (r.pc # "send" /\ mvLastSent' = mvLastSent)
  <2>1. Granted(d)' = Granted(d)
    BY <1>2, <1>4, <1>8, GrantedMoves
  <2>2. mvLastSent'[d] = mvLastSent[d]
    BY <1>2, <1>5, <1>8
  <2>. QED BY <1>7, <2>1, <2>2
<1>9. CASE /\ d = c
           /\ mvLastSent[c] # Never => clock - mvLastSent[c] >= MinInterval
           /\ mvLastSent' = [mvLastSent EXCEPT ![c] = clock]
  <2>1. Granted(d)' \in {Granted(d) \cup {m}, Granted(d)}
    BY <1>2, <1>4, GrantedMoves
  <2>2. /\ Cardinality(Granted(d)) \in Nat /\ Cardinality(Granted(d)') \in Nat
        /\ Cardinality(Granted(d)') <= Cardinality(Granted(d)) + 1
    <3>1. IsFiniteSet(Granted(d)) /\ Cardinality(Granted(d)) \in Nat
      BY GrantedSet
    <3>2. Cardinality(Granted(d) \cup {m}) = Cardinality(Granted(d)) + 1
      BY <1>4, <3>1, FS_AddElement
    <3>3. \/ Cardinality(Granted(d)') = Cardinality(Granted(d)) + 1
          \/ Cardinality(Granted(d)') = Cardinality(Granted(d))
      BY <2>1, <3>2
    <3>. QED BY <3>1, <3>3
  <2>3. mvLastSent'[d] = clock /\ clock # Never
    BY <1>5, <1>9
  <2>4. mvSent[d] \in Nat /\ clock \div MinInterval \in Nat
    BY <1>5, NextInterval
  <2>5. CASE mvLastSent[d] = Never
    <3>1. mvSent[d] + Cardinality(Granted(d)) = 0
      BY <1>6, <2>5
    <3>2. mvSent[d] + Cardinality(Granted(d)') <= 1 + (clock \div MinInterval)
      BY <2>2, <2>4, <3>1
    <3>. QED BY <1>5, <2>3, <3>2
  <2>6. CASE mvLastSent[d] # Never
    <3>1. mvLastSent[d] \in Nat /\ clock - mvLastSent[d] >= MinInterval
      BY <1>5, <1>9, <2>6
    <3>2. /\ clock \div MinInterval >= (mvLastSent[d] \div MinInterval) + 1
          /\ mvLastSent[d] \div MinInterval \in Nat
      BY <1>5, <3>1, NextInterval
    <3>. QED BY <1>5, <1>6, <2>2, <2>3, <2>4, <2>6, <3>2
  <2>. QED BY <2>5, <2>6
<1>. QED BY <1>2, <1>8, <1>9

\* What is sent was granted.
LEMMA PacedSend == ASSUME TypeOK, Paced, NEW m, Send(m) PROVE Paced'
<1> DEFINE c == msgs[m].charger
           values == msgs[m].action = "MeterValues"
<1>1. /\ m \in DOMAIN msgs /\ msgs[m].pc = "send" /\ c \in Chargers
  BY SendBecomes, MessageDomain DEF MessageRec
<1>2. PICK r : Becomes(m, r) /\ r.pc \in {"upsert", "done"}
  BY SendBecomes
<1>3. /\ clock' = clock /\ mvLastSent' = mvLastSent
      /\ \/ mvSent' = mvSent
         \/ mvSent' = [mvSent EXCEPT ![c] = IF values THEN @ + 1 ELSE @]
  BY DEF Send, throttle, cloud
<1>4. mvSent \in [Chargers -> Nat]
  BY DEF TypeOK
<1>5. \A d \in Chargers : mvSent'[d] + Cardinality(Granted(d)') <= mvSent[d] + Cardinality(Granted(d))
                          /\ mvSent'[d] \in Nat /\ Cardinality(Granted(d)') \in Nat
                          /\ mvSent[d] \in Nat /\ Cardinality(Granted(d)) \in Nat
  <2> TAKE d \in Chargers
  <2>1. Granted(d)' = Granted(d) \ {m}
    BY <1>2, GrantedMoves
  <2>2. /\ Cardinality(Granted(d)) \in Nat /\ Cardinality(Granted(d)') \in Nat
        /\ Cardinality(Granted(d)') =
             IF m \in Granted(d) THEN Cardinality(Granted(d)) - 1 ELSE Cardinality(Granted(d))
    <3>1. IsFiniteSet(Granted(d)) /\ Cardinality(Granted(d)) \in Nat
      BY GrantedSet
    <3>2. IsFiniteSet(Granted(d) \ {m}) /\ Cardinality(Granted(d) \ {m}) =
             IF m \in Granted(d) THEN Cardinality(Granted(d)) - 1 ELSE Cardinality(Granted(d))
      BY <3>1, FS_RemoveElement
    <3>3. Cardinality(Granted(d) \ {m}) \in Nat
      BY <3>2, FS_CardinalityType
    <3>. QED BY <2>1, <3>1, <3>2, <3>3
  <2>3. m \in Granted(d) <=> d = c /\ values
    BY <1>1 DEF Granted
  <2>4. mvSent'[d] = mvSent[d] \/ (mvSent'[d] = mvSent[d] + 1 /\ d = c /\ values)
    BY <1>1, <1>3, <1>4
  <2>5. mvSent[d] \in Nat
    BY <1>4
  <2>. QED BY <2>2, <2>3, <2>4, <2>5
<1>6. \A d \in Chargers : mvLastSent[d] \in Nat \cup {Never}
  BY DEF TypeOK
<1>7. \A d \in Chargers : mvLastSent[d] # Never => mvLastSent[d] \div MinInterval \in Nat
  BY <1>6, NextInterval
<1>. QED BY <1>3, <1>5, <1>7 DEF Paced

\* Every step keeps the pace.
LEMMA PacedStep == TypeOK /\ Paced /\ [Next]_vars => Paced'
<1> SUFFICES ASSUME TypeOK, Paced, [Next]_vars PROVE Paced'
  OBVIOUS
<1>1. /\ mvLastSent \in [Chargers -> Nat \cup {Never}] /\ clock \in Nat
  BY DEF TypeOK
<1>2. ASSUME NEW c \in Chargers, NEW a \in Actions, Request(c, a) PROVE Paced'
  <2>1. /\ mvSent' = mvSent /\ mvLastSent' = mvLastSent /\ clock' = clock
        /\ DOMAIN msgs' = DOMAIN msgs \cup {Len(msgs) + 1}
        /\ \A m \in DOMAIN msgs : msgs'[m] = msgs[m]
        /\ msgs'[Len(msgs) + 1].pc = "route"
    BY <1>2, RequestAppends DEF throttle, cloud
  <2>2. \A d : Granted(d)' = Granted(d)
    BY <2>1 DEF Granted
  <2>. QED BY <2>1, <2>2 DEF Paced
<1>3. ASSUME NEW m \in Messages, Forward(m) \/ UpsertOnBoot(m) PROVE Paced'
  <2>1. mvSent' = mvSent /\ mvLastSent' = mvLastSent /\ clock' = clock
    BY <1>3 DEF Forward, UpsertOnBoot, throttle, cloud
  <2>2. PICK r : /\ Becomes(m, r) /\ msgs[m].pc # "send"
                 /\ r.pc = "send" => msgs[m].action # "MeterValues"
    <3>1. CASE Forward(m)
      BY <3>1, ForwardBecomes
    <3>2. CASE UpsertOnBoot(m)
      BY <3>2, UpsertBecomes DEF UpsertOnBoot, MessageAt
    <3>. QED BY <1>3, <3>1, <3>2
  <2>3. \A d : Granted(d)' = Granted(d)
    BY <2>2, GrantedMoves DEF Granted
  <2>. QED BY <2>1, <2>3 DEF Paced
<1>4. ASSUME NEW m \in Messages, ShouldThrottleMV(m) PROVE Paced'
  BY <1>4, PacedThrottle
<1>5. ASSUME NEW m \in Messages, Send(m) PROVE Paced'
  BY <1>5, PacedSend
<1>6. CASE Tick
  <2>1. mvSent' = mvSent /\ mvLastSent' = mvLastSent /\ clock' = clock + 1 /\ msgs' = msgs
    BY <1>6 DEF Tick, cloud
  <2>2. \A d : Granted(d)' = Granted(d)
    BY <2>1 DEF Granted
  <2>3. \A d \in Chargers : mvLastSent[d] # Never =>
          (mvLastSent[d] <= clock => mvLastSent[d] <= clock + 1)
    BY <1>1
  <2>. QED BY <2>1, <2>2, <2>3 DEF Paced
<1>7. ASSUME \/ UNCHANGED vars \/ Close \/ Closing
             \/ \E c \in Chargers : LinkUp(c) \/ LinkDown(c)
             \/ \E i \in HookIds : Hook(i)
             \/ \E m \in Messages : GiveUp(m)
      PROVE  Paced'
  <2>1. UNCHANGED <<msgs, mvSent, mvLastSent, clock>>
    BY <1>7 DEF vars, Close, Closing, CloseNext, CloseStops, LinkUp, LinkDown, Hook,
       MarkOnline, Connect, Connected, ConnectFails, Disconnect, StopClient, MarkOffline,
       GiveUp, throttle, cloud
  <2>. QED BY <2>1 DEF Paced, Granted
<1>. QED BY <1>2, <1>3, <1>4, <1>5, <1>6, <1>7 DEF Next, Handle

\* At the start nothing was granted.
LEMMA PacedInit == Init => Paced
<1> SUFFICES ASSUME Init PROVE Paced
  OBVIOUS
<1>1. DOMAIN msgs = {}
  BY EmptySeq DEF Init
<1>2. \A c : Granted(c) = {}
  BY <1>1 DEF Granted
<1>3. Cardinality({}) = 0
  BY FS_EmptySet
<1>4. \A c \in Chargers : mvLastSent[c] = Never /\ mvSent[c] = 0
  BY DEF Init
<1>5. \A c \in Chargers : mvSent[c] + Cardinality(Granted(c)) = 0
  BY <1>2, <1>3, <1>4
<1>. QED BY <1>4, <1>5 DEF Paced

\* The pace bounds the rate.
LEMMA PacedBounds == TypeOK /\ Paced => RateBounded
<1> SUFFICES ASSUME TypeOK, Paced, NEW c \in Chargers
             PROVE  mvSent[c] <= 1 + clock \div MinInterval
  BY DEF RateBounded
<1>1. /\ mvSent[c] \in Nat /\ mvLastSent[c] \in Nat \cup {Never} /\ clock \in Nat
      /\ Cardinality(Granted(c)) \in Nat /\ clock \div MinInterval \in Nat
  BY GrantedSet, NextInterval DEF TypeOK
<1>2. CASE mvLastSent[c] = Never
  BY <1>1, <1>2 DEF Paced
<1>3. CASE mvLastSent[c] # Never
  <2>1. /\ mvLastSent[c] \in Nat /\ mvLastSent[c] <= clock
        /\ mvSent[c] + Cardinality(Granted(c)) <= 1 + (mvLastSent[c] \div MinInterval)
    BY <1>1, <1>3 DEF Paced
  <2>2. mvLastSent[c] \div MinInterval <= clock \div MinInterval
        /\ mvLastSent[c] \div MinInterval \in Nat
    BY <1>1, <2>1, NextInterval
  <2>. QED BY <1>1, <2>1, <2>2
<1>. QED BY <1>2, <1>3

-----------------------------------------------------------------------------
(* Theorems                                                                *)

IInv == TypeOK /\ Kept /\ Ordered /\ Counted /\ Sent /\ Paced

\* The inductive invariant holds in every state that the program reaches.
THEOREM IInvHolds == Spec => []IInv
<1>1. Init => IInv
  BY TypeInit, HooksInit, SentInit, PacedInit DEF IInv
<1>2. IInv /\ [Next]_vars => IInv'
  BY TypeStep, KeptStep, OrderedStep, CountedStep, SentStep, PacedStep DEF IInv
<1>. QED BY <1>1, <1>2, PTL DEF Spec

\* The variables keep their types; the relay's lock is held exactly by the hook
\* that dials.
THEOREM RelayTypeCorrect == Spec => []TypeOK
<1>1. IInv => TypeOK
  BY DEF IInv
<1>. QED BY <1>1, IInvHolds, PTL

\* However connects, disconnects and Close interleave, no running client is
\* lost: the relay's map has it, or a Disconnect is about to stop it.
THEOREM NoClientIsLost == Spec => []NoOrphan
<1>1. IInv => NoOrphan
  BY DEF IInv, Kept
<1>. QED BY <1>1, IInvHolds, PTL

\* When the hooks of a charger have ended in their order, its Online flag is
\* right, and there is no client for a charger that is away.
THEOREM QuietIsRight == Spec => []QuietAgrees
<1>1. IInv => QuietAgrees
  BY OrderedAgrees DEF IInv
<1>. QED BY <1>1, IInvHolds, PTL

\* Whatever the order of the hooks: once they ended, activeConns is the number
\* of connections that WaitForIdle waits for.
THEOREM IdleCountIsRight == Spec => []IdleIsCounted
<1>1. IInv => IdleIsCounted
  BY CountedWhenIdle DEF IInv
<1>. QED BY <1>1, IInvHolds, PTL

\* Forward lets nothing out that the merged policy does not name and forward.
THEOREM OnlyPolicyLetsOut == Spec => []OnlyWhatMayLeave
<1>1. IInv => OnlyWhatMayLeave
  BY NamedMayLeave DEF IInv, Sent, Cleared, OnlyWhatMayLeave
<1>. QED BY <1>1, IInvHolds, PTL

\* The cloud gets a request of a connection after the earlier ones only, unless
\* its charger gave up on it.
THEOREM CloudSeesOrder == Spec => []InOrder
<1>1. IInv => InOrder
  BY DEF IInv, Sent
<1>. QED BY <1>1, IInvHolds, PTL

\* However the handlers interleave, the throttle holds: at most one message of
\* meter values for each interval that has begun.
THEOREM ThrottleHolds == Spec => []RateBounded
<1>1. IInv => RateBounded
  BY PacedBounds DEF IInv
<1>. QED BY <1>1, IInvHolds, PTL
-----------------------------------------------------------------------------
(* The abstract uplink                                                     *)

\* Each request is what the charger sent.
LEMMA MadeFields ==
  ASSUME TypeOK, NEW m \in DOMAIN msgs
  PROVE  /\ Made[m].charger = msgs[m].charger /\ Made[m].epoch = msgs[m].epoch
         /\ Made[m].action = msgs[m].action
         /\ msgs[m].charger \in Chargers /\ msgs[m].epoch \in Nat /\ msgs[m].action \in Actions
<1>1. msgs[m] \in MessageRec
  BY MessageDomain
<1>2. msgs[m].charger \in Chargers /\ msgs[m].epoch \in Nat /\ msgs[m].action \in Actions
  BY <1>1 DEF MessageRec
<1>. QED BY <1>2 DEF Made

\* A function on an initial segment is a sequence.
LEMMA SegmentIsSeq ==
  ASSUME NEW S, NEW n \in Nat, NEW f \in [1 .. n -> S]
  PROVE  f \in Seq(S) /\ Len(f) = n
<1>1. f \in Seq(S)
  OBVIOUS
<1>. QED BY <1>1, LenProperties

\* The requests are a sequence, as long as the messages are.
RequestRec == [charger : Chargers, epoch : Nat, action : Actions]

LEMMA MadeIsSeq ==
  ASSUME NEW q \in Seq(MessageRec)
  PROVE  LET f == [m \in DOMAIN q |->
                     [charger |-> q[m].charger, epoch |-> q[m].epoch, action |-> q[m].action]]
         IN f \in Seq(RequestRec) /\ Len(f) = Len(q)
<1> DEFINE f == [m \in DOMAIN q |->
                   [charger |-> q[m].charger, epoch |-> q[m].epoch, action |-> q[m].action]]
<1>1. Len(q) \in Nat /\ DOMAIN q = 1 .. Len(q)
  BY LenProperties
<1>2. ASSUME NEW m \in DOMAIN q PROVE f[m] \in RequestRec
  <2>1. q[m] \in MessageRec
    BY <1>1, ElementOfSeq
  <2>2. q[m].charger \in Chargers /\ q[m].epoch \in Nat /\ q[m].action \in Actions
    BY <2>1 DEF MessageRec
  <2>. QED BY <2>2 DEF RequestRec
<1>3. f \in [1 .. Len(q) -> RequestRec]
  BY <1>1, <1>2
<1> HIDE DEF f
<1>4. f \in Seq(RequestRec) /\ Len(f) = Len(q)
  BY <1>1, <1>3, SegmentIsSeq
<1>. QED BY <1>4 DEF f

\* A message that moves on stays what the charger sent, and is answered at most.
LEMMA MadeStays ==
  ASSUME TypeOK, OneRequest, NEW m, NEW r, Becomes(m, r), msgs[m].pc # "done"
  PROVE  /\ Made' = Made /\ m \in Unanswered
         /\ Unanswered' = Unanswered \/ Unanswered' = Unanswered \ {m}
<1>1. /\ DOMAIN msgs' = DOMAIN msgs /\ msgs'[m] = r /\ m \in DOMAIN msgs
      /\ \A k \in DOMAIN msgs : /\ msgs'[k].charger = msgs[k].charger
                                /\ msgs'[k].epoch = msgs[k].epoch
                                /\ msgs'[k].action = msgs[k].action
                                /\ k # m => msgs'[k] = msgs[k]
  BY MessageMoves DEF Becomes
<1>2. Made' = Made
  BY <1>1 DEF Made
<1>3. m \in Unanswered
  BY <1>1 DEF OneRequest, Unanswered
<1>4. CASE r.answered
  <2>1. Unanswered' = Unanswered \ {m}
    BY <1>1, <1>4 DEF Unanswered
  <2>. QED BY <1>2, <1>3, <2>1
<1>5. CASE ~r.answered
  <2>1. m \in Unanswered'
    BY <1>1, <1>5 DEF Unanswered
  <2>2. \A k \in DOMAIN msgs : k # m => (k \in Unanswered' <=> k \in Unanswered)
    BY <1>1 DEF Unanswered
  <2>3. Unanswered' \subseteq DOMAIN msgs /\ Unanswered \subseteq DOMAIN msgs
    BY <1>1 DEF Unanswered
  <2>4. Unanswered' = Unanswered
    BY <1>3, <2>1, <2>2, <2>3
  <2>. QED BY <1>2, <1>3, <2>4
<1>. QED BY <1>4, <1>5

\* What the cloud does not see is an answer, or nothing.
LEMMA Answers ==
  ASSUME TypeOK, OneRequest, NEW m, NEW r, Becomes(m, r), msgs[m].pc # "done",
         UNCHANGED <<overrides, epoch, forgone, cloud, clock>>
  PROVE  Stream!Next \/ UNCHANGED Stream!vars
<1>1. /\ Made' = Made /\ m \in Unanswered
      /\ Unanswered' = Unanswered \/ Unanswered' = Unanswered \ {m}
  BY MadeStays
<1>2. MayLeave' = MayLeave
  BY DEF MayLeave
<1>3. CASE Unanswered' = Unanswered
  BY <1>1, <1>2, <1>3 DEF Stream!vars, cloud
<1>4. CASE Unanswered' = Unanswered \ {m}
  <2>1. Stream!Answer(m)
    BY <1>1, <1>2, <1>4 DEF Stream!Answer, cloud
  <2>. QED BY <1>1, <2>1 DEF Stream!Next
<1>. QED BY <1>1, <1>3, <1>4

\* What the client sends is received: it is not answered, the policy names it,
\* what the cloud has of the connection is earlier unless it was given up, and a
\* meter value was granted its interval.
LEMMA Receives ==
  ASSUME IInv, IInv', NEW m, Send(m), upstream' # upstream
  PROVE  Stream!Next
<1>1. /\ m \in DOMAIN msgs /\ msgs[m].pc = "send" /\ msgs[m] \in MessageRec
      /\ upstream' = Append(upstream, m)
      /\ mvSent' = [mvSent EXCEPT ![msgs[m].charger] =
                      IF msgs[m].action = "MeterValues" THEN @ + 1 ELSE @]
      /\ UNCHANGED <<overrides, epoch, forgone, clock>>
  <2>1. m \in DOMAIN msgs /\ msgs[m].pc = "send" /\ msgs[m] \in MessageRec
    BY MessageDomain DEF Send, MessageAt, IInv
  <2>2. ~UNCHANGED cloud
    BY DEF cloud
  <2>. QED BY <2>1, <2>2 DEF Send, throttle, chargers
<1>2. PICK r : Becomes(m, r)
  BY SendBecomes DEF IInv
<1>3. /\ Made' = Made /\ m \in Unanswered
      /\ Unanswered' = Unanswered \/ Unanswered' = Unanswered \ {m}
  BY <1>1, <1>2, MadeStays DEF IInv, Sent
<1>4. /\ \A k \in DOMAIN msgs : /\ Made[k].charger = msgs[k].charger
                                 /\ Made[k].epoch = msgs[k].epoch
                                 /\ Made[k].action = msgs[k].action
      /\ msgs[m].charger \in Chargers /\ msgs[m].action \in Actions
      /\ MayLeave' = MayLeave
  BY <1>1, MadeFields DEF MayLeave, IInv
<1>5. /\ upstream \in Seq(Messages) /\ m \in Messages
      /\ Len(upstream) \in Nat /\ DOMAIN upstream = 1 .. Len(upstream)
  <2>1. upstream \in Seq(Messages) /\ m \in Messages
    BY <1>1, MessageDomain DEF IInv, TypeOK
  <2>. QED BY <2>1, LenProperties
<1>6. /\ DOMAIN upstream' = DOMAIN upstream \cup {Len(upstream) + 1}
      /\ \A i \in DOMAIN upstream : upstream'[i] = upstream[i] /\ i < Len(upstream) + 1
      /\ upstream'[Len(upstream) + 1] = m
  <2>1. /\ Append(upstream, m) \in Seq(Messages)
        /\ Len(Append(upstream, m)) = Len(upstream) + 1
        /\ \A i \in 1 .. Len(upstream) : Append(upstream, m)[i] = upstream[i]
        /\ Append(upstream, m)[Len(upstream) + 1] = m
    BY <1>5, AppendProperties
  <2>2. DOMAIN Append(upstream, m) = 1 .. Len(upstream) + 1
    BY <2>1, LenProperties
  <2>3. 1 .. Len(upstream) + 1 = 1 .. Len(upstream) \cup {Len(upstream) + 1}
    BY <1>5
  <2>4. \A i \in 1 .. Len(upstream) : i < Len(upstream) + 1
    BY <1>5
  <2>. QED BY <1>1, <1>5, <2>1, <2>2, <2>3, <2>4
<1>7. Made[m].action \in MayLeave
  <2>1. Passes(m)
    BY <1>1 DEF IInv, Sent, Cleared
  <2>2. IF msgs[m].action \in DOMAIN overrides THEN ShouldForward(overrides[msgs[m].action])
        ELSE msgs[m].action \in InboundBoth \cup InboundUpstream
    BY <2>1, NamedMayLeave
  <2>3. msgs[m].action \in Actions /\ Made[m].action = msgs[m].action
    BY <1>1, <1>4
  <2>. QED BY <2>2, <2>3 DEF MayLeave
<1>8. ASSUME NEW i \in DOMAIN upstream, Stream!SameConnection(upstream[i], m),
             m \notin forgone
      PROVE  upstream[i] < m
  <2>1. /\ upstream[i] \in DOMAIN msgs
        /\ msgs[upstream[i]].charger = msgs[m].charger /\ msgs[upstream[i]].epoch = msgs[m].epoch
    <3>1. upstream[i] \in DOMAIN msgs
      BY <1>8 DEF IInv, Sent, SentIsRouted
    <3>. QED BY <1>1, <1>4, <1>8, <3>1 DEF Stream!SameConnection
  <2>2. \A k \in DOMAIN msgs : /\ msgs'[k].charger = msgs[k].charger
                               /\ msgs'[k].epoch = msgs[k].epoch
    BY <1>2, MessageMoves DEF IInv
  <2>3. PICK n \in Nat : n = Len(upstream) + 1
    BY <1>5
  <2>4. InOrder'
    BY DEF IInv, Sent
  <2>5. /\ i \in DOMAIN upstream' /\ n \in DOMAIN upstream' /\ i < n
        /\ upstream'[i] = upstream[i] /\ upstream'[n] = m
    BY <1>6, <2>3
  <2>6. \A j, k \in DOMAIN upstream' :
          (j < k /\ msgs'[upstream'[j]].charger = msgs'[upstream'[k]].charger
           /\ msgs'[upstream'[j]].epoch = msgs'[upstream'[k]].epoch
           /\ upstream'[k] \notin forgone)
            => upstream'[j] < upstream'[k]
    BY <1>1, <2>4 DEF InOrder
  <2>7. /\ upstream'[n] \notin forgone
        /\ msgs'[upstream'[i]].charger = msgs'[upstream'[n]].charger
        /\ msgs'[upstream'[i]].epoch = msgs'[upstream'[n]].epoch
    BY <1>1, <1>8, <2>1, <2>2, <2>5
  <2>. QED BY <2>5, <2>6, <2>7
<1>9. Stream!Metered(m) => mvSent[Made[m].charger] <= clock \div MinInterval
  <2> SUFFICES ASSUME Stream!Metered(m) PROVE mvSent[msgs[m].charger] <= clock \div MinInterval
    BY <1>1, <1>4
  <2>1. msgs[m].action = "MeterValues" /\ msgs[m].charger \in Chargers
    BY <1>1, <1>4 DEF Stream!Metered
  <2>2. mvSent \in [Chargers -> Nat] /\ clock \in Nat
    BY DEF IInv, TypeOK
  <2>3. mvSent'[msgs[m].charger] = mvSent[msgs[m].charger] + 1
    BY <1>1, <2>1, <2>2
  <2>4. RateBounded'
    BY PacedBounds, PTL DEF IInv
  <2>5. PICK c \in Chargers : c = msgs[m].charger
    BY <2>1
  <2>6. mvSent'[c] <= 1 + clock \div MinInterval
    BY <1>1, <2>4 DEF RateBounded
  <2>7. mvSent[c] \in Nat /\ clock \div MinInterval \in Nat
    BY <2>2, NextInterval
  <2>. QED BY <2>3, <2>5, <2>6, <2>7
<1>10. Stream!Receive(m)
  <2>1. mvSent' = [mvSent EXCEPT ![Made[m].charger] = IF Stream!Metered(m) THEN @ + 1 ELSE @]
    BY <1>1, <1>4 DEF Stream!Metered
  <2>2. m \notin forgone =>
          \A i \in DOMAIN upstream : Stream!SameConnection(upstream[i], m) => upstream[i] < m
    BY <1>8
  <2>3. \A i \in DOMAIN upstream : upstream[i] # m
    BY <1>1 DEF IInv, Sent, SentIsRouted
  <2>. QED BY <1>1, <1>3, <1>4, <1>7, <1>9, <2>1, <2>2, <2>3 DEF Stream!Receive
<1>. QED BY <1>3, <1>10 DEF Stream!Next

\* A request of a charger is made: it waits for no other of its connection.
LEMMA Makes ==
  ASSUME TypeOK, NEW c \in Chargers, NEW a \in Actions, Request(c, a)
  PROVE  Stream!Next
<1>1. PICK n \in Nat : n = Len(msgs) + 1
  BY MessageDomain
<1>2. /\ msgs' \in Seq(MessageRec) /\ DOMAIN msgs' = DOMAIN msgs \cup {n}
      /\ n \notin DOMAIN msgs /\ \A m \in DOMAIN msgs : msgs'[m] = msgs[m]
      /\ msgs'[n].charger = c /\ msgs'[n].epoch = epoch[c] /\ msgs'[n].action = a
      /\ ~msgs'[n].answered
      /\ \A m \in DOMAIN msgs :
           (msgs[m].charger = c /\ msgs[m].epoch = epoch[c])
                   => msgs[m].answered \/ m \in forgone
      /\ UNCHANGED <<epoch, forgone, overrides, upstream, mvSent, clock>>
  BY <1>1, RequestAppends DEF chargers, cloud, throttle
<1>3. Len(msgs) \in Nat /\ DOMAIN msgs = 1 .. Len(msgs)
  BY MessageDomain
<1> DEFINE s == [charger |-> c, epoch |-> epoch[c], action |-> a]
<1>4. Made \in Seq(RequestRec) /\ Len(Made) = Len(msgs)
  BY MessageDomain, MadeIsSeq DEF Made
<1>5. s \in RequestRec
  BY DEF TypeOK, RequestRec
<1>6. Made' = Append(Made, s)
  <2>1. /\ Append(Made, s) \in Seq(RequestRec) /\ Len(Append(Made, s)) = n
        /\ \A m \in 1 .. Len(msgs) : Append(Made, s)[m] = Made[m]
        /\ Append(Made, s)[n] = s
    BY <1>1, <1>4, <1>5, AppendProperties
  <2>2. Made' \in Seq(RequestRec) /\ Len(Made') = n
    BY <1>1, <1>2, RequestAppends, MadeIsSeq DEF Made
  <2>3. \A m \in DOMAIN msgs : Made'[m] = Made[m]
    BY <1>2 DEF Made
  <2>4. Made'[n] = s
    BY <1>2 DEF Made
  <2>5. \A m \in 1 .. n : m \in 1 .. Len(msgs) \/ m = n
    BY <1>1, <1>3
  <2>6. \A m \in 1 .. Len(Made') : Made'[m] = Append(Made, s)[m]
    BY <1>3, <2>1, <2>2, <2>3, <2>4, <2>5
  <2>. QED BY <2>1, <2>2, <2>6, SeqEqual
<1>7. Unanswered' = Unanswered \cup {Len(Made) + 1}
  BY <1>1, <1>2, <1>4 DEF Unanswered
<1>8. \A m \in Unanswered \ forgone : ~(Made[m].charger = c /\ Made[m].epoch = epoch[c])
  BY <1>2 DEF Unanswered, Made
<1>9. MayLeave' = MayLeave
  BY <1>2 DEF MayLeave
<1>10. Stream!Make(c, a)
  BY <1>2, <1>6, <1>7, <1>8, <1>9 DEF Stream!Make
<1>. QED BY <1>10 DEF Stream!Next

\* What the hooks of the connections and Close do, nobody outside sees.
LEMMA Unseen ==
  ASSUME UNCHANGED <<msgs, overrides, epoch, forgone, cloud, clock>>
  PROVE  UNCHANGED Stream!vars
BY DEF Stream!vars, MayLeave, Made, Unanswered, cloud

\* Whatever router, throttle, clients and hooks do: what the cloud receives is a
\* behaviour of the abstract uplink: requests without an answer yet, once at most,
\* that the policy lets out, at the throttle's rate, in order unless given up.
THEOREM UplinkImplemented == Spec => ImplementsUplink
<1>1. Init => Stream!Init
  <2> SUFFICES ASSUME Init PROVE Stream!Init
    OBVIOUS
  <2>1. msgs = <<>> /\ DOMAIN msgs = {}
    BY EmptySeq DEF Init
  <2>2. Made = <<>> /\ Unanswered = {}
    BY <2>1 DEF Made, Unanswered
  <2>3. MayLeave \in SUBSET Actions
    BY DEF MayLeave
  <2>. QED BY <2>2, <2>3 DEF Init, Stream!Init
<1>2. IInv /\ IInv' /\ [Next]_vars => [Stream!Next]_(Stream!vars)
  <2> SUFFICES ASSUME IInv, IInv', [Next]_vars
               PROVE  Stream!Next \/ UNCHANGED Stream!vars
    OBVIOUS
  <2>1. TypeOK /\ OneRequest
    BY DEF IInv, Sent
  <2>2. ASSUME NEW c \in Chargers, LinkUp(c) PROVE Stream!Next
    <3>1. Stream!Reconnect(c)
      BY <2>2 DEF LinkUp, Stream!Reconnect, MayLeave, Made, Unanswered, cloud, throttle
    <3>. QED BY <3>1 DEF Stream!Next
  <2>3. ASSUME NEW c \in Chargers, NEW a \in Actions, Request(c, a) PROVE Stream!Next
    BY <2>1, <2>3, Makes
  <2>4. CASE Tick
    <3>1. Stream!Tick
      BY <2>4 DEF Tick, Stream!Tick, MayLeave, Made, Unanswered, cloud, chargers
    <3>. QED BY <3>1 DEF Stream!Next
  <2>5. ASSUME NEW m, Forward(m) \/ ShouldThrottleMV(m) \/ UpsertOnBoot(m)
        PROVE  Stream!Next \/ UNCHANGED Stream!vars
    <3>1. UNCHANGED <<overrides, epoch, forgone, cloud, clock>>
      BY <2>5 DEF Forward, ShouldThrottleMV, UpsertOnBoot, chargers, throttle
    <3>2. \E r : Becomes(m, r) /\ msgs[m].pc # "done"
      <4>1. CASE Forward(m)
        BY <2>1, <4>1, ForwardBecomes
      <4>2. CASE ShouldThrottleMV(m)
        BY <2>1, <4>2, ThrottleBecomes
      <4>3. CASE UpsertOnBoot(m)
        BY <2>1, <4>3, UpsertBecomes DEF UpsertOnBoot, MessageAt
      <4>. QED BY <2>5, <4>1, <4>2, <4>3
    <3>. QED BY <2>1, <3>1, <3>2, Answers
  <2>6. ASSUME NEW m, Send(m) PROVE Stream!Next \/ UNCHANGED Stream!vars
    <3>1. CASE upstream' # upstream
      BY <2>6, <3>1, Receives
    <3>2. CASE upstream' = upstream
      <4>0. Append(upstream, m) # upstream
        <5>1. upstream \in Seq(Messages) /\ m \in Messages /\ Len(upstream) \in Nat
          BY <2>1, <2>6, MessageDomain, LenProperties DEF TypeOK, Send, MessageAt
        <5>2. Len(Append(upstream, m)) = Len(upstream) + 1
          BY <5>1, AppendProperties
        <5>. QED BY <5>1, <5>2
      <4>1. UNCHANGED <<overrides, epoch, forgone, cloud, clock>>
        BY <2>6, <3>2, <4>0 DEF Send, chargers, throttle, cloud
      <4>2. \E r : Becomes(m, r) /\ msgs[m].pc # "done"
        BY <2>1, <2>6, SendBecomes
      <4>. QED BY <2>1, <4>1, <4>2, Answers
    <3>. QED BY <3>1, <3>2
  <2>7. ASSUME \/ UNCHANGED vars \/ Close \/ Closing
               \/ \E c \in Chargers : LinkDown(c)
               \/ \E i \in HookIds : Hook(i)
        PROVE  UNCHANGED Stream!vars
    <3>1. UNCHANGED <<msgs, overrides, epoch, forgone, cloud, clock>>
      BY <2>7 DEF vars, Close, Closing, CloseNext, CloseStops, LinkDown, Hook, MarkOnline, Connect,
         Connected, ConnectFails, Disconnect, StopClient, MarkOffline, chargers, cloud, throttle
    <3>. QED BY <3>1, Unseen
  <2>8. ASSUME NEW m, GiveUp(m) PROVE Stream!Next
    <3>1. m \in Unanswered
      BY <2>8 DEF GiveUp, Unanswered
    <3>2. Stream!GiveUp(m)
      BY <2>8, <3>1 DEF GiveUp, Stream!GiveUp, MayLeave, Made, Unanswered, cloud, throttle
    <3>. QED BY <3>1, <3>2 DEF Stream!Next
  <2>. QED BY <2>2, <2>3, <2>4, <2>5, <2>6, <2>7, <2>8 DEF Next, Handle
<1>. QED BY <1>1, <1>2, IInvHolds, PTL DEF Spec, ImplementsUplink, Stream!Spec
=============================================================================
