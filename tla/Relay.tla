-------------------------------- MODULE Relay --------------------------------
(***************************************************************************)
(* Chargers come and go, and each has a connection of its own to the       *)
(* vendor's cloud: OnConnect and OnDisconnect of                           *)
(* internal/adapter/outbound/ocpp/handler.go, the router of router.go and  *)
(* the UpstreamRelay of relay.go.                                          *)
(*                                                                         *)
(* The OCPP library runs every connect hook, every disconnect hook and     *)
(* every request handler in a goroutine of its own: a hook may overtake    *)
(* the one before it.  A hook holds the relay's lock while it dials the    *)
(* cloud.  The clients of the cloud are numbered by the hooks that dialled *)
(* them.  Publishing, discovery and events are left out, and so is the     *)
(* clearing of the overrides, which ChargeControl has.                     *)
(***************************************************************************)
EXTENDS Policy, Integers, Sequences, FiniteSets

CONSTANTS
  Chargers,
  Proxied,       \* chargers with an upstream URL
  Overrides,     \* what may be merged into the default policy: functions from actions
  Actions,       \* what chargers send
  MinInterval,   \* 60 / UpstreamThrottleMVPerMin
  MaxHooks,      \* bound: connects and disconnects, of all chargers together
  MaxMessages,   \* bound: requests of the chargers
  MaxClock       \* bound: time

ASSUME RelayAssumption ==
  /\ Proxied \subseteq Chargers /\ IsFiniteSet(Chargers)
  /\ \A o \in Overrides : \A a \in DOMAIN o : o[a] \in Decisions
  /\ MinInterval \in Nat \ {0}
  /\ {MaxHooks, MaxMessages, MaxClock} \subseteq Nat

HookIds == 1 .. MaxHooks
Messages == 1 .. MaxMessages
NoClient == 0
Free == 0      \* nobody dials under the lock
Never == -1

VARIABLES
  link, epoch,    \* chargers connected; how many connections each has had
  forgone,        \* requests whose chargers no longer wait for the answer
  hooks,          \* the hooks that were begun, in their order
  online,         \* the repository's Online flags
  activeConns,
  clients, phase, \* the relay's map; what became of each client
  mu,             \* the hook that holds the lock while it dials
  closer,         \* Close: the chargers left, the client to stop
  overrides,      \* of the chargers' policy
  msgs,           \* the requests of the chargers, in their order
  upstream,       \* what the cloud received, in its order
  mvLastSent, clock,
  \* History
  mvSent,         \* meter values the cloud received
  overtaken       \* a hook was at work before an earlier one had ended, or a boot
                  \* notification after its connection had

chargers == <<link, epoch, forgone>>
relay    == <<clients, phase, mu>>
throttle == <<mvLastSent, clock>>
cloud    == <<upstream, mvSent>>
vars == <<chargers, hooks, online, activeConns, relay, closer, overrides, msgs, throttle,
          cloud, overtaken>>

Resting == [pc |-> "idle", todo |-> {}, entry |-> NoClient]

Init ==
  /\ link = [c \in Chargers |-> FALSE] /\ epoch = [c \in Chargers |-> 0]
  /\ forgone = {}
  /\ hooks = <<>>
  /\ online = [c \in Chargers |-> FALSE] /\ activeConns = 0
  /\ clients = [c \in Chargers |-> NoClient]
  /\ phase = [i \in HookIds |-> "none"]
  /\ mu = Free
  /\ closer = Resting
  /\ overrides \in Overrides
  /\ msgs = <<>> /\ upstream = <<>>
  /\ mvLastSent = [c \in Chargers |-> Never] /\ clock = 0
  /\ mvSent = [c \in Chargers |-> 0]
  /\ overtaken = [c \in Chargers |-> FALSE]

-----------------------------------------------------------------------------
(* The chargers *)

Begin(kind, c) ==
  Append(hooks, [kind |-> kind, charger |-> c, entry |-> NoClient,
                 pc |-> IF kind = "connect" THEN "online" ELSE "delete"])

LinkUp(c) ==
  /\ ~link[c] /\ Len(hooks) < MaxHooks
  /\ link' = [link EXCEPT ![c] = TRUE]
  /\ epoch' = [epoch EXCEPT ![c] = @ + 1]
  /\ hooks' = Begin("connect", c)
  /\ UNCHANGED <<forgone, online, activeConns, relay, closer, overrides, msgs, throttle, cloud,
                 overtaken>>

LinkDown(c) ==
  /\ link[c] /\ Len(hooks) < MaxHooks
  /\ link' = [link EXCEPT ![c] = FALSE]
  /\ hooks' = Begin("disconnect", c)
  /\ UNCHANGED <<epoch, forgone, online, activeConns, relay, closer, overrides, msgs, throttle,
                 cloud, overtaken>>

\* As OCPP-J has it, a charger sends no request before the last one of its
\* connection is answered, or before it gives up waiting.
Request(c, action) ==
  /\ link[c] /\ Len(msgs) < MaxMessages
  /\ \A m \in DOMAIN msgs :
       (msgs[m].charger = c /\ msgs[m].epoch = epoch[c]) => (msgs[m].answered \/ m \in forgone)
  /\ msgs' = Append(msgs, [charger |-> c, epoch |-> epoch[c], action |-> action,
                           pc |-> "route", entry |-> NoClient, answered |-> FALSE])
  /\ UNCHANGED <<chargers, hooks, online, activeConns, relay, closer, overrides, throttle, cloud,
                 overtaken>>

\* A charger's timeout; it matters where the charger can send another request
\* on the same connection.  The handler does not learn of it.
GiveUp(m) ==
  /\ m \in DOMAIN msgs /\ ~msgs[m].answered /\ m \notin forgone
  /\ link[msgs[m].charger] /\ epoch[msgs[m].charger] = msgs[m].epoch
  /\ Len(msgs) < MaxMessages
  /\ forgone' = forgone \cup {m}
  /\ UNCHANGED <<link, epoch, hooks, online, activeConns, relay, closer, overrides, msgs,
                 throttle, cloud, overtaken>>

Tick ==
  /\ clock < MaxClock
  /\ clock' = clock + 1
  /\ UNCHANGED <<chargers, hooks, online, activeConns, relay, closer, overrides, msgs, mvLastSent,
                 cloud, overtaken>>

-----------------------------------------------------------------------------
(* OnConnect and OnDisconnect.  Every step of a hook notes whether an      *)
(* earlier hook of the charger is still at work.                           *)

At(i, kind, pc) == i \in DOMAIN hooks /\ hooks[i].kind = kind /\ hooks[i].pc = pc
GoOn(i, pc, entry) == hooks' = [hooks EXCEPT ![i].pc = pc, ![i].entry = entry]

Overtakes(i) == \E j \in 1 .. i - 1 : hooks[j].charger = hooks[i].charger /\ hooks[j].pc # "done"
NoteOrder(i) ==
  overtaken' = [overtaken EXCEPT ![hooks[i].charger] = @ \/ Overtakes(i)]

\* OnConnect: one connection more, and the charger is marked (or created) online.
MarkOnline(i) ==
  /\ At(i, "connect", "online")
  /\ activeConns' = activeConns + 1
  /\ online' = [online EXCEPT ![hooks[i].charger] = TRUE]
  /\ GoOn(i, IF hooks[i].charger \in Proxied THEN "connect" ELSE "done", NoClient)
  /\ NoteOrder(i)
  /\ UNCHANGED <<chargers, relay, closer, overrides, msgs, throttle, cloud>>

\* Mutant of Connect: whatever the map holds, a new client is dialled.
ConnectAnyway(i) ==
  /\ At(i, "connect", "connect")
  /\ mu = Free /\ mu' = i
  /\ phase' = [phase EXCEPT ![i] = "dialing"]
  /\ GoOn(i, "dial", i)
  /\ NoteOrder(i)
  /\ UNCHANGED <<chargers, online, activeConns, clients, closer, overrides, msgs, throttle,
                 cloud>>

\* UpstreamRelay.Connect: one client for a charger; the lock is kept for dialling.
Connect(i) ==
  /\ At(i, "connect", "connect")
  /\ mu = Free
  /\ IF clients[hooks[i].charger] # NoClient
     THEN GoOn(i, "done", NoClient) /\ UNCHANGED <<mu, phase>>
     ELSE /\ GoOn(i, "dial", i)
          /\ mu' = i
          /\ phase' = [phase EXCEPT ![i] = "dialing"]
  /\ NoteOrder(i)
  /\ UNCHANGED <<chargers, online, activeConns, clients, closer, overrides, msgs, throttle,
                 cloud>>

Connected(i) ==
  /\ At(i, "connect", "dial")
  /\ phase' = [phase EXCEPT ![i] = "running"]
  /\ clients' = [clients EXCEPT ![hooks[i].charger] = i]
  /\ mu' = Free
  /\ GoOn(i, "done", NoClient)
  /\ NoteOrder(i)
  /\ UNCHANGED <<chargers, online, activeConns, closer, overrides, msgs, throttle, cloud>>

\* Mutant of ConnectFails: the lock is not released on this way out.
ConnectFailsLocked(i) ==
  /\ At(i, "connect", "dial")
  /\ phase' = [phase EXCEPT ![i] = "stopped"]
  /\ GoOn(i, "done", NoClient)
  /\ NoteOrder(i)
  /\ UNCHANGED <<chargers, online, activeConns, clients, mu, closer, overrides, msgs, throttle,
                 cloud>>

\* The cloud cannot be reached; nothing tries again before the charger reconnects.
ConnectFails(i) ==
  /\ At(i, "connect", "dial")
  /\ phase' = [phase EXCEPT ![i] = "stopped"]
  /\ mu' = Free
  /\ GoOn(i, "done", NoClient)
  /\ NoteOrder(i)
  /\ UNCHANGED <<chargers, online, activeConns, clients, closer, overrides, msgs, throttle,
                 cloud>>

\* Mutant of Disconnect: the relay is not told.
DisconnectSkipped(i) ==
  /\ At(i, "disconnect", "delete")
  /\ GoOn(i, "offline", NoClient)
  /\ NoteOrder(i)
  /\ UNCHANGED <<chargers, online, activeConns, relay, closer, overrides, msgs, throttle, cloud>>

\* UpstreamRelay.Disconnect: the client leaves the map under the lock ...
Disconnect(i) ==
  /\ At(i, "disconnect", "delete")
  /\ mu = Free
  /\ LET entry == clients[hooks[i].charger]
     IN GoOn(i, IF entry = NoClient THEN "offline" ELSE "stop", entry)
  /\ clients' = [clients EXCEPT ![hooks[i].charger] = NoClient]
  /\ NoteOrder(i)
  /\ UNCHANGED <<chargers, online, activeConns, phase, mu, closer, overrides, msgs, throttle,
                 cloud>>

\* ... and is stopped after the lock was released.
StopClient(i) ==
  /\ At(i, "disconnect", "stop")
  /\ phase' = [phase EXCEPT ![hooks[i].entry] = "stopped"]
  /\ GoOn(i, "offline", NoClient)
  /\ NoteOrder(i)
  /\ UNCHANGED <<chargers, online, activeConns, clients, mu, closer, overrides, msgs, throttle,
                 cloud>>

\* Mutant of MarkOffline: an early return leaves the connection counted.
MarkOfflineUncounted(i) ==
  /\ At(i, "disconnect", "offline")
  /\ online' = [online EXCEPT ![hooks[i].charger] = FALSE]
  /\ GoOn(i, "done", NoClient)
  /\ NoteOrder(i)
  /\ UNCHANGED <<chargers, activeConns, relay, closer, overrides, msgs, throttle, cloud>>

\* The rest of OnDisconnect.
MarkOffline(i) ==
  /\ At(i, "disconnect", "offline")
  /\ online' = [online EXCEPT ![hooks[i].charger] = FALSE]
  /\ activeConns' = activeConns - 1
  /\ GoOn(i, "done", NoClient)
  /\ NoteOrder(i)
  /\ UNCHANGED <<chargers, relay, closer, overrides, msgs, throttle, cloud>>

Hook(i) ==
  \/ MarkOnline(i) \/ Connect(i) \/ Connected(i) \/ ConnectFails(i)
  \/ Disconnect(i) \/ StopClient(i) \/ MarkOffline(i)

-----------------------------------------------------------------------------
(* UpstreamRelay.Close: a Disconnect for every charger in the map          *)

Close ==
  /\ closer.pc = "idle"
  /\ mu = Free
  /\ closer' = [Resting EXCEPT !.pc = "delete",
                               !.todo = {c \in Chargers : clients[c] # NoClient}]
  /\ UNCHANGED <<chargers, hooks, online, activeConns, relay, overrides, msgs, throttle, cloud,
                 overtaken>>

CloseNext(c) ==
  /\ closer.pc = "delete" /\ c \in closer.todo
  /\ mu = Free
  /\ closer' = [pc |-> IF clients[c] = NoClient THEN "delete" ELSE "stop",
                todo |-> closer.todo \ {c}, entry |-> clients[c]]
  /\ clients' = [clients EXCEPT ![c] = NoClient]
  /\ UNCHANGED <<chargers, hooks, online, activeConns, phase, mu, overrides, msgs, throttle,
                 cloud, overtaken>>

CloseStops ==
  /\ closer.pc = "stop"
  /\ phase' = [phase EXCEPT ![closer.entry] = "stopped"]
  /\ closer' = [closer EXCEPT !.pc = "delete", !.entry = NoClient]
  /\ UNCHANGED <<chargers, hooks, online, activeConns, clients, mu, overrides, msgs, throttle,
                 cloud, overtaken>>

Closing == (\E c \in Chargers : CloseNext(c)) \/ CloseStops

-----------------------------------------------------------------------------
(* The router and UpstreamRelay.Forward                                    *)

RouterPolicy == Merge(DefaultPolicy, overrides)
MessageAt(m, pc) == m \in DOMAIN msgs /\ msgs[m].pc = pc
Proceed(m, pc) == [msgs EXCEPT ![m].pc = pc]

\* The router has done its part; what it decided does not bind the handler.
Routed(m) ==
  LET boots == msgs[m].action = "BootNotification"
  IN [msgs EXCEPT ![m].pc = IF boots THEN "upsert" ELSE "done", ![m].entry = NoClient,
                  ![m].answered = @ \/ ~boots]

\* Mutant of Forward: the answer to the charger does not wait for the cloud.
ForwardAnswersFirst(m) ==
  /\ MessageAt(m, "route")
  /\ mu = Free
  /\ LET entry == clients[msgs[m].charger]
         action == msgs[m].action
     IN msgs' =
          IF ~ShouldForward(Decide(RouterPolicy, "inbound", action)) \/ entry = NoClient
          THEN Routed(m)
          ELSE [msgs EXCEPT ![m].entry = entry, ![m].answered = TRUE,
                            ![m].pc = IF action = "MeterValues" THEN "throttle" ELSE "send"]
  /\ UNCHANGED <<chargers, hooks, online, activeConns, relay, closer, overrides, throttle, cloud,
                 overtaken>>

\* A message that the policy forwards takes the client of its charger out of
\* the map, under the lock.  Without one the forward has failed.
Forward(m) ==
  /\ MessageAt(m, "route")
  /\ LET entry == clients[msgs[m].charger]
         action == msgs[m].action
     IN IF ~ShouldForward(Decide(RouterPolicy, "inbound", action))
        THEN msgs' = Routed(m)
        ELSE /\ mu = Free
             /\ msgs' = IF entry = NoClient THEN Routed(m)
                        ELSE [msgs EXCEPT ![m].entry = entry,
                                          ![m].pc = IF action = "MeterValues" THEN "throttle"
                                                    ELSE "send"]
  /\ UNCHANGED <<chargers, hooks, online, activeConns, relay, closer, overrides, throttle, cloud,
                 overtaken>>

\* Mutant of ShouldThrottleMV: the time is not noted with the decision.
ShouldThrottleUnmarked(m) ==
  /\ MessageAt(m, "throttle")
  /\ LET last == mvLastSent[msgs[m].charger]
     IN msgs' = IF last # Never /\ clock - last < MinInterval THEN Routed(m)
                ELSE Proceed(m, "send")
  /\ UNCHANGED <<chargers, hooks, online, activeConns, relay, closer, overrides, throttle, cloud,
                 overtaken>>

\* The decision and its mark are one, before the message is sent.
ShouldThrottleMV(m) ==
  /\ MessageAt(m, "throttle")
  /\ LET c == msgs[m].charger
         tooSoon == mvLastSent[c] # Never /\ clock - mvLastSent[c] < MinInterval
     IN IF tooSoon THEN msgs' = Routed(m) /\ UNCHANGED mvLastSent
        ELSE /\ msgs' = Proceed(m, "send")
             /\ mvLastSent' = [mvLastSent EXCEPT ![c] = clock]
  /\ UNCHANGED <<chargers, hooks, online, activeConns, relay, closer, overrides, clock, cloud,
                 overtaken>>

\* Mutant of Send: an answer that does not come lets the client send again.
SendRetries(m) ==
  /\ MessageAt(m, "send")
  /\ msgs' \in {Routed(m), msgs}
  /\ phase[msgs[m].entry] = "running"
  /\ upstream' = Append(upstream, m)
  /\ mvSent' = [mvSent EXCEPT ![msgs[m].charger] =
                  IF msgs[m].action = "MeterValues" THEN @ + 1 ELSE @]
  /\ UNCHANGED <<chargers, hooks, online, activeConns, relay, closer, overrides, throttle,
                 overtaken>>

\* The client sends and waits for the cloud, and the handler waits with it.  A
\* stopped client fails at once; one that runs may fail too, where the cloud is
\* away or the payload is of no type that forward knows.
Send(m) ==
  /\ MessageAt(m, "send")
  /\ msgs' = Routed(m)
  /\ \/ /\ phase[msgs[m].entry] = "running"
        /\ upstream' = Append(upstream, m)
        /\ mvSent' = [mvSent EXCEPT ![msgs[m].charger] =
                        IF msgs[m].action = "MeterValues" THEN @ + 1 ELSE @]
     \/ UNCHANGED cloud
  /\ UNCHANGED <<chargers, hooks, online, activeConns, relay, closer, overrides, throttle,
                 overtaken>>

\* OnBootNotification: the charger is recorded as online.
UpsertOnBoot(m) ==
  /\ MessageAt(m, "upsert")
  /\ LET c == msgs[m].charger
     IN /\ online' = [online EXCEPT ![c] = TRUE]
        /\ overtaken' = [overtaken EXCEPT ![c] = @ \/ ~link[c] \/ epoch[c] # msgs[m].epoch]
  /\ msgs' = [msgs EXCEPT ![m].pc = "done", ![m].answered = TRUE]
  /\ UNCHANGED <<chargers, hooks, activeConns, relay, closer, overrides, throttle, cloud>>

Handle(m) == Forward(m) \/ ShouldThrottleMV(m) \/ Send(m) \/ UpsertOnBoot(m)

-----------------------------------------------------------------------------
Next ==
  \/ \E c \in Chargers : LinkUp(c) \/ LinkDown(c)
  \/ \E c \in Chargers, a \in Actions : Request(c, a)
  \/ Tick
  \/ \E i \in HookIds : Hook(i)
  \/ Close \/ Closing
  \/ \E m \in Messages : Handle(m) \/ GiveUp(m)

Spec == Init /\ [][Next]_vars

\* Goroutines run on: a dial succeeds or fails, the lock is handed out, and
\* the cloud answers or the request fails.
FairSpec ==
  /\ Spec
  /\ \A i \in HookIds : WF_vars(Hook(i))
  /\ WF_vars(Closing)
  /\ \A m \in Messages : WF_vars(Handle(m))

-----------------------------------------------------------------------------
(* Properties *)

Quiet(c) == \A i \in DOMAIN hooks : hooks[i].charger = c => hooks[i].pc = "done"
Forwarded(m) == \E k \in DOMAIN upstream : upstream[k] = m

HookSteps == {"online", "connect", "dial", "delete", "stop", "offline", "done"}

\* The variables have their types; the lock is held by the hook that dials,
\* and by nobody else.
TypeOK ==
  /\ link \in [Chargers -> BOOLEAN] /\ online \in [Chargers -> BOOLEAN]
  /\ overtaken \in [Chargers -> BOOLEAN]
  /\ epoch \in [Chargers -> Nat] /\ forgone \subseteq DOMAIN msgs /\ activeConns \in Int
  /\ hooks \in Seq([kind : {"connect", "disconnect"}, charger : Chargers,
                    entry : HookIds \cup {NoClient}, pc : HookSteps])
  /\ Len(hooks) <= MaxHooks
  /\ clients \in [Chargers -> HookIds \cup {NoClient}]
  /\ phase \in [HookIds -> {"none", "dialing", "running", "stopped"}]
  /\ mu \in HookIds \cup {Free} /\ overrides \in Overrides
  /\ \A i \in HookIds : mu = i <=> i \in DOMAIN hooks /\ hooks[i].pc = "dial"
  /\ closer \in [pc : {"idle", "delete", "stop"}, todo : SUBSET Chargers,
                 entry : HookIds \cup {NoClient}]
  /\ msgs \in Seq([charger : Chargers, epoch : Nat, action : Actions,
                   entry : HookIds \cup {NoClient}, answered : BOOLEAN,
                   pc : {"route", "throttle", "send", "upsert", "done"}])
  /\ Len(msgs) <= MaxMessages
  /\ upstream \in Seq(Messages)
  /\ mvLastSent \in [Chargers -> Nat \cup {Never}] /\ clock \in Nat
  /\ mvSent \in [Chargers -> Nat]

\* Every client that runs can still be stopped: the map has it, or a
\* Disconnect is about to stop it.  (A client that is lost keeps reconnecting
\* to the cloud for as long as the process lives.)
NoOrphan ==
  \A i \in HookIds : phase[i] = "running" =>
    \/ \E c \in Chargers : clients[c] = i
    \/ \E j \in DOMAIN hooks : hooks[j].pc = "stop" /\ hooks[j].entry = i
    \/ closer.pc = "stop" /\ closer.entry = i

\* However the handlers interleave, the cloud gets at most one message of meter
\* values per interval: what is sent was granted, and grants are an interval
\* apart.
RateBounded ==
  \A c \in Chargers : mvSent[c] <= 1 + clock \div MinInterval

\* The cloud sees nothing that is to be dropped or kept local: an override of the
\* charger decides, and the default policy where there is none.
OnlyWhatMayLeave ==
  \A m \in DOMAIN msgs : Forwarded(m) =>
    IF msgs[m].action \in DOMAIN overrides THEN ShouldForward(overrides[msgs[m].action])
    ELSE msgs[m].action \in InboundBoth \cup InboundUpstream

\* The cloud sees the requests of one connection in the order the charger sent
\* them, a StopTransaction never before its StartTransaction, but for those the
\* charger gave up on: nothing keeps their handlers, that wait for the relay's
\* lock or the cloud, in front of the handlers of later requests.
InOrder ==
  \A j, k \in DOMAIN upstream :
    (j < k /\ msgs[upstream[j]].charger = msgs[upstream[k]].charger
     /\ msgs[upstream[j]].epoch = msgs[upstream[k]].epoch /\ upstream[k] \notin forgone)
      => upstream[j] < upstream[k]

\* When the hooks of a charger have ended, and none has overtaken another, the
\* repository and the relay agree with the wire: online as connected, and no
\* client for a charger that is away.
QuietAgrees ==
  \A c \in Chargers : (Quiet(c) /\ ~overtaken[c]) =>
    /\ online[c] = link[c]
    /\ clients[c] # NoClient => link[c]

\* In whatever order the hooks ran, WaitForIdle counts right once they ended.
IdleIsCounted ==
  (\A c \in Chargers : Quiet(c)) => activeConns = Cardinality({c \in Chargers : link[c]})

\* A slow or unreachable cloud delays a request of a charger, and never keeps
\* it from its answer.
RequestsAnswered ==
  \A m \in Messages : m \in DOMAIN msgs ~> (m \in DOMAIN msgs /\ msgs[m].answered)

\* A charger that leaves for good, its hooks in order, leaves no client behind.
ClientsStop ==
  \A c \in Chargers :
    (<>[](~link[c]) /\ [](~overtaken[c])) => <>[](clients[c] = NoClient)

-----------------------------------------------------------------------------
(* The relay as the abstract uplink.                                       *)

MayLeave == {a \in Actions : IF a \in DOMAIN overrides THEN ShouldForward(overrides[a])
                             ELSE a \in InboundBoth \cup InboundUpstream}

Made == [m \in DOMAIN msgs |->
           [charger |-> msgs[m].charger, epoch |-> msgs[m].epoch, action |-> msgs[m].action]]

Unanswered == {m \in DOMAIN msgs : ~msgs[m].answered}

Stream == INSTANCE Uplink WITH
  allowed <- MayLeave, connection <- epoch, made <- Made, open <- Unanswered,
  got <- upstream, metered <- mvSent

\* Whatever router, throttle, clients and hooks do, what the cloud sees is the
\* abstract uplink: requests without an answer yet, once at most, that the policy
\* lets out, at the throttle's rate, and in the order of each connection but for
\* those given up.
ImplementsUplink == Stream!Spec
=============================================================================
