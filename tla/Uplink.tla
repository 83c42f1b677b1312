------------------------------- MODULE Uplink --------------------------------
(***************************************************************************)
(* What the relay promises the vendor's cloud and the chargers' owner,     *)
(* stated over requests and receipts, without clients, hooks or locks: the *)
(* cloud receives a request only while it is not answered, once at most,   *)
(* only if the policy lets its action out, and meter values not faster     *)
(* than one for each interval that has begun; requests of a connection in  *)
(* their order, but for those that the charger gave up on.                 *)
(***************************************************************************)
EXTENDS Integers, Sequences

CONSTANTS
  Chargers,
  Actions,
  MinInterval

VARIABLES
  allowed,       \* the actions that may leave
  connection,    \* how many connections each charger has had
  made,          \* the requests of the chargers, in their order
  open,          \* those that were not answered
  forgone,       \* those whose chargers gave up waiting
  got,           \* what the cloud received, in its order
  metered,       \* meter values it received of each charger
  clock

vars == <<allowed, connection, made, open, forgone, got, metered, clock>>

Init ==
  /\ allowed \in SUBSET Actions
  /\ connection = [c \in Chargers |-> 0]
  /\ made = <<>> /\ open = {} /\ forgone = {} /\ got = <<>>
  /\ metered = [c \in Chargers |-> 0]
  /\ clock = 0

Reconnect(c) ==
  /\ connection' = [connection EXCEPT ![c] = @ + 1]
  /\ UNCHANGED <<allowed, made, open, forgone, got, metered, clock>>

\* A charger waits for one request of its connection at a time.
Make(c, a) ==
  /\ \A m \in open \ forgone : ~(made[m].charger = c /\ made[m].epoch = connection[c])
  /\ made' = Append(made, [charger |-> c, epoch |-> connection[c], action |-> a])
  /\ open' = open \cup {Len(made) + 1}
  /\ UNCHANGED <<allowed, connection, forgone, got, metered, clock>>

Answer(m) ==
  /\ m \in open
  /\ open' = open \ {m}
  /\ UNCHANGED <<allowed, connection, made, forgone, got, metered, clock>>

GiveUp(m) ==
  /\ m \in open
  /\ forgone' = forgone \cup {m}
  /\ UNCHANGED <<allowed, connection, made, open, got, metered, clock>>

SameConnection(l, m) == made[l].charger = made[m].charger /\ made[l].epoch = made[m].epoch

Metered(m) == made[m].action = "MeterValues"

\* The cloud's receipt may be what the charger waited for.
Receive(m) ==
  /\ m \in open /\ made[m].action \in allowed
  /\ \A i \in DOMAIN got : got[i] # m
  /\ m \notin forgone => \A i \in DOMAIN got : SameConnection(got[i], m) => got[i] < m
  /\ Metered(m) => metered[made[m].charger] <= clock \div MinInterval
  /\ got' = Append(got, m)
  /\ metered' = [metered EXCEPT ![made[m].charger] = IF Metered(m) THEN @ + 1 ELSE @]
  /\ open' \in {open, open \ {m}}
  /\ UNCHANGED <<allowed, connection, made, forgone, clock>>

Tick ==
  /\ clock' = clock + 1
  /\ UNCHANGED <<allowed, connection, made, open, forgone, got, metered>>

Next ==
  \/ \E c \in Chargers : Reconnect(c) \/ \E a \in Actions : Make(c, a)
  \/ \E m \in open : Answer(m) \/ GiveUp(m) \/ Receive(m)
  \/ Tick

Spec == Init /\ [][Next]_vars
=============================================================================
