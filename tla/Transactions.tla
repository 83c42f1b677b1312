---------------------------- MODULE Transactions ----------------------------
(***************************************************************************)
(* What the session records promise to those who ask them for the active   *)
(* session of a connector, stated over the transactions themselves and     *)
(* without records, requests or goroutines.  A transaction that a process  *)
(* began ends once and for all; one that a restart made it forget may come *)
(* back, under one connector; and a connector of which no request was ever *)
(* given up runs one transaction at a time and gets none back that ended.  *)
(***************************************************************************)
EXTENDS Integers

CONSTANTS
  Connectors,
  MaxTx,         \* the largest transaction ID
  NoKey          \* the owner of a transaction that nothing is known of

VARIABLES
  life,          \* what became of each transaction
  owner,         \* the connector it is known under
  lossy          \* connectors of which a request was given up

vars == <<life, owner, lossy>>

Ids == 1 .. MaxTx

Init ==
  /\ life = [t \in Ids |-> "unseen"]
  /\ owner = [t \in Ids |-> NoKey]
  /\ lossy = {}

Runs(t) == life[t] \in {"begun", "recovered"}

\* No other transaction is known to run on the connector.
Vacant(k) == k \in lossy \/ \A t \in Ids : owner[t] = k => ~Runs(t)

Begin(t, k) ==
  /\ life[t] = "unseen" /\ Vacant(k)
  /\ life' = [life EXCEPT ![t] = "begun"]
  /\ owner' = [owner EXCEPT ![t] = k]
  /\ UNCHANGED lossy

\* A transaction that began in this process has "ended"; one that was recovered
\* is only "settled".
End(t) ==
  /\ Runs(t)
  /\ life' = [life EXCEPT ![t] = IF @ = "begun" THEN "ended" ELSE "settled"]
  /\ UNCHANGED <<owner, lossy>>

Recover(t, k) ==
  /\ \/ life[t] = "forgotten" /\ Vacant(k)
     \/ life[t] = "settled" /\ owner[t] = k /\ k \in lossy
  /\ life' = [life EXCEPT ![t] = "recovered"]
  /\ owner' = [owner EXCEPT ![t] = k]
  /\ UNCHANGED lossy

\* A restart.
Forget ==
  /\ life' = [t \in Ids |-> IF life[t] = "unseen" THEN "unseen" ELSE "forgotten"]
  /\ owner' = [t \in Ids |-> NoKey]
  /\ UNCHANGED lossy

Lose(K) ==
  /\ lossy' = lossy \cup K
  /\ UNCHANGED <<life, owner>>

Next ==
  \/ \E t \in Ids, k \in Connectors : Begin(t, k) \/ Recover(t, k)
  \/ \E t \in Ids : End(t)
  \/ Forget
  \/ \E K \in SUBSET Connectors : Lose(K)

Spec == Init /\ [][Next]_vars
=============================================================================
