-------------------------- MODULE SessionsLiveProofs --------------------------
(***************************************************************************)
(* What GetActiveSession finds is the live transaction, on a connector     *)
(* whose requests were all answered, and the records implement the         *)
(* abstract transactions: for every set of connectors and of goroutines    *)
(* and every number of transactions and restarts.                          *)
(***************************************************************************)
EXTENDS SessionsProofs

\* The charger waits for one answer at most, and a request it does not wait for
\* has blurred its connector.
Attended ==
  /\ \A v, w \in Awaiting : v = w
  /\ \A w \in Workers :
       (worker[w].kind # "none" /\ ~worker[w].awaited) => worker[w].key \in blurred

\* What the charger waits for fits what it does.
Fits ==
  \A w \in Awaiting :
    /\ worker[w].kind = "start" => phase[worker[w].key] = "starting"
    /\ worker[w].kind = "meter" => /\ phase[worker[w].key] \in {"charging", "stopping"}
                                   /\ worker[w].tx = txid[worker[w].key]
    /\ worker[w].kind = "stop" => /\ phase[worker[w].key] = "stopping"
                                  /\ worker[w].tx = txid[worker[w].key]
    /\ worker[w].kind \notin {"start", "meter", "stop"} => worker[w].tx = NoTx
BeginsWithoutID == \A w \in Unnumbered : worker[w].tx = NoTx

\* A transaction belongs to one connector, whoever names it.
Claims ==
  {<<sessions[i].tx, sessions[i].key>> : i \in DOMAIN sessions}
  \cup {<<worker[w].tx, worker[w].key>> : w \in {v \in Workers : worker[v].tx # NoTx}}
  \cup {<<txid[k], k>> : k \in {j \in Connectors : txid[j] # NoTx}}
Owned == \A p, q \in Claims : p[1] = q[1] => p[2] = q[2]

\* On a connector that was never blurred a transaction has one record, which is
\* the one that its stop finds and ends.
Single ==
  /\ \A i, j \in DOMAIN sessions :
       (sessions[i].tx = sessions[j].tx /\ sessions[i].key \notin blurred) => i = j
  /\ \A w \in Workers : worker[w].key \notin blurred =>
       /\ At(w, "meter", "recover") => OfTransaction(worker[w].tx) = {}
       /\ At(w, "stop", "update") => worker[w].found \in OfTransaction(worker[w].tx)
       /\ At(w, "stop", "reply") => \A i \in OfTransaction(worker[w].tx) : ~sessions[i].active

LInv == Attended /\ Fits /\ BeginsWithoutID /\ Owned /\ Single /\ ActiveIsLive

-----------------------------------------------------------------------------
(* Names and their owners                                                  *)

\* What is in the records and with the goroutines has its type.
LEMMA Kinds ==
  ASSUME SInv
  PROVE  /\ \A i \in DOMAIN sessions : sessions[i] \in Session /\ sessions[i].tx # NoTx
         /\ \A w \in Workers : worker[w] \in Work
         /\ worker \in [Workers -> Work] /\ sessions \in Seq(Session)
         /\ Awaiting \subseteq Workers
         /\ \A w \in Awaiting : worker[w].awaited /\ worker[w].kind # "none"
                                /\ worker[w].key \in Connectors
<1>1. sessions \in Seq(Session) /\ worker \in [Workers -> Work]
  BY DEF SInv, TypeOK
<1>2. \A i \in DOMAIN sessions : sessions[i] \in Session
  BY <1>1
<1>3. \A i \in DOMAIN sessions : sessions[i].tx # NoTx
  BY <1>2 DEF Session, NoTx
<1>4. \A w \in Workers : worker[w] \in Work
  BY <1>1
<1>5. \A w \in Awaiting : worker[w].awaited /\ worker[w].kind # "none" /\ worker[w].key \in Connectors
  BY DEF Awaiting, SInv, Busy
<1>. QED BY <1>1, <1>2, <1>3, <1>4, <1>5 DEF Awaiting, Work

\* Who names the same transaction means the same connector.
LEMMA SameOwner ==
  ASSUME SInv, Owned
  PROVE  /\ \A i \in DOMAIN sessions, w \in Workers :
              sessions[i].tx = worker[w].tx => sessions[i].key = worker[w].key
         /\ \A v, w \in Workers :
              (worker[v].tx = worker[w].tx /\ worker[v].tx # NoTx) => worker[v].key = worker[w].key
         /\ \A i, j \in DOMAIN sessions :
              sessions[i].tx = sessions[j].tx => sessions[i].key = sessions[j].key
<1>1. \A i \in DOMAIN sessions : <<sessions[i].tx, sessions[i].key>> \in Claims
  BY DEF Claims
<1>2. \A w \in Workers : worker[w].tx # NoTx => <<worker[w].tx, worker[w].key>> \in Claims
  BY DEF Claims
<1>3. \A a, b, c, d : (<<a, b>> \in Claims /\ <<c, d>> \in Claims /\ a = c) => b = d
  BY DEF Owned
<1>4. \A i \in DOMAIN sessions : sessions[i].tx # NoTx
  BY Kinds
<1>. QED BY <1>1, <1>2, <1>3, <1>4

\* Fewer names, or one new ID, keep the owners.
LEMMA FewerClaims == ASSUME Owned, Claims' \subseteq Claims PROVE Owned'
BY DEF Owned

\* Two requests of one transaction, on a connector that was never blurred, are one.
LEMMA OneAtWork ==
  ASSUME SInv, Attended, Owned, NEW v \in Workers, NEW w \in Workers,
         worker[v].kind # "none", worker[w].kind # "none",
         worker[v].tx = worker[w].tx, worker[v].tx # NoTx,
         worker[v].key \notin blurred
  PROVE  v = w
<1>1. worker[v].key = worker[w].key
  BY SameOwner
<1>2. worker[v].awaited /\ worker[w].awaited
  BY <1>1, Kinds DEF Attended, Work
<1>. QED BY <1>2 DEF Attended, Awaiting

\* The initial states satisfy the invariant.
LEMMA LInit == Init => LInv
<1> SUFFICES ASSUME Init PROVE LInv
  OBVIOUS
<1>1. /\ DOMAIN sessions = {} /\ Awaiting = {} /\ Unnumbered = {} /\ Claims = {}
      /\ \A w \in Workers : worker[w].kind = "none"
  BY DEF Init, Awaiting, Unnumbered, Claims, Free, Request, NoTx
<1>. QED BY <1>1 DEF LInv, Attended, Fits, BeginsWithoutID, Owned, Single, ActiveIsLive, At

-----------------------------------------------------------------------------
(* The handlers                                                            *)

\* Only the goroutine that goes on changes, and not what it works at.
LEMMA GoesOn ==
  ASSUME SInv, NEW w \in Workers, NEW p \in PCs, NEW i \in Nat, Goes(w, p, i)
  PROVE  /\ \A v \in Workers : /\ worker'[v].kind = worker[v].kind
                               /\ worker'[v].key = worker[v].key
                               /\ worker'[v].tx = worker[v].tx
                               /\ worker'[v].awaited = worker[v].awaited
                               /\ v # w => worker'[v] = worker[v]
         /\ worker'[w].pc = p /\ worker'[w].found = i
         /\ Awaiting' = Awaiting
<1>1. TypeOK
  BY DEF SInv
<1>2. /\ \A v \in Workers : /\ worker'[v].kind = worker[v].kind
                            /\ worker'[v].key = worker[v].key
                            /\ worker'[v].tx = worker[v].tx
                            /\ worker'[v].awaited = worker[v].awaited
      /\ worker'[w].pc = p
  BY <1>1, GoesWorker
<1>3. worker' = [worker EXCEPT ![w] = Moved(worker[w], p, i)] /\ worker \in [Workers -> Work]
  BY <1>1 DEF Goes, TypeOK
<1>4. Moved(worker[w], p, i).found = i
  BY DEF Moved, Request
<1>. QED BY <1>2, <1>3, <1>4 DEF Awaiting

\* A request that goes on, with the records as they are.
LEMMA GoesLive ==
  ASSUME SInv, LInv, NEW w \in Workers, NEW p \in PCs, NEW n \in Nat, Goes(w, p, n),
         worker[w].kind # "start",
         UNCHANGED <<phase, txid, sessions, blurred>>,
         worker[w].kind = "meter" /\ p = "recover" => OfTransaction(worker[w].tx) = {},
         worker[w].kind = "stop" /\ p = "update" => n \in OfTransaction(worker[w].tx),
         worker[w].kind = "stop" /\ p = "reply" => OfTransaction(worker[w].tx) = {}
  PROVE  LInv'
<1>1. /\ \A v \in Workers : /\ worker'[v].kind = worker[v].kind
                            /\ worker'[v].key = worker[v].key
                            /\ worker'[v].tx = worker[v].tx
                            /\ worker'[v].awaited = worker[v].awaited
                            /\ v # w => worker'[v] = worker[v]
      /\ worker'[w].pc = p /\ worker'[w].found = n
      /\ Awaiting' = Awaiting /\ Awaiting \subseteq Workers
  BY GoesOn, Kinds
<1>2. Attended' /\ Fits'
  BY <1>1 DEF LInv, Attended, Fits
<1>3. BeginsWithoutID'
  BY <1>1 DEF LInv, BeginsWithoutID, Unnumbered
<1>4. Owned'
  <2>1. Claims' = Claims
    BY <1>1 DEF Claims
  <2>. QED BY <2>1, FewerClaims DEF LInv
<1>5. Single'
  <2>1. \A t : OfTransaction(t)' = OfTransaction(t)
    BY DEF OfTransaction
  <2>2. ASSUME NEW v \in Workers, worker[v].key \notin blurred
        PROVE  /\ At(v, "meter", "recover")' => OfTransaction(worker[v].tx) = {}
               /\ At(v, "stop", "update")' => worker'[v].found \in OfTransaction(worker[v].tx)
               /\ At(v, "stop", "reply")' =>
                    \A i \in OfTransaction(worker[v].tx) : ~sessions[i].active
    <3>1. CASE v = w
      BY <1>1, <3>1 DEF At
    <3>2. CASE v # w
      BY <1>1, <2>2, <3>2 DEF At, LInv, Single
    <3>. QED BY <3>1, <3>2
  <2>. QED BY <1>1, <2>1, <2>2 DEF LInv, Single, OfTransaction
<1>6. ActiveIsLive'
  BY <1>1 DEF LInv, ActiveIsLive, Live
<1>. QED BY <1>2, <1>3, <1>4, <1>5, <1>6 DEF LInv
\* OnStartTransaction: the charger that waits for the new ID is starting.
LEMMA StartLive ==
  ASSUME SInv, LInv, SessionsAssumption, NEW w \in Workers, HandleStart(w) PROVE LInv'
<1>r. PICK r : r = Numbers(worker[w], issued + 1)
  OBVIOUS
<1>s. PICK s : s = [key |-> worker[w].key, tx |-> issued + 1, active |-> TRUE, recovered |-> FALSE]
  OBVIOUS
<1>1. /\ worker' = [worker EXCEPT ![w] = r] /\ sessions' = Append(sessions, s)
      /\ UNCHANGED <<phase, txid, blurred>>
      /\ worker[w].kind = "start" /\ worker[w].pc = "begin"
  BY <1>r, <1>s DEF HandleStart, charger, At
<1>2. worker \in [Workers -> Work] /\ sessions \in Seq(Session) /\ issued \in 0 .. MaxTx /\ MaxTx \in Nat
  BY DEF SInv, TypeOK, SessionsAssumption
<1>3. w \in Unnumbered /\ Unnumbered \subseteq {w} /\ worker[w].tx = NoTx /\ worker[w].key \in Connectors
      /\ issued < MaxTx
  BY <1>1 DEF Unnumbered, SInv, OneUnnumbered, LInv, BeginsWithoutID, Busy
<1>4. /\ r.kind = "start" /\ r.key = worker[w].key /\ r.tx = issued + 1 /\ r.pc = "reply"
      /\ r.awaited = worker[w].awaited
  BY <1>r, <1>1 DEF Numbers, Request
<1>5. s.tx = issued + 1 /\ s.key = worker[w].key /\ s \in Session
  BY <1>s, <1>2, <1>3 DEF Session
<1>6. /\ worker'[w] = r /\ \A v \in Workers : v # w => worker'[v] = worker[v]
      /\ \A v \in Workers : /\ worker'[v].kind = worker[v].kind /\ worker'[v].key = worker[v].key
                            /\ worker'[v].awaited = worker[v].awaited
  BY <1>1, <1>2, <1>4
<1>7. /\ DOMAIN sessions' = 1 .. Len(sessions) + 1 /\ DOMAIN sessions = 1 .. Len(sessions)
      /\ Len(sessions) \in Nat
      /\ \A i \in DOMAIN sessions : sessions'[i] = sessions[i]
      /\ sessions'[Len(sessions) + 1] = s
  BY <1>1, <1>2, <1>5, Appended
<1>8. /\ \A i \in DOMAIN sessions : sessions[i].tx # issued + 1
      /\ \A v \in Workers : worker[v].tx # issued + 1
      /\ \A k \in Connectors : txid[k] # issued + 1
  BY <1>2, Kinds DEF SInv, Numbered, Session, Work, TypeOK
<1>9. Awaiting' = Awaiting
  BY <1>6 DEF Awaiting
<1>10. Attended'
  BY <1>1, <1>6, <1>9 DEF LInv, Attended
<1>11. Fits'
  <2> SUFFICES ASSUME NEW v \in Awaiting
               PROVE  /\ worker'[v].kind = "start" => phase[worker'[v].key] = "starting"
                      /\ worker'[v].kind = "meter" => /\ phase[worker'[v].key] \in {"charging", "stopping"}
                                                      /\ worker'[v].tx = txid[worker'[v].key]
                      /\ worker'[v].kind = "stop" => /\ phase[worker'[v].key] = "stopping"
                                                     /\ worker'[v].tx = txid[worker'[v].key]
                      /\ worker'[v].kind \notin {"start", "meter", "stop"} => worker'[v].tx = NoTx
    BY <1>1, <1>9 DEF Fits
  <2>1. v \in Workers
    BY Kinds
  <2>2. CASE v = w
    BY <2>2, <1>1, <1>4, <1>6 DEF LInv, Fits
  <2>3. CASE v # w
    BY <2>1, <2>3, <1>6 DEF LInv, Fits
  <2>. QED BY <2>2, <2>3
<1>12. BeginsWithoutID'
  <2>1. Unnumbered' = {}
    BY <1>3, <1>4, <1>6 DEF Unnumbered
  <2>. QED BY <2>1 DEF BeginsWithoutID
<1>13. Owned'
  <2>1. Claims' \subseteq Claims \cup {<<issued + 1, worker[w].key>>}
    <3>1. \A i \in DOMAIN sessions' : <<sessions'[i].tx, sessions'[i].key>> \in
                                        Claims \cup {<<issued + 1, worker[w].key>>}
      BY <1>5, <1>7 DEF Claims
    <3>2. \A v \in Workers : worker'[v].tx # NoTx =>
             <<worker'[v].tx, worker'[v].key>> \in Claims \cup {<<issued + 1, worker[w].key>>}
      BY <1>4, <1>6 DEF Claims
    <3>3. \A k \in Connectors : txid'[k] # NoTx =>
             <<txid'[k], k>> \in Claims \cup {<<issued + 1, worker[w].key>>}
      BY <1>1 DEF Claims
    <3>. QED BY <3>1, <3>2, <3>3 DEF Claims
  <2>2. \A p \in Claims : p[1] # issued + 1
    BY <1>8 DEF Claims
  <2>3. \A p, q \in Claims : p[1] = q[1] => p[2] = q[2]
    BY DEF LInv, Owned
  <2>. QED BY <2>1, <2>2, <2>3 DEF Owned
<1>14. Single'
  <2>1. \A i, j \in DOMAIN sessions' :
          (sessions'[i].tx = sessions'[j].tx /\ sessions'[i].key \notin blurred) => i = j
    <3> SUFFICES ASSUME NEW i \in DOMAIN sessions', NEW j \in DOMAIN sessions',
                        sessions'[i].tx = sessions'[j].tx, sessions'[i].key \notin blurred
                 PROVE  i = j
      OBVIOUS
    <3>1. CASE i \in DOMAIN sessions /\ j \in DOMAIN sessions
      BY <3>1, <1>7 DEF LInv, Single
    <3>. QED BY <3>1, <1>5, <1>7, <1>8
  <2>2. \A v \in Workers : v # w =>
          \A i \in DOMAIN sessions' : sessions'[i].tx = worker[v].tx =>
             i \in DOMAIN sessions /\ sessions'[i] = sessions[i]
    BY <1>5, <1>7, <1>8
  <2>3. ASSUME NEW v \in Workers, worker'[v].key \notin blurred
        PROVE  /\ At(v, "meter", "recover")' => OfTransaction(worker[v].tx)' = {}
               /\ At(v, "stop", "update")' => worker'[v].found \in OfTransaction(worker[v].tx)'
               /\ At(v, "stop", "reply")' =>
                    \A i \in OfTransaction(worker[v].tx)' : ~sessions'[i].active
    <3>1. CASE v = w
      BY <3>1, <1>4, <1>6 DEF At
    <3>2. CASE v # w
      <4>1. worker'[v] = worker[v]
        BY <3>2, <1>6
      <4>2. OfTransaction(worker[v].tx)' = OfTransaction(worker[v].tx)
        BY <4>1, <3>2, <2>2, <1>7 DEF OfTransaction
      <4>3. \A i \in OfTransaction(worker[v].tx) : sessions'[i] = sessions[i]
        BY <1>7 DEF OfTransaction
      <4>. QED BY <4>1, <4>2, <4>3, <2>3 DEF LInv, Single, At
    <3>. QED BY <3>1, <3>2
  <2>. QED BY <2>1, <2>3, <1>1 DEF Single
<1>15. ActiveIsLive'
  <2> SUFFICES ASSUME NEW i \in DOMAIN sessions', sessions'[i].active, sessions'[i].key \notin blurred
               PROVE  Live(i)'
    BY <1>1 DEF ActiveIsLive
  <2>1. CASE i \in DOMAIN sessions
    <3>1. sessions'[i] = sessions[i] /\ Live(i) /\ sessions[i].tx # NoTx
      BY <2>1, <1>7, Kinds DEF LInv, ActiveIsLive
    <3>2. \A v \in Awaiting : worker[v].tx = sessions[i].tx => worker'[v].tx = sessions[i].tx
      BY <3>1, <1>3, <1>6, Kinds
    <3>. QED BY <3>1, <3>2, <1>1, <1>9 DEF Live
  <2>2. CASE i \notin DOMAIN sessions
    <3>1. sessions'[i] = s
      BY <2>2, <1>7
    <3>2. w \in Awaiting /\ phase[s.key] = "starting"
      BY <3>1, <1>1, <1>5, Kinds DEF LInv, Attended, Fits, Awaiting, Work
    <3>3. worker'[w].tx = s.tx
      BY <1>4, <1>5, <1>6
    <3>. QED BY <3>1, <3>2, <3>3, <1>1, <1>9 DEF Live
  <2>. QED BY <2>1, <2>2
<1>. QED BY <1>10, <1>11, <1>12, <1>13, <1>14, <1>15 DEF LInv

\* Meter values of an unknown transaction bring back the one that runs.
LEMMA RecoverLive ==
  ASSUME SInv, LInv, SessionsAssumption, NEW w \in Workers, Recover(w) PROVE LInv'
<1>s. PICK s : s = [key |-> worker[w].key, tx |-> worker[w].tx, active |-> TRUE, recovered |-> TRUE]
  OBVIOUS
<1>1. /\ Goes(w, "upsert", 0) /\ sessions' = Append(sessions, s)
      /\ UNCHANGED <<phase, txid, blurred>>
      /\ worker[w].kind = "meter" /\ worker[w].pc = "recover"
  BY <1>s DEF Recover, charger, At
<1>2. sessions \in Seq(Session) /\ worker[w] \in Work /\ worker[w].key \in Connectors
  BY <1>1, Kinds DEF SInv, Busy
<1>3. s.tx = worker[w].tx /\ s.key = worker[w].key /\ s \in Session /\ worker[w].tx # NoTx
  BY <1>s, <1>1, <1>2 DEF Session, Work, SInv, Busy, NoTx
<1>4. /\ \A v \in Workers : /\ worker'[v].kind = worker[v].kind
                            /\ worker'[v].key = worker[v].key
                            /\ worker'[v].tx = worker[v].tx
                            /\ worker'[v].awaited = worker[v].awaited
                            /\ v # w => worker'[v] = worker[v]
      /\ worker'[w].pc = "upsert"
      /\ Awaiting' = Awaiting /\ Awaiting \subseteq Workers
  BY <1>1, GoesOn, Kinds DEF PCs
<1>5. /\ DOMAIN sessions' = 1 .. Len(sessions) + 1 /\ DOMAIN sessions = 1 .. Len(sessions)
      /\ Len(sessions) \in Nat
      /\ \A i \in DOMAIN sessions : sessions'[i] = sessions[i]
      /\ sessions'[Len(sessions) + 1] = s
  BY <1>1, <1>2, <1>3, Appended
<1>6. Attended' /\ Fits'
  BY <1>1, <1>4 DEF LInv, Attended, Fits
<1>7. BeginsWithoutID'
  <2>1. Unnumbered' \subseteq Unnumbered
    BY <1>1, <1>4 DEF Unnumbered
  <2>. QED BY <2>1, <1>4 DEF LInv, BeginsWithoutID, Unnumbered
<1>8. Owned'
  <2>1. \A i \in DOMAIN sessions' : <<sessions'[i].tx, sessions'[i].key>> \in Claims
    BY <1>3, <1>5 DEF Claims
  <2>2. Claims' \subseteq Claims
    BY <2>1, <1>1, <1>4 DEF Claims
  <2>. QED BY <2>2, FewerClaims DEF LInv
<1>9. worker[w].key \notin blurred => OfTransaction(worker[w].tx) = {}
  BY <1>1 DEF LInv, Single, At
<1>10. Single'
  <2>1. \A i, j \in DOMAIN sessions' :
          (sessions'[i].tx = sessions'[j].tx /\ sessions'[i].key \notin blurred) => i = j
    <3> SUFFICES ASSUME NEW i \in DOMAIN sessions', NEW j \in DOMAIN sessions',
                        sessions'[i].tx = sessions'[j].tx, sessions'[i].key \notin blurred
                 PROVE  i = j
      OBVIOUS
    <3>1. CASE i \in DOMAIN sessions /\ j \in DOMAIN sessions
      BY <3>1, <1>5 DEF LInv, Single
    <3>2. \A n \in DOMAIN sessions : sessions[n].tx = worker[w].tx =>
             sessions[n].key = worker[w].key /\ n \in OfTransaction(worker[w].tx)
      BY SameOwner DEF OfTransaction, LInv
    <3>. QED BY <3>1, <3>2, <1>3, <1>5, <1>9
  <2>2. ASSUME NEW v \in Workers, worker'[v].key \notin blurred
        PROVE  /\ At(v, "meter", "recover")' => OfTransaction(worker[v].tx)' = {}
               /\ At(v, "stop", "update")' => worker'[v].found \in OfTransaction(worker[v].tx)'
               /\ At(v, "stop", "reply")' =>
                    \A i \in OfTransaction(worker[v].tx)' : ~sessions'[i].active
    <3>1. CASE v = w
      BY <3>1, <1>1, <1>4 DEF At
    <3>2. CASE v # w /\ worker[v].kind = "none"
      BY <3>2, <1>4 DEF At
    <3>3. CASE v # w /\ worker[v].kind # "none"
      <4>1. worker'[v] = worker[v] /\ worker[v].tx # worker[w].tx
        BY <3>3, <2>2, <1>1, <1>3, <1>4, OneAtWork DEF LInv
      <4>2. OfTransaction(worker[v].tx)' = OfTransaction(worker[v].tx)
        BY <4>1, <1>3, <1>5 DEF OfTransaction
      <4>3. \A i \in OfTransaction(worker[v].tx) : sessions'[i] = sessions[i]
        BY <1>5 DEF OfTransaction
      <4>. QED BY <4>1, <4>2, <4>3, <2>2 DEF LInv, Single, At
    <3>. QED BY <3>1, <3>2, <3>3
  <2>. QED BY <2>1, <2>2, <1>1 DEF Single
<1>11. ActiveIsLive'
  <2> SUFFICES ASSUME NEW i \in DOMAIN sessions', sessions'[i].active, sessions'[i].key \notin blurred
               PROVE  Live(i)'
    BY <1>1 DEF ActiveIsLive
  <2>1. CASE i \in DOMAIN sessions
    BY <2>1, <1>1, <1>4, <1>5 DEF LInv, ActiveIsLive, Live
  <2>2. CASE i \notin DOMAIN sessions
    <3>1. sessions'[i] = s
      BY <2>2, <1>5
    <3>2. w \in Awaiting
      BY <3>1, <1>1, <1>2, <1>3 DEF LInv, Attended, Awaiting, Work
    <3>. QED BY <3>1, <3>2, <1>1, <1>3 DEF Live, LInv, Fits
  <2>. QED BY <2>1, <2>2
<1>. QED BY <1>6, <1>7, <1>8, <1>10, <1>11 DEF LInv

\* OnStopTransaction ends the one record of its transaction.
LEMMA UpdateLive ==
  ASSUME SInv, LInv, NEW w \in Workers, UpdateOnStop(w) PROVE LInv'
<1>1. /\ Goes(w, "reply", 0) /\ sessions' = [sessions EXCEPT ![worker[w].found] = Ended(@)]
      /\ UNCHANGED <<phase, txid, blurred>>
      /\ worker[w].kind = "stop" /\ worker[w].pc = "update"
  BY DEF UpdateOnStop, charger, At
<1>2. sessions \in Seq(Session)
  BY Kinds
<1>3. /\ DOMAIN sessions' = DOMAIN sessions
      /\ \A i \in DOMAIN sessions : /\ sessions'[i].key = sessions[i].key
                                    /\ sessions'[i].tx = sessions[i].tx
                                    /\ sessions'[i].active => sessions[i].active
      /\ worker[w].found \in DOMAIN sessions => ~sessions'[worker[w].found].active
  <2>1. DOMAIN sessions' = DOMAIN sessions
    BY <1>1, <1>2
  <2>2. \A i \in DOMAIN sessions : i # worker[w].found => sessions'[i] = sessions[i]
    BY <1>1, <1>2
  <2>3. worker[w].found \in DOMAIN sessions =>
           sessions'[worker[w].found] = Ended(sessions[worker[w].found])
    BY <1>1, <1>2
  <2>4. \A x : Ended(x).key = x.key /\ Ended(x).tx = x.tx /\ ~Ended(x).active
    BY DEF Ended
  <2>5. ASSUME NEW i \in DOMAIN sessions
        PROVE  /\ sessions'[i].key = sessions[i].key
               /\ sessions'[i].tx = sessions[i].tx
               /\ sessions'[i].active => sessions[i].active
    <3>1. CASE i = worker[w].found
      BY <3>1, <2>3, <2>4
    <3>2. CASE i # worker[w].found
      BY <3>2, <2>2
    <3>. QED BY <3>1, <3>2
  <2>6. worker[w].found \in DOMAIN sessions => ~sessions'[worker[w].found].active
    BY <2>3, <2>4
  <2>. QED BY <2>1, <2>5, <2>6
<1>4. /\ \A v \in Workers : /\ worker'[v].kind = worker[v].kind
                            /\ worker'[v].key = worker[v].key
                            /\ worker'[v].tx = worker[v].tx
                            /\ worker'[v].awaited = worker[v].awaited
                            /\ v # w => worker'[v] = worker[v]
      /\ worker'[w].pc = "reply"
      /\ Awaiting' = Awaiting /\ Awaiting \subseteq Workers
  BY <1>1, GoesOn, Kinds DEF PCs
<1>5. Attended' /\ Fits'
  BY <1>1, <1>4 DEF LInv, Attended, Fits
<1>6. BeginsWithoutID'
  <2>1. Unnumbered' \subseteq Unnumbered
    BY <1>1, <1>4 DEF Unnumbered
  <2>. QED BY <2>1, <1>4 DEF LInv, BeginsWithoutID, Unnumbered
<1>7. Owned'
  <2>1. \A i \in DOMAIN sessions' : <<sessions'[i].tx, sessions'[i].key>> \in Claims
    BY <1>3 DEF Claims
  <2>2. Claims' \subseteq Claims
    BY <2>1, <1>1, <1>4 DEF Claims
  <2>. QED BY <2>2, FewerClaims DEF LInv
<1>8. \A t : OfTransaction(t)' = OfTransaction(t)
  BY <1>3 DEF OfTransaction
<1>9. ASSUME worker[w].key \notin blurred, NEW i \in OfTransaction(worker[w].tx)
      PROVE  ~sessions'[i].active
  <2>1. worker[w].found \in OfTransaction(worker[w].tx)
    BY <1>1, <1>9 DEF LInv, Single, At
  <2>2. sessions[i].key = worker[w].key /\ sessions[i].tx = sessions[worker[w].found].tx
    BY <2>1, SameOwner DEF OfTransaction, LInv
  <2>3. i = worker[w].found
    BY <2>1, <2>2, <1>9 DEF LInv, Single, OfTransaction
  <2>. QED BY <2>1, <2>3, <1>3 DEF OfTransaction
<1>10. Single'
  <2>1. \A i, j \in DOMAIN sessions' :
          (sessions'[i].tx = sessions'[j].tx /\ sessions'[i].key \notin blurred) => i = j
    BY <1>3 DEF LInv, Single
  <2>2. ASSUME NEW v \in Workers, worker'[v].key \notin blurred
        PROVE  /\ At(v, "meter", "recover")' => OfTransaction(worker[v].tx)' = {}
               /\ At(v, "stop", "update")' => worker'[v].found \in OfTransaction(worker[v].tx)'
               /\ At(v, "stop", "reply")' =>
                    \A i \in OfTransaction(worker[v].tx)' : ~sessions'[i].active
    <3>0. OfTransaction(worker[v].tx)' = OfTransaction(worker[v].tx)
      BY <1>4, <1>8 DEF OfTransaction
    <3>1. CASE v = w
      BY <3>0, <3>1, <1>1, <1>4, <1>9, <2>2 DEF At
    <3>2. CASE v # w
      <4>1. worker'[v] = worker[v] /\ worker[v].key \notin blurred
        BY <3>2, <2>2, <1>4
      <4>2. \A i \in OfTransaction(worker[v].tx) : sessions'[i].active => sessions[i].active
        BY <1>3 DEF OfTransaction
      <4>. QED BY <3>0, <4>1, <4>2 DEF LInv, Single, At
    <3>. QED BY <3>1, <3>2
  <2>. QED BY <2>1, <2>2, <1>1 DEF Single
<1>11. ActiveIsLive'
  BY <1>1, <1>3, <1>4 DEF LInv, ActiveIsLive, Live
<1>. QED BY <1>5, <1>6, <1>7, <1>10, <1>11 DEF LInv
\* An answer that the charger waited for tells it what the records say already.
LEMMA AnswerLive ==
  ASSUME SInv, LInv, SessionsAssumption, NEW w \in Workers, Answer(w) PROVE LInv'
<1>1. /\ worker' = [worker EXCEPT ![w] = Free] /\ worker[w].pc = "reply"
      /\ UNCHANGED <<sessions, blurred>>
  BY DEF Answer, repos
<1>2. /\ worker \in [Workers -> Work] /\ Awaiting \subseteq Workers
      /\ Free.kind = "none" /\ Free.tx = NoTx /\ Free.awaited = FALSE
  BY Kinds DEF Free, Request
<1>3. worker'[w] = Free /\ \A v \in Workers : v # w => worker'[v] = worker[v]
  BY <1>1, <1>2
<1>4. Awaiting' = Awaiting \ {w}
  BY <1>2, <1>3 DEF Awaiting
<1>5. Attended' /\ BeginsWithoutID'
  <2>1. Unnumbered' \subseteq Unnumbered
    BY <1>2, <1>3 DEF Unnumbered
  <2>2. BeginsWithoutID'
    BY <2>1, <1>2, <1>3 DEF LInv, BeginsWithoutID, Unnumbered
  <2>3. Attended'
    BY <1>1, <1>2, <1>3, <1>4 DEF LInv, Attended
  <2>. QED BY <2>2, <2>3
<1>6. Single'
  <2>1. \A t : OfTransaction(t)' = OfTransaction(t)
    BY <1>1 DEF OfTransaction
  <2>2. ASSUME NEW v \in Workers, worker'[v].key \notin blurred
        PROVE  /\ At(v, "meter", "recover")' => OfTransaction(worker[v].tx)' = {}
               /\ At(v, "stop", "update")' => worker'[v].found \in OfTransaction(worker[v].tx)'
               /\ At(v, "stop", "reply")' =>
                    \A i \in OfTransaction(worker[v].tx)' : ~sessions[i].active
    <3>1. CASE v = w
      BY <3>1, <1>2, <1>3 DEF At
    <3>2. CASE v # w
      <4>1. worker'[v] = worker[v]
        BY <3>2, <1>3
      <4>2. OfTransaction(worker[v].tx)' = OfTransaction(worker[v].tx)
        BY <4>1, <1>1 DEF OfTransaction
      <4>. QED BY <4>1, <4>2, <2>2 DEF LInv, Single, At
    <3>. QED BY <3>1, <3>2
  <2>. QED BY <2>2, <1>1 DEF LInv, Single
<1>7. ASSUME NEW i \in DOMAIN sessions, worker[w].tx = sessions[i].tx
      PROVE  sessions[i].key = worker[w].key
  BY <1>7, SameOwner DEF LInv
<1>8. CASE ~worker[w].awaited
  <2>1. UNCHANGED <<phase, txid>> /\ Awaiting' = Awaiting
    BY <1>4, <1>8 DEF Answer, Awaiting
  <2>2. \A v \in Awaiting : worker'[v] = worker[v]
    BY <1>2, <1>3, <1>8 DEF Awaiting
  <2>3. Fits' /\ ActiveIsLive'
    BY <2>1, <2>2, <1>1 DEF LInv, Fits, ActiveIsLive, Live
  <2>4. Claims' \subseteq Claims
    BY <2>1, <1>1, <1>2, <1>3 DEF Claims
  <2>. QED BY <2>3, <2>4, <1>5, <1>6, FewerClaims DEF LInv
<1>9. CASE worker[w].awaited
  <2>1. w \in Awaiting /\ Awaiting = {w} /\ Awaiting' = {}
    BY <1>4, <1>9 DEF LInv, Attended, Awaiting
  <2>2. Fits'
    BY <2>1 DEF Fits
  <2>3. /\ worker[w].key \in Connectors /\ phase \in [Connectors -> {"idle", "starting", "charging", "stopping"}]
        /\ txid \in [Connectors -> 0 .. MaxTx]
        /\ \A i \in DOMAIN sessions : sessions[i].key \in Connectors
    BY <2>1, Kinds DEF SInv, TypeOK, Session
  <2>4. ASSUME NEW i \in DOMAIN sessions, sessions[i].active, sessions[i].key \notin blurred
        PROVE  \/ /\ phase[sessions[i].key] \in {"charging", "stopping"}
                  /\ txid[sessions[i].key] = sessions[i].tx
               \/ /\ phase[sessions[i].key] = "starting" /\ worker[w].tx = sessions[i].tx
                  /\ sessions[i].key = worker[w].key
    BY <2>1, <2>4, <1>7 DEF LInv, ActiveIsLive, Live
  <2>5. CASE worker[w].kind = "start"
    <3>1. /\ phase' = [phase EXCEPT ![worker[w].key] = "charging"]
          /\ txid' = [txid EXCEPT ![worker[w].key] = worker[w].tx]
          /\ phase[worker[w].key] = "starting"
      BY <2>1, <2>5, <1>9 DEF Answer, LInv, Fits
    <3>2. worker[w].tx # NoTx
      BY <2>5, <1>1 DEF SInv, Busy, NoTx
    <3>3. Claims' \subseteq Claims
      <4>1. \A k \in Connectors : txid'[k] # NoTx => <<txid'[k], k>> \in Claims
        BY <3>1, <3>2, <2>3 DEF Claims
      <4>. QED BY <4>1, <1>1, <1>2, <1>3 DEF Claims
    <3>4. ASSUME NEW i \in DOMAIN sessions, sessions[i].active, sessions[i].key \notin blurred
          PROVE  phase'[sessions[i].key] \in {"charging", "stopping"}
                 /\ txid'[sessions[i].key] = sessions[i].tx
      BY <3>1, <3>4, <2>3, <2>4
    <3>5. ActiveIsLive'
      BY <3>4, <1>1 DEF ActiveIsLive, Live
    <3>. QED BY <3>3, <3>5, <2>2, <1>5, <1>6, FewerClaims DEF LInv
  <2>6. CASE worker[w].kind = "stop"
    <3>1. /\ phase' = [phase EXCEPT ![worker[w].key] = "idle"] /\ txid' = txid
          /\ phase[worker[w].key] = "stopping" /\ worker[w].tx = txid[worker[w].key]
      BY <2>1, <2>6, <1>9 DEF Answer, LInv, Fits
    <3>2. Claims' \subseteq Claims
      BY <3>1, <1>1, <1>2, <1>3 DEF Claims
    <3>3. worker[w].key \notin blurred =>
             \A i \in DOMAIN sessions : sessions[i].tx = worker[w].tx => ~sessions[i].active
      BY <2>6, <1>1 DEF LInv, Single, At, OfTransaction
    <3>4. ASSUME NEW i \in DOMAIN sessions, sessions[i].active, sessions[i].key \notin blurred
          PROVE  phase'[sessions[i].key] \in {"charging", "stopping"}
                 /\ txid'[sessions[i].key] = sessions[i].tx
      <4>1. sessions[i].key # worker[w].key
        BY <3>1, <3>3, <3>4, <2>4
      <4>. QED BY <4>1, <3>1, <3>4, <2>3, <2>4
    <3>5. ActiveIsLive'
      BY <3>4, <1>1 DEF ActiveIsLive, Live
    <3>. QED BY <3>2, <3>5, <2>2, <1>5, <1>6, FewerClaims DEF LInv
  <2>7. CASE worker[w].kind = "meter"
    <3>1. /\ UNCHANGED <<phase, txid>> /\ phase[worker[w].key] \in {"charging", "stopping"}
      BY <2>1, <2>7 DEF Answer, LInv, Fits
    <3>2. Claims' \subseteq Claims
      BY <3>1, <1>1, <1>2, <1>3 DEF Claims
    <3>3. ASSUME NEW i \in DOMAIN sessions, sessions[i].active, sessions[i].key \notin blurred
          PROVE  phase'[sessions[i].key] \in {"charging", "stopping"}
                 /\ txid'[sessions[i].key] = sessions[i].tx
      BY <3>1, <3>3, <2>4
    <3>4. ActiveIsLive'
      BY <3>3, <1>1 DEF ActiveIsLive, Live
    <3>. QED BY <3>2, <3>4, <2>2, <1>5, <1>6, FewerClaims DEF LInv
  <2>8. CASE worker[w].kind \notin {"start", "meter", "stop"}
    <3>1. UNCHANGED <<phase, txid>> /\ worker[w].tx = NoTx
      BY <2>1, <2>8 DEF Answer, LInv, Fits
    <3>2. Claims' \subseteq Claims
      BY <3>1, <1>1, <1>2, <1>3 DEF Claims
    <3>3. ASSUME NEW i \in DOMAIN sessions, sessions[i].active, sessions[i].key \notin blurred
          PROVE  phase'[sessions[i].key] \in {"charging", "stopping"}
                 /\ txid'[sessions[i].key] = sessions[i].tx
      BY <3>1, <3>3, <2>4, Kinds
    <3>4. ActiveIsLive'
      BY <3>3, <1>1 DEF ActiveIsLive, Live
    <3>. QED BY <3>2, <3>4, <2>2, <1>5, <1>6, FewerClaims DEF LInv
  <2>. QED BY <2>5, <2>6, <2>7, <2>8
<1>. QED BY <1>8, <1>9

-----------------------------------------------------------------------------
(* The charger and the process                                             *)

\* A charger sends what fits its phase, and waits for that answer alone.
LEMMA SendLive ==
  ASSUME SInv, LInv, NEW kind \in {"start", "meter", "stop"} \cup Reports, NEW k \in Connectors, NEW t,
         Send(kind, k, t),
         kind = "start" => phase[k] = "starting" /\ t = NoTx,
         kind = "meter" => phase[k] \in {"charging", "stopping"} /\ t = txid[k],
         kind = "stop" => phase[k] = "stopping" /\ t = txid[k],
         kind \in Reports => t = NoTx
  PROVE  LInv'
<1>r. PICK r : r = Request(kind, k, t, "begin", 0, TRUE)
  OBVIOUS
<1>w. PICK w \in Workers : /\ worker[w].kind = "none"
                          /\ worker' = [worker EXCEPT ![w] = r]
  <2>1. PICK u : u = CHOOSE v \in Workers : worker[v].kind = "none"
    OBVIOUS
  <2>2. \E v \in Workers : worker[v].kind = "none"
    BY DEF Send
  <2>3. u \in Workers /\ worker[u].kind = "none"
    BY <2>1, <2>2
  <2>4. worker' = [worker EXCEPT ![u] = r]
    BY <2>1, <1>r DEF Send
  <2>. QED BY <2>3, <2>4
<1>1. UNCHANGED <<phase, txid, sessions, blurred>> /\ Awaiting = {}
  BY DEF Send, repos
<1>2. /\ r.kind = kind /\ r.key = k /\ r.tx = t /\ r.pc = "begin" /\ r.awaited = TRUE
      /\ worker \in [Workers -> Work]
  BY <1>r, Kinds DEF Request
<1>3. worker'[w] = r /\ \A v \in Workers : v # w => worker'[v] = worker[v]
  BY <1>w, <1>2
<1>4. Awaiting' = {w}
  BY <1>1, <1>2, <1>3 DEF Awaiting
<1>5. Attended' /\ Fits'
  <2>1. kind \notin {"start", "meter", "stop"} => t = NoTx
    OBVIOUS
  <2>. QED BY <2>1, <1>1, <1>2, <1>3, <1>4 DEF LInv, Attended, Fits
<1>6. BeginsWithoutID'
  <2> SUFFICES ASSUME NEW v \in Workers, worker'[v].kind = "start", worker'[v].pc = "begin"
               PROVE  worker'[v].tx = NoTx
    BY DEF BeginsWithoutID, Unnumbered
  <2>1. CASE v = w
    BY <2>1, <1>2, <1>3
  <2>2. CASE v # w
    BY <2>2, <1>3 DEF LInv, BeginsWithoutID, Unnumbered
  <2>. QED BY <2>1, <2>2
<1>7. Owned'
  <2>1. t # NoTx => <<t, k>> \in Claims
    BY DEF Claims
  <2>2. \A v \in Workers : worker'[v].tx # NoTx => <<worker'[v].tx, worker'[v].key>> \in Claims
    BY <2>1, <1>2, <1>3 DEF Claims
  <2>3. Claims' \subseteq Claims
    BY <2>2, <1>1 DEF Claims
  <2>. QED BY <2>3, FewerClaims DEF LInv
<1>8. Single'
  <2>1. ASSUME NEW v \in Workers, worker'[v].key \notin blurred
        PROVE  /\ At(v, "meter", "recover")' => OfTransaction(worker[v].tx)' = {}
               /\ At(v, "stop", "update")' => worker'[v].found \in OfTransaction(worker[v].tx)'
               /\ At(v, "stop", "reply")' =>
                    \A i \in OfTransaction(worker[v].tx)' : ~sessions[i].active
    <3>1. CASE v = w
      BY <3>1, <1>2, <1>3 DEF At
    <3>2. CASE v # w
      <4>1. worker'[v] = worker[v]
        BY <3>2, <1>3
      <4>2. OfTransaction(worker[v].tx)' = OfTransaction(worker[v].tx)
        BY <4>1, <1>1 DEF OfTransaction
      <4>. QED BY <4>1, <4>2, <2>1 DEF LInv, Single, At
    <3>. QED BY <3>1, <3>2
  <2>. QED BY <2>1, <1>1 DEF LInv, Single
<1>9. ActiveIsLive'
  BY <1>1 DEF LInv, ActiveIsLive, Live
<1>. QED BY <1>5, <1>6, <1>7, <1>8, <1>9 DEF LInv

\* A charger that gives up on an answer blurs the connector it was about.
LEMMA ForgetsLive ==
  ASSUME SInv, LInv, worker' = Forgets, blurred' = Blurs, UNCHANGED <<phase, txid, sessions>>
  PROVE  LInv'
<1>1. ASSUME NEW w \in Workers
      PROVE  /\ worker'[w].kind = worker[w].kind /\ worker'[w].key = worker[w].key
             /\ worker'[w].tx = worker[w].tx /\ worker'[w].pc = worker[w].pc
             /\ worker'[w].found = worker[w].found /\ ~worker'[w].awaited
  <2>1. worker'[w] = GivenUp(worker[w])
    BY DEF Forgets
  <2>. QED BY <2>1 DEF GivenUp, Request
<1>2. Awaiting' = {} /\ blurred \subseteq blurred'
      /\ \A w \in Awaiting : worker[w].key \in blurred'
  BY <1>1 DEF Awaiting, Blurs
<1>3. Attended' /\ Fits'
  <2>1. \A w \in Workers : worker[w].awaited => w \in Awaiting
    BY DEF Awaiting
  <2>. QED BY <2>1, <1>1, <1>2, Kinds DEF LInv, Attended, Fits, Work
<1>4. BeginsWithoutID'
  <2>1. Unnumbered' = Unnumbered /\ Unnumbered \subseteq Workers
    BY <1>1 DEF Unnumbered
  <2>. QED BY <2>1, <1>1 DEF LInv, BeginsWithoutID
<1>5. Owned'
  <2>1. Claims' \subseteq Claims
    BY <1>1 DEF Claims
  <2>. QED BY <2>1, FewerClaims DEF LInv
<1>6. Single'
  <2>1. ASSUME NEW v \in Workers, worker'[v].key \notin blurred'
        PROVE  /\ At(v, "meter", "recover")' => OfTransaction(worker[v].tx)' = {}
               /\ At(v, "stop", "update")' => worker'[v].found \in OfTransaction(worker[v].tx)'
               /\ At(v, "stop", "reply")' =>
                    \A i \in OfTransaction(worker[v].tx)' : ~sessions[i].active
    <3>1. OfTransaction(worker[v].tx)' = OfTransaction(worker[v].tx)
      BY <1>1 DEF OfTransaction
    <3>2. worker[v].key \notin blurred
      BY <2>1, <1>1, <1>2
    <3>. QED BY <3>1, <3>2, <1>1 DEF LInv, Single, At
  <2>. QED BY <2>1, <1>2 DEF LInv, Single
<1>7. ActiveIsLive'
  <2> SUFFICES ASSUME NEW i \in DOMAIN sessions, sessions[i].active, sessions[i].key \notin blurred'
               PROVE  Live(i)'
    BY DEF ActiveIsLive
  <2>1. Live(i)
    BY <1>2 DEF LInv, ActiveIsLive
  <2>2. ASSUME NEW w \in Awaiting, worker[w].tx = sessions[i].tx PROVE FALSE
    BY <2>2, <1>2, Kinds, SameOwner DEF LInv
  <2>. QED BY <2>1, <2>2 DEF Live
<1>. QED BY <1>3, <1>4, <1>5, <1>6, <1>7 DEF LInv

\* A restart forgets the records and the requests.
LEMMA RestartLive == ASSUME SInv, LInv, Restart PROVE LInv'
<1>1. /\ DOMAIN sessions' = {} /\ \A w \in Workers : worker'[w] = Free
      /\ UNCHANGED <<phase, txid, blurred>>
  BY DEF Restart
<1>2. Free.kind = "none" /\ Free.tx = NoTx /\ Free.awaited = FALSE
  BY DEF Free, Request
<1>3. Awaiting' = {} /\ Unnumbered' = {} /\ Claims' \subseteq Claims
  BY <1>1, <1>2 DEF Awaiting, Unnumbered, Claims
<1>4. Attended' /\ Fits' /\ BeginsWithoutID' /\ ActiveIsLive'
  BY <1>1, <1>2, <1>3 DEF Attended, Fits, BeginsWithoutID, ActiveIsLive
<1>5. Owned'
  BY <1>3, FewerClaims DEF LInv
<1>6. Single'
  BY <1>1, <1>2 DEF Single, At
<1>. QED BY <1>4, <1>5, <1>6 DEF LInv

\* The steps of the charger that hand no request over.
LEMMA QuietLive ==
  ASSUME SInv, LInv,
         \/ Connect
         \/ \E k \in Connectors : Plug(k) \/ Unplug(k)
  PROVE  LInv'
<1>1. UNCHANGED <<txid, worker, sessions, blurred>>
  BY DEF Connect, Plug, Unplug, repos
<1>2. Awaiting' = Awaiting /\ Awaiting \subseteq Workers
  BY <1>1 DEF Awaiting
<1>3. Attended' /\ BeginsWithoutID' /\ Owned' /\ Single'
  <2>1. Unnumbered' = Unnumbered /\ Claims' \subseteq Claims
    BY <1>1 DEF Unnumbered, Claims
  <2>2. Single'
    BY <1>1 DEF LInv, Single, At, OfTransaction
  <2>. QED BY <2>1, <2>2, <1>1, <1>2, FewerClaims DEF LInv, Attended, BeginsWithoutID
<1>4. /\ phase \in [Connectors -> {"idle", "starting", "charging", "stopping"}]
      /\ \A i \in DOMAIN sessions : sessions[i].key \in Connectors
      /\ \A w \in Awaiting : worker[w].key \in Connectors
  BY Kinds DEF SInv, TypeOK, Session
<1>5. /\ \A k \in Connectors : phase[k] = "starting" => phase'[k] = "starting"
      /\ \A k \in Connectors : phase[k] = "stopping" => phase'[k] = "stopping"
      /\ \A k \in Connectors : phase[k] \in {"charging", "stopping"} =>
                                 phase'[k] \in {"charging", "stopping"}
  <2>1. CASE Connect
    BY <2>1 DEF Connect
  <2>2. ASSUME NEW k \in Connectors, Plug(k) PROVE <1>5!:
    BY <2>2, <1>4 DEF Plug
  <2>3. ASSUME NEW k \in Connectors, Unplug(k) PROVE <1>5!:
    BY <2>3, <1>4 DEF Unplug
  <2>. QED BY <2>1, <2>2, <2>3
<1>6. Fits'
  <2>1. ASSUME NEW w \in Awaiting
        PROVE  /\ worker[w].kind = "start" => phase'[worker[w].key] = "starting"
               /\ worker[w].kind = "meter" => /\ phase'[worker[w].key] \in {"charging", "stopping"}
                                              /\ worker[w].tx = txid[worker[w].key]
               /\ worker[w].kind = "stop" => /\ phase'[worker[w].key] = "stopping"
                                             /\ worker[w].tx = txid[worker[w].key]
               /\ worker[w].kind \notin {"start", "meter", "stop"} => worker[w].tx = NoTx
    BY <1>4, <1>5 DEF LInv, Fits
  <2>. QED BY <2>1, <1>1, <1>2 DEF Fits
<1>7. ActiveIsLive'
  BY <1>1, <1>2, <1>4, <1>5 DEF LInv, ActiveIsLive, Live
<1>. QED BY <1>3, <1>6, <1>7 DEF LInv
-----------------------------------------------------------------------------
(* The theorems                                                            *)

\* Every step of the charger, of a handler and of the process keeps the invariant.
LEMMA LNext == ASSUME SInv, LInv, SessionsAssumption, [Next]_vars PROVE LInv'
<1>1. CASE UNCHANGED vars
  <2>1. UNCHANGED <<phase, txid, worker, sessions, blurred>>
    BY <1>1 DEF vars, charger, repos
  <2>2. Awaiting' = Awaiting /\ Unnumbered' = Unnumbered /\ Claims' = Claims
    BY <2>1 DEF Awaiting, Unnumbered, Claims
  <2>3. Single' /\ ActiveIsLive'
    BY <2>1, <2>2 DEF LInv, Single, ActiveIsLive, OfTransaction, At, Live
  <2>. QED BY <2>1, <2>2, <2>3 DEF LInv, Attended, Fits, BeginsWithoutID, Owned
<1>2. CASE Charger
  <2>1. CASE Connect \/ \E k \in Connectors : Plug(k) \/ Unplug(k)
    BY <2>1, QuietLive
  <2>2. ASSUME NEW k \in Connectors, SendStart(k) PROVE LInv'
    <3>1. Send("start", k, NoTx) /\ phase[k] = "starting"
      BY <2>2 DEF SendStart
    <3>. QED BY <3>1, SendLive
  <2>3. ASSUME NEW k \in Connectors, SendMeter(k) PROVE LInv'
    <3>1. Send("meter", k, txid[k]) /\ phase[k] \in {"charging", "stopping"}
      BY <2>3 DEF SendMeter
    <3>. QED BY <3>1, SendLive DEF Reports
  <2>4. ASSUME NEW k \in Connectors, SendStop(k) PROVE LInv'
    <3>1. Send("stop", k, txid[k]) /\ phase[k] = "stopping"
      BY <2>4 DEF SendStop
    <3>. QED BY <3>1, SendLive DEF Reports
  <2>5. CASE GiveUp \/ Disconnect
    <3>1. /\ worker' = Forgets /\ blurred' = Blurs
          /\ UNCHANGED <<phase, txid, sessions>>
      BY <2>5 DEF GiveUp, Disconnect, charger, repos
    <3>. QED BY <3>1, ForgetsLive
  <2>6. ASSUME NEW k \in Connectors, SendStatus(k) PROVE LInv'
    <3>1. PICK kind \in Reports : Send(kind, k, NoTx)
      BY <2>6 DEF SendStatus, Reports
    <3>2. kind # "start" /\ kind # "meter" /\ kind # "stop"
      BY <3>1 DEF Reports
    <3>. QED BY <3>1, <3>2, SendLive
  <2>. QED BY <1>2, <2>1, <2>2, <2>3, <2>4, <2>5, <2>6 DEF Charger
<1>3. ASSUME NEW w \in Workers, Serve(w) PROVE LInv'
  <2>1. CASE HandleStart(w)
    BY <2>1, StartLive
  <2>2. CASE LookUp(w)
    <3>1. UNCHANGED <<phase, txid, sessions, blurred>> /\ worker[w].kind = "meter"
      BY <2>2 DEF LookUp, At, repos, charger
    <3>2. CASE OfTransaction(worker[w].tx) = {}
      <4>1. Goes(w, "recover", 0)
        BY <2>2, <3>2 DEF LookUp
      <4>. QED BY <3>1, <3>2, <4>1, GoesLive DEF PCs
    <3>3. CASE OfTransaction(worker[w].tx) # {}
      <4>1. Goes(w, "reply", 0)
        BY <2>2, <3>3 DEF LookUp
      <4>. QED BY <3>1, <4>1, GoesLive DEF PCs
    <3>. QED BY <3>2, <3>3
  <2>3. CASE Recover(w)
    BY <2>3, RecoverLive
  <2>4. CASE RecoverStatus(w)
    <3>1. /\ UNCHANGED <<phase, txid, sessions, blurred>> /\ Goes(w, "reply", 0)
          /\ worker[w].kind = "meter"
      BY <2>4 DEF RecoverStatus, At, charger
    <3>. QED BY <3>1, GoesLive DEF PCs
  <2>5. CASE FindForStop(w)
    <3>1. UNCHANGED <<phase, txid, sessions, blurred>> /\ worker[w].kind = "stop"
      BY <2>5 DEF FindForStop, At, repos, charger
    <3>2. CASE OfTransaction(worker[w].tx) = {} /\ Goes(w, "reply", 0)
      BY <3>1, <3>2, GoesLive DEF PCs
    <3>3. ASSUME NEW i \in OfTransaction(worker[w].tx), Goes(w, "update", i) PROVE LInv'
      <4>1. i \in Nat
        BY DEF OfTransaction, SInv, TypeOK
      <4>. QED BY <3>1, <3>3, <4>1, GoesLive DEF PCs
    <3>. QED BY <2>5, <3>2, <3>3 DEF FindForStop
  <2>6. CASE UpdateOnStop(w)
    BY <2>6, UpdateLive
  <2>7. CASE Answer(w)
    BY <2>7, AnswerLive
  <2>8. CASE StoreStatus(w)
    <3>1. /\ UNCHANGED <<phase, txid, sessions, blurred>> /\ Goes(w, "reply", 0)
          /\ worker[w].kind \in Reports
      BY <2>8 DEF StoreStatus, charger
    <3>2. worker[w].kind # "start" /\ worker[w].kind # "meter" /\ worker[w].kind # "stop"
      BY <3>1 DEF Reports
    <3>. QED BY <3>1, <3>2, GoesLive DEF PCs
  <2>. QED BY <1>3, <2>1, <2>2, <2>3, <2>4, <2>5, <2>6, <2>7, <2>8 DEF Serve
<1>4. CASE Restart
  BY <1>4, RestartLive
<1>. QED BY <1>1, <1>2, <1>3, <1>4 DEF Next

\* What the charger waits for, who owns a transaction and which records are
\* active fit together at all times.
THEOREM LInvHolds == Spec => []LInv
<1>1. Init => LInv
  BY LInit
<1>2. SInv /\ LInv /\ [Next]_vars => LInv'
  BY LNext, SessionsAssumption
<1>. QED BY <1>1, <1>2, SInvHolds, PTL DEF Spec

\* GetActiveSession finds nothing but the live transaction, on a connector
\* whose requests were all answered, across restarts and recoveries.
THEOREM ActiveAreLive == Spec => []ActiveIsLive
<1>1. LInv => ActiveIsLive
  BY DEF LInv
<1>. QED BY <1>1, LInvHolds, PTL
-----------------------------------------------------------------------------
(* The abstract transactions                                               *)

\* Whichever record is chosen, it is under the one connector.
LEMMA ChosenKey ==
  ASSUME NEW S, S # {}, NEW f, NEW k, \A i \in S : f[i].key = k
  PROVE  f[CHOOSE i \in S : TRUE].key = k
<1>1. (CHOOSE i \in S : TRUE) \in S
  OBVIOUS
<1>. QED BY <1>1

\* The life of a transaction whose records stay as they are.
LEMMA SameLife ==
  ASSUME NEW t, OfTransaction(t)' = OfTransaction(t), t <= issued' <=> t <= issued,
         \A i \in OfTransaction(t) : sessions'[i] = sessions[i]
  PROVE  LifeOf(t)' = LifeOf(t) /\ OwnerOf(t)' = OwnerOf(t)
<1>1. LifeOf(t)' = LifeOf(t)
  BY DEF LifeOf
<1>2. CASE OfTransaction(t) = {}
  BY <1>2, <1>1 DEF OwnerOf
<1>3. CASE OfTransaction(t) # {}
  <2>1. (CHOOSE i \in OfTransaction(t) : TRUE) \in OfTransaction(t)
    BY <1>3
  <2>. QED BY <2>1, <1>1, <1>3 DEF OwnerOf
<1>. QED BY <1>2, <1>3

\* A transaction is owned by the connector of its records.
LEMMA OwnerIs ==
  ASSUME SInv, Owned, NEW t, NEW i \in OfTransaction(t) PROVE OwnerOf(t) = sessions[i].key
<1>1. \A j \in OfTransaction(t) : sessions[j].key = sessions[i].key
  BY SameOwner DEF OfTransaction
<1>2. sessions[CHOOSE j \in OfTransaction(t) : TRUE].key = sessions[i].key
  BY <1>1, ChosenKey
<1>. QED BY <1>2 DEF OwnerOf

\* It runs if and only if one of its records is active.
LEMMA RunsIf ==
  ASSUME NEW t
  PROVE  LifeOf(t) \in {"begun", "recovered"} <=> \E i \in OfTransaction(t) : sessions[i].active
BY DEF LifeOf

\* No active record on a connector, and no transaction runs there.
LEMMA VacantIf ==
  ASSUME SInv, Owned, NEW k \in Connectors,
         k \notin blurred => \A i \in DOMAIN sessions : sessions[i].key = k => ~sessions[i].active
  PROVE  Records!Vacant(k)
<1>1. ASSUME NEW t \in 1 .. MaxTx, k \notin blurred, OwnerOf(t) = k,
             LifeOf(t) \in {"begun", "recovered"}
      PROVE  FALSE
  <2>1. PICK i \in OfTransaction(t) : sessions[i].active
    BY <1>1, RunsIf
  <2>2. sessions[i].key = k /\ i \in DOMAIN sessions
    BY <1>1, <2>1, OwnerIs DEF OfTransaction
  <2>. QED BY <1>1, <2>1, <2>2
<1>. QED BY <1>1 DEF Records!Vacant, Records!Runs, Records!Ids

\* A new record is the only one that its transaction gains, and no other
\* transaction changes its life.
LEMMA AppendedLife ==
  ASSUME sessions \in Seq(Session), NEW s \in Session, sessions' = Append(sessions, s),
         \A t \in 1 .. MaxTx : t # s.tx => (t <= issued' <=> t <= issued)
  PROVE  /\ OfTransaction(s.tx)' = OfTransaction(s.tx) \cup {Len(sessions) + 1}
         /\ \A i \in OfTransaction(s.tx) : sessions'[i] = sessions[i]
         /\ sessions'[Len(sessions) + 1] = s
         /\ \A t \in 1 .. MaxTx : t # s.tx => LifeOf(t)' = LifeOf(t) /\ OwnerOf(t)' = OwnerOf(t)
<1>1. /\ Len(sessions) \in Nat
      /\ DOMAIN sessions' = 1 .. Len(sessions) + 1 /\ DOMAIN sessions = 1 .. Len(sessions)
      /\ \A i \in DOMAIN sessions : sessions'[i] = sessions[i]
      /\ sessions'[Len(sessions) + 1] = s
  BY Appended
<1>2. OfTransaction(s.tx)' = OfTransaction(s.tx) \cup {Len(sessions) + 1}
  BY <1>1 DEF OfTransaction
<1>3. ASSUME NEW t \in 1 .. MaxTx, t # s.tx
      PROVE  LifeOf(t)' = LifeOf(t) /\ OwnerOf(t)' = OwnerOf(t)
  <2>1. OfTransaction(t)' = OfTransaction(t)
    BY <1>1, <1>3 DEF OfTransaction
  <2>2. \A i \in OfTransaction(t) : sessions'[i] = sessions[i]
    BY <1>1 DEF OfTransaction
  <2>. QED BY <1>3, <2>1, <2>2, SameLife
<1>. QED BY <1>1, <1>2, <1>3 DEF OfTransaction
\* The life and the owner of one transaction change, of the others neither.
LEMMA OneChanges ==
  ASSUME NEW t0 \in 1 .. MaxTx,
         \A t \in 1 .. MaxTx : t # t0 => LifeOf(t)' = LifeOf(t) /\ OwnerOf(t)' = OwnerOf(t)
  PROVE  /\ [t \in 1 .. MaxTx |-> LifeOf(t)]'
              = [[t \in 1 .. MaxTx |-> LifeOf(t)] EXCEPT ![t0] = LifeOf(t0)']
         /\ [t \in 1 .. MaxTx |-> OwnerOf(t)]'
              = [[t \in 1 .. MaxTx |-> OwnerOf(t)] EXCEPT ![t0] = OwnerOf(t0)']
OBVIOUS

\* The transactions stay as they are, and no connector becomes lossy.
LEMMA Stutters ==
  ASSUME \A t \in 1 .. MaxTx : LifeOf(t)' = LifeOf(t) /\ OwnerOf(t)' = OwnerOf(t),
         UNCHANGED blurred
  PROVE  UNCHANGED Records!vars
BY DEF Records!vars

\* OnStartTransaction begins a transaction that was never seen.
LEMMA StartBegins ==
  ASSUME SInv, LInv, SessionsAssumption, NEW w \in Workers, HandleStart(w) PROVE Records!Next
<1>s. PICK s : s = [key |-> worker[w].key, tx |-> issued + 1, active |-> TRUE, recovered |-> FALSE]
  OBVIOUS
<1>k. PICK k : k = worker[w].key
  OBVIOUS
<1>1. /\ sessions' = Append(sessions, s) /\ issued' = issued + 1 /\ UNCHANGED blurred
      /\ worker[w].kind = "start" /\ worker[w].pc = "begin"
  BY <1>s DEF HandleStart, At
<1>2. sessions \in Seq(Session) /\ issued \in 0 .. MaxTx /\ MaxTx \in Nat
  BY DEF SInv, TypeOK, SessionsAssumption
<1>3. w \in Unnumbered /\ worker[w].tx = NoTx /\ k \in Connectors /\ issued < MaxTx
  BY <1>1, <1>k DEF Unnumbered, SInv, OneUnnumbered, LInv, BeginsWithoutID, Busy
<1>4. PICK t0 \in 1 .. MaxTx : t0 = issued + 1
  BY <1>2, <1>3
<1>5. s \in Session /\ s.tx = t0 /\ s.key = k /\ s.active /\ ~s.recovered
  BY <1>s, <1>k, <1>3, <1>4 DEF Session
<1>6. OfTransaction(t0) = {}
  BY <1>2, <1>4, Kinds DEF OfTransaction, SInv, Numbered, Session
<1>7. /\ OfTransaction(t0)' = {Len(sessions) + 1}
      /\ sessions'[Len(sessions) + 1] = s
      /\ \A t \in 1 .. MaxTx : t # t0 => LifeOf(t)' = LifeOf(t) /\ OwnerOf(t)' = OwnerOf(t)
  <2>1. \A t \in 1 .. MaxTx : t # t0 => (t <= issued' <=> t <= issued)
    BY <1>1, <1>2, <1>4
  <2>. QED BY <2>1, <1>1, <1>2, <1>5, <1>6, AppendedLife
<1>8. LifeOf(t0) = "unseen"
  BY <1>2, <1>4, <1>6 DEF LifeOf
<1>9. LifeOf(t0)' = "begun" /\ OwnerOf(t0)' = k
  <2>1. LifeOf(t0)' = "begun"
    BY <1>5, <1>7 DEF LifeOf
  <2>. QED BY <2>1, <1>5, <1>7 DEF OwnerOf
<1>10. Records!Vacant(k)
  <2>1. ASSUME k \notin blurred, NEW i \in DOMAIN sessions, sessions[i].key = k, sessions[i].active
        PROVE  FALSE
    <3>1. w \in Awaiting
      BY <1>1, <1>k, <2>1 DEF LInv, Attended, Awaiting, SInv, TypeOK, Work
    <3>2. phase[k] = "starting"
      BY <3>1, <1>1, <1>k DEF LInv, Fits
    <3>3. \E v \in Awaiting : worker[v].tx = sessions[i].tx
      BY <2>1, <3>2 DEF LInv, ActiveIsLive, Live
    <3>4. worker[w].tx = sessions[i].tx
      BY <3>1, <3>3 DEF LInv, Attended
    <3>. QED BY <3>4, <1>3, Kinds
  <2>. QED BY <2>1, <1>3, VacantIf DEF LInv
<1>11. Records!Begin(t0, k)
  <2>1. /\ [t \in 1 .. MaxTx |-> LifeOf(t)]'
              = [[t \in 1 .. MaxTx |-> LifeOf(t)] EXCEPT ![t0] = "begun"]
        /\ [t \in 1 .. MaxTx |-> OwnerOf(t)]'
              = [[t \in 1 .. MaxTx |-> OwnerOf(t)] EXCEPT ![t0] = k]
    BY <1>7, <1>9, OneChanges
  <2>. QED BY <2>1, <1>1, <1>8, <1>10 DEF Records!Begin
<1>. QED BY <1>3, <1>11 DEF Records!Next, Records!Ids

\* A recovery brings back a forgotten transaction, and on a connector of which a
\* request was given up perhaps one that was settled, or one that already runs.
LEMMA RecoverRecovers ==
  ASSUME SInv, LInv, SessionsAssumption, NEW w \in Workers, Recover(w)
  PROVE  Records!Next \/ UNCHANGED Records!vars
<1>s. PICK s : s = [key |-> worker[w].key, tx |-> worker[w].tx, active |-> TRUE, recovered |-> TRUE]
  OBVIOUS
<1>k. PICK k : k = worker[w].key
  OBVIOUS
<1>1. /\ sessions' = Append(sessions, s) /\ UNCHANGED <<issued, blurred>>
      /\ worker[w].kind = "meter" /\ worker[w].pc = "recover" /\ At(w, "meter", "recover")
  BY <1>s DEF Recover, At, bounds
<1>2. sessions \in Seq(Session) /\ issued \in 0 .. MaxTx /\ MaxTx \in Nat
  BY DEF SInv, TypeOK, SessionsAssumption
<1>3. k \in Connectors /\ worker[w].tx \in 1 .. MaxTx /\ worker[w].tx <= issued
  BY <1>1, <1>k, Kinds DEF SInv, Busy, Numbered, Work
<1>4. PICK t0 \in 1 .. MaxTx : t0 = worker[w].tx
  BY <1>3
<1>5. s \in Session /\ s.tx = t0 /\ s.key = k /\ s.active /\ s.recovered
  BY <1>s, <1>k, <1>3, <1>4 DEF Session
<1>6. /\ OfTransaction(t0)' = OfTransaction(t0) \cup {Len(sessions) + 1}
      /\ \A i \in OfTransaction(t0) : sessions'[i] = sessions[i]
      /\ sessions'[Len(sessions) + 1] = s
      /\ \A t \in 1 .. MaxTx : t # t0 => LifeOf(t)' = LifeOf(t) /\ OwnerOf(t)' = OwnerOf(t)
  BY <1>1, <1>2, <1>5, AppendedLife
<1>7. \A i \in OfTransaction(t0) : sessions[i].recovered /\ sessions[i].key = k
  <2>1. \A i \in OfTransaction(t0) : i \in DOMAIN sessions /\ sessions[i].tx = worker[w].tx
    BY <1>4 DEF OfTransaction
  <2>2. \A i \in OfTransaction(t0) : sessions[i].recovered
    BY <2>1, <1>1 DEF SInv, NotBegun
  <2>3. \A i \in OfTransaction(t0) : sessions[i].key = k
    BY <2>1, <1>k, SameOwner DEF LInv
  <2>. QED BY <2>2, <2>3
<1>8. LifeOf(t0)' = "recovered"
  BY <1>5, <1>6, <1>7 DEF LifeOf
<1>9. OwnerOf(t0)' = k
  <2>1. \A i \in OfTransaction(t0)' : sessions'[i].key = k
    BY <1>5, <1>6, <1>7
  <2>2. OfTransaction(t0)' # {}
    BY <1>6
  <2>3. sessions'[CHOOSE i \in OfTransaction(t0)' : TRUE].key = k
    BY <2>1, <2>2, ChosenKey
  <2>. QED BY <2>2, <2>3 DEF OwnerOf
<1>10. /\ [t \in 1 .. MaxTx |-> LifeOf(t)]'
            = [[t \in 1 .. MaxTx |-> LifeOf(t)] EXCEPT ![t0] = "recovered"]
       /\ [t \in 1 .. MaxTx |-> OwnerOf(t)]'
            = [[t \in 1 .. MaxTx |-> OwnerOf(t)] EXCEPT ![t0] = k]
  BY <1>6, <1>8, <1>9, OneChanges
<1>11. CASE OfTransaction(t0) = {}
  <2>1. LifeOf(t0) = "forgotten"
    BY <1>11, <1>3, <1>4 DEF LifeOf
  <2>2. Records!Vacant(k)
    <3>1. ASSUME k \notin blurred, NEW i \in DOMAIN sessions, sessions[i].key = k, sessions[i].active
          PROVE  FALSE
      <4>1. w \in Awaiting
        BY <1>1, <1>k, <3>1 DEF LInv, Attended, Awaiting, SInv, TypeOK, Work
      <4>2. phase[k] \in {"charging", "stopping"} /\ worker[w].tx = txid[k]
        BY <4>1, <1>1, <1>k DEF LInv, Fits
      <4>3. txid[k] = sessions[i].tx
        BY <3>1, <4>2 DEF LInv, ActiveIsLive, Live
      <4>4. i \in OfTransaction(t0)
        BY <4>2, <4>3, <1>4 DEF OfTransaction
      <4>. QED BY <4>4, <1>11
    <3>. QED BY <3>1, <1>3, VacantIf DEF LInv
  <2>3. Records!Recover(t0, k)
    BY <2>1, <2>2, <1>1, <1>10 DEF Records!Recover
  <2>. QED BY <2>3, <1>3 DEF Records!Next, Records!Ids
<1>12. CASE OfTransaction(t0) # {}
  <2>1. OwnerOf(t0) = k
    <3>1. PICK i \in OfTransaction(t0) : TRUE
      BY <1>12
    <3>. QED BY <3>1, <1>7, OwnerIs DEF LInv
  <2>2. k \in blurred
    BY <1>12, <1>1, <1>4, <1>k DEF LInv, Single
  <2>3. LifeOf(t0) \in {"recovered", "settled"}
    BY <1>7, <1>12 DEF LifeOf
  <2>4. CASE LifeOf(t0) = "recovered"
    <3>1. \A t \in 1 .. MaxTx : LifeOf(t)' = LifeOf(t) /\ OwnerOf(t)' = OwnerOf(t)
      BY <2>1, <2>4, <1>6, <1>8, <1>9
    <3>. QED BY <3>1, <1>1, Stutters
  <2>5. CASE LifeOf(t0) = "settled"
    <3>1. Records!Recover(t0, k)
      BY <2>1, <2>2, <2>5, <1>1, <1>10 DEF Records!Recover
    <3>. QED BY <3>1, <1>3 DEF Records!Next, Records!Ids
  <2>. QED BY <2>3, <2>4, <2>5
<1>. QED BY <1>11, <1>12
\* OnStopTransaction ends a transaction with its last active record, and
\* otherwise changes nothing that GetActiveSession tells.
LEMMA UpdateEnds ==
  ASSUME SInv, LInv, NEW w \in Workers, UpdateOnStop(w)
  PROVE  Records!Next \/ UNCHANGED Records!vars
<1>f. PICK f : f = worker[w].found
  OBVIOUS
<1>1. sessions' = [sessions EXCEPT ![f] = Ended(@)] /\ UNCHANGED <<issued, blurred>>
  BY <1>f DEF UpdateOnStop, bounds
<1>2. sessions \in Seq(Session)
  BY DEF SInv, TypeOK
<1>3. ASSUME NEW i \in DOMAIN sessions
      PROVE  /\ sessions'[i].tx = sessions[i].tx /\ sessions'[i].key = sessions[i].key
             /\ sessions'[i].recovered = sessions[i].recovered
             /\ sessions'[i].active <=> sessions[i].active /\ i # f
             /\ sessions'[i] = sessions[i] \/ i = f
  <2>1. sessions[i] \in Session
    BY <1>2
  <2>2. CASE i = f
    BY <1>1, <1>2, <2>1, <2>2 DEF Ended, Session
  <2>3. CASE i # f
    BY <1>1, <1>2, <2>3
  <2>. QED BY <2>2, <2>3
<1>4. DOMAIN sessions' = DOMAIN sessions
  BY <1>1, <1>2
<1>5. \A t : OfTransaction(t)' = OfTransaction(t)
  BY <1>3, <1>4 DEF OfTransaction
<1>6. ASSUME NEW t \in 1 .. MaxTx, f \notin OfTransaction(t)
      PROVE  LifeOf(t)' = LifeOf(t) /\ OwnerOf(t)' = OwnerOf(t)
  <2>1. \A i \in OfTransaction(t) : sessions'[i] = sessions[i]
    BY <1>3, <1>6 DEF OfTransaction
  <2>. QED BY <2>1, <1>1, <1>5, SameLife
<1>7. CASE f \notin DOMAIN sessions
  <2>1. \A t \in 1 .. MaxTx : f \notin OfTransaction(t)
    BY <1>7 DEF OfTransaction
  <2>. QED BY <2>1, <1>1, <1>6, Stutters
<1>8. CASE f \in DOMAIN sessions
  <2>0. sessions[f] \in Session
    BY <1>2, <1>8
  <2>1. PICK t0 \in 1 .. MaxTx : t0 = sessions[f].tx
    BY <2>0 DEF Session
  <2>2. f \in OfTransaction(t0) /\ \A t \in 1 .. MaxTx : t # t0 => f \notin OfTransaction(t)
    BY <1>8, <2>1 DEF OfTransaction
  <2>3. \A i \in OfTransaction(t0) : i \in DOMAIN sessions
    BY DEF OfTransaction
  <2>4. OwnerOf(t0)' = OwnerOf(t0)
    <3>1. \A i \in OfTransaction(t0)' : sessions'[i].key = OwnerOf(t0)
      BY <1>3, <1>5, <2>3, OwnerIs DEF LInv
    <3>2. OfTransaction(t0)' # {}
      BY <1>5, <2>2
    <3>3. sessions'[CHOOSE i \in OfTransaction(t0)' : TRUE].key = OwnerOf(t0)
      BY <3>1, <3>2, ChosenKey
    <3>. QED BY <3>2, <3>3 DEF OwnerOf
  <2>5. /\ OfTransaction(t0)' = OfTransaction(t0) /\ OfTransaction(t0) # {}
        /\ \A i \in OfTransaction(t0) : sessions'[i].recovered = sessions[i].recovered
    BY <1>3, <1>5, <2>2, <2>3
  <2>6. CASE \E i \in OfTransaction(t0) : sessions'[i].active
    <3>1. \E i \in OfTransaction(t0) : sessions[i].active
      BY <1>3, <2>3, <2>6
    <3>2. LifeOf(t0)' = LifeOf(t0)
      BY <3>1, <2>5, <2>6 DEF LifeOf
    <3>3. \A t \in 1 .. MaxTx : LifeOf(t)' = LifeOf(t) /\ OwnerOf(t)' = OwnerOf(t)
      BY <3>2, <1>6, <2>2, <2>4
    <3>. QED BY <3>3, <1>1, Stutters
  <2>7. CASE ~\E i \in OfTransaction(t0) : sessions[i].active
    <3>1. ~\E i \in OfTransaction(t0) : sessions'[i].active
      BY <1>3, <2>3, <2>7
    <3>2. LifeOf(t0)' = LifeOf(t0)
      BY <3>1, <2>5, <2>7 DEF LifeOf
    <3>3. \A t \in 1 .. MaxTx : LifeOf(t)' = LifeOf(t) /\ OwnerOf(t)' = OwnerOf(t)
      BY <3>2, <1>6, <2>2, <2>4
    <3>. QED BY <3>3, <1>1, Stutters
  <2>8. CASE /\ ~\E i \in OfTransaction(t0) : sessions'[i].active
             /\ \E i \in OfTransaction(t0) : sessions[i].active
    <3>1. LifeOf(t0) \in {"begun", "recovered"}
      BY <2>8, RunsIf
    <3>2. LifeOf(t0)' = IF LifeOf(t0) = "begun" THEN "ended" ELSE "settled"
      BY <2>5, <2>8 DEF LifeOf
    <3>3. /\ [t \in 1 .. MaxTx |-> LifeOf(t)]'
               = [[t \in 1 .. MaxTx |-> LifeOf(t)] EXCEPT ![t0] = LifeOf(t0)']
          /\ [t \in 1 .. MaxTx |-> OwnerOf(t)]' = [t \in 1 .. MaxTx |-> OwnerOf(t)]
      BY <1>6, <2>2, <2>4
    <3>4. Records!End(t0)
      BY <3>1, <3>2, <3>3, <1>1 DEF Records!End, Records!Runs
    <3>. QED BY <3>4 DEF Records!Next, Records!Ids
  <2>. QED BY <2>6, <2>7, <2>8
<1>. QED BY <1>7, <1>8

\* A restart forgets every transaction that was seen, and none that was not.
LEMMA RestartForgets == ASSUME SInv, Restart PROVE Records!Next
<1>1. sessions' = <<>> /\ UNCHANGED <<issued, blurred>>
  BY DEF Restart
<1>2. \A t : OfTransaction(t)' = {}
  BY <1>1 DEF OfTransaction
<1>3. issued \in Int /\ \A i \in DOMAIN sessions : sessions[i].tx <= issued
  BY DEF SInv, Numbered, TypeOK
<1>4. ASSUME NEW t \in 1 .. MaxTx
      PROVE  /\ LifeOf(t)' = IF LifeOf(t) = "unseen" THEN "unseen" ELSE "forgotten"
             /\ OwnerOf(t)' = NoKey
  <2>1. OfTransaction(t) # {} => t <= issued
    BY <1>3 DEF OfTransaction
  <2>2. LifeOf(t) = "unseen" <=> ~(t <= issued)
    BY <2>1 DEF LifeOf
  <2>3. LifeOf(t)' = IF t <= issued THEN "forgotten" ELSE "unseen"
    BY <1>1, <1>2 DEF LifeOf
  <2>4. OwnerOf(t)' = NoKey
    BY <1>2 DEF OwnerOf, NoKey
  <2>. QED BY <2>2, <2>3, <2>4
<1>5. Records!Forget
  BY <1>1, <1>4 DEF Records!Forget, Records!Ids
<1>. QED BY <1>5 DEF Records!Next

\* A step that leaves the records as they are at most gives requests up.
LEMMA RecordsStay ==
  ASSUME SInv, SInv', UNCHANGED <<sessions, issued>>,
         blurred' = blurred \/ blurred' = Blurs
  PROVE  Records!Next \/ UNCHANGED Records!vars
<1>1. \A t : OfTransaction(t)' = OfTransaction(t)
  BY DEF OfTransaction
<1>2. \A t \in 1 .. MaxTx : LifeOf(t)' = LifeOf(t) /\ OwnerOf(t)' = OwnerOf(t)
  BY <1>1, SameLife
<1>3. CASE blurred' = blurred
  BY <1>2, <1>3, Stutters
<1>4. CASE blurred' = Blurs
  <2>1. blurred' \subseteq Connectors /\ blurred \subseteq blurred'
    BY <1>4 DEF SInv, TypeOK, Blurs
  <2>2. Records!Lose(blurred')
    BY <1>2, <2>1 DEF Records!Lose
  <2>3. \E K \in SUBSET Connectors : Records!Lose(K)
    BY <2>1, <2>2
  <2>. QED BY <2>3 DEF Records!Next
<1>. QED BY <1>3, <1>4

\* The records are the abstract transactions: GetActiveSession is told of
\* transactions that begin once, end for good, come back only after a restart
\* and under their connector, and run one at a time where no answer was lost.
THEOREM TransactionsImplemented == Spec => ImplementsTransactions
<1>1. Init => Records!Init
  <2> SUFFICES ASSUME Init PROVE Records!Init
    OBVIOUS
  <2>1. \A t : OfTransaction(t) = {}
    BY DEF Init, OfTransaction
  <2>2. \A t \in 1 .. MaxTx : LifeOf(t) = "unseen" /\ OwnerOf(t) = NoKey
    BY <2>1 DEF LifeOf, OwnerOf, Init
  <2>. QED BY <2>2 DEF Records!Init, Records!Ids, Init
<1>2. SInv /\ SInv' /\ LInv /\ [Next]_vars => [Records!Next]_(Records!vars)
  <2> SUFFICES ASSUME SInv, SInv', LInv, [Next]_vars
               PROVE  Records!Next \/ UNCHANGED Records!vars
    OBVIOUS
  <2>. USE SessionsAssumption
  <2>1. CASE UNCHANGED vars
    BY <2>1, RecordsStay DEF vars, repos, bounds
  <2>2. CASE Charger
    <3>1. UNCHANGED <<sessions, issued>> /\ (blurred' = blurred \/ blurred' = Blurs)
      BY <2>2 DEF Charger, Plug, Unplug, SendStart, SendMeter, SendStop, SendStatus, Send,
                  GiveUp, Connect, Disconnect, repos, bounds
    <3>. QED BY <3>1, RecordsStay
  <2>3. ASSUME NEW w \in Workers, Serve(w) PROVE Records!Next \/ UNCHANGED Records!vars
    <3>1. CASE HandleStart(w)
      BY <3>1, StartBegins
    <3>2. CASE Recover(w)
      BY <3>2, RecoverRecovers
    <3>3. CASE UpdateOnStop(w)
      BY <3>3, UpdateEnds
    <3>4. CASE LookUp(w) \/ RecoverStatus(w) \/ FindForStop(w) \/ StoreStatus(w)
               \/ Answer(w)
      <4>1. UNCHANGED <<sessions, issued, blurred>>
        BY <3>4 DEF LookUp, RecoverStatus, FindForStop, StoreStatus, Answer, repos, bounds
      <4>. QED BY <4>1, RecordsStay
    <3>. QED BY <2>3, <3>1, <3>2, <3>3, <3>4 DEF Serve
  <2>4. CASE Restart
    BY <2>4, RestartForgets
  <2>. QED BY <2>1, <2>2, <2>3, <2>4 DEF Next
<1>. QED BY <1>1, <1>2, SInvHolds, LInvHolds, PTL DEF Spec, ImplementsTransactions, Records!Spec
=============================================================================
