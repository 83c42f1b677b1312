--------------------------- MODULE SessionsProofs ---------------------------
(***************************************************************************)
(* The session records keep their types, and a transaction begun in this   *)
(* process has one record for good: for every set of connectors and of     *)
(* goroutines and every number of transactions and restarts.               *)
(***************************************************************************)
EXTENDS Sessions, SequenceTheorems, TLAPS

\* Every ID in use was given out.
Numbered ==
  /\ \A i \in DOMAIN sessions : sessions[i].tx <= issued
  /\ \A w \in Workers : worker[w].tx <= issued
  /\ \A k \in Connectors : txid[k] <= issued

\* A request has a connector, and names a transaction unless it begins one.
Busy ==
  \A w \in Workers :
    /\ worker[w].kind # "none" => worker[w].key \in Connectors
    /\ worker[w].awaited => worker[w].kind # "none"
    /\ worker[w].kind = "meter" => worker[w].tx >= 1
    /\ worker[w].kind = "start" /\ worker[w].pc = "reply" => worker[w].tx >= 1

\* A charger that charges knows its transaction.
Known == \A k \in Connectors : phase[k] \in {"charging", "stopping"} => txid[k] >= 1

\* At most one transaction is about to get its ID, and there is one left.
OneUnnumbered ==
  /\ \A v, w \in Unnumbered : v = w
  /\ Unnumbered # {} => issued < MaxTx

\* Meter values about to be recovered are of no transaction begun here.
NotBegun ==
  \A w \in Workers, i \in DOMAIN sessions :
    At(w, "meter", "recover") /\ sessions[i].tx = worker[w].tx => sessions[i].recovered

SInv == TypeOK /\ Numbered /\ Busy /\ Known /\ OneUnnumbered /\ NotBegun /\ BegunOnce

-----------------------------------------------------------------------------
(* Requests on their way through the handlers.                             *)

PCs == {"begin", "recover", "upsert", "update", "reply"}

\* A request keeps its type from one critical section to the next.
LEMMA MovedWork ==
  ASSUME NEW r \in Work, NEW p \in PCs, NEW i \in Nat, NEW m, m = Moved(r, p, i)
  PROVE  /\ m \in Work /\ m.kind = r.kind /\ m.key = r.key /\ m.tx = r.tx /\ m.pc = p
         /\ m.awaited = r.awaited
BY DEF Work, PCs, Moved, Request, Reports

\* So it does when its charger gives up on the answer.
LEMMA GivenUpWork ==
  ASSUME NEW r \in Work, NEW m, m = GivenUp(r)
  PROVE  /\ m \in Work /\ m.kind = r.kind /\ m.key = r.key /\ m.tx = r.tx /\ m.pc = r.pc
         /\ m.awaited = FALSE
BY DEF Work, GivenUp, Request

\* A free goroutine is a work record that breaks no part of the invariant.
LEMMA FreeWork == ASSUME SessionsAssumption PROVE Free \in Work
BY DEF Free, Request, Work, SessionsAssumption, NoTx

\* The initial states satisfy the invariant.
LEMMA SInit == ASSUME SessionsAssumption PROVE Init => SInv
<1> SUFFICES ASSUME Init PROVE SInv
  OBVIOUS
<1>1. TypeOK
  <2>1. sessions \in Seq(Session)
    BY DEF Init
  <2>2. worker \in [Workers -> Work]
    BY FreeWork DEF Init
  <2>3. txid \in [Connectors -> 0 .. MaxTx] /\ issued \in 0 .. MaxTx /\ restarts \in 0 .. MaxRestarts
    BY DEF Init, SessionsAssumption, NoTx
  <2>4. /\ conn \in BOOLEAN /\ report \subseteq Connectors /\ blurred \subseteq Connectors
        /\ phase \in [Connectors -> {"idle", "starting", "charging", "stopping"}]
        /\ status \in [Connectors -> {"unknown", "Charging", "other"}]
    BY DEF Init
  <2>. QED BY <2>1, <2>2, <2>3, <2>4 DEF TypeOK
<1>2. Numbered /\ Busy
  BY DEF Init, Numbered, Busy, Free, Request, NoTx
<1>3. Known /\ OneUnnumbered /\ NotBegun /\ BegunOnce
  BY DEF Init, Known, OneUnnumbered, NotBegun, BegunOnce, Unnumbered, Free, Request
<1>. QED BY <1>1, <1>2, <1>3 DEF SInv

\* A step to another critical section changes where one request is.
LEMMA GoesWorker ==
  ASSUME TypeOK, NEW w \in Workers, NEW p \in PCs, NEW i \in Nat, Goes(w, p, i)
  PROVE  /\ worker' \in [Workers -> Work]
         /\ \A v \in Workers : /\ worker'[v].kind = worker[v].kind
                               /\ worker'[v].key = worker[v].key
                               /\ worker'[v].tx = worker[v].tx
                               /\ worker'[v].awaited = worker[v].awaited
                               /\ v # w => worker'[v].pc = worker[v].pc
         /\ worker'[w].pc = p
<1>r. PICK r : r = Moved(worker[w], p, i)
  OBVIOUS
<1>1. worker' = [worker EXCEPT ![w] = r] /\ worker[w] \in Work /\ worker \in [Workers -> Work]
  BY <1>r DEF Goes, TypeOK
<1>2. /\ r \in Work /\ r.kind = worker[w].kind /\ r.key = worker[w].key /\ r.tx = worker[w].tx /\ r.pc = p
      /\ r.awaited = worker[w].awaited
  BY <1>1, <1>r, MovedWork
<1>. QED BY <1>1, <1>2

\* If the charger learns nothing and the records stay, the invariant stays too:
\* a request goes on to a recovery only of an unknown transaction.
LEMMA GoesKeeps ==
  ASSUME SInv, NEW w \in Workers, NEW p \in PCs \ {"begin"}, NEW i \in Nat, Goes(w, p, i),
         worker[w].kind \in {"meter", "stop"} \cup Reports,
         p = "recover" => OfTransaction(worker[w].tx) = {},
         UNCHANGED <<charger, sessions, bounds, blurred>>,
         status' \in [Connectors -> {"unknown", "Charging", "other"}]
  PROVE  SInv'
<1>1. /\ worker' \in [Workers -> Work]
      /\ \A v \in Workers : /\ worker'[v].kind = worker[v].kind
                            /\ worker'[v].key = worker[v].key
                            /\ worker'[v].tx = worker[v].tx
                            /\ worker'[v].awaited = worker[v].awaited
                            /\ v # w => worker'[v].pc = worker[v].pc
      /\ worker'[w].pc = p
  BY GoesWorker DEF SInv
<1>2. UNCHANGED <<conn, phase, txid, report, sessions, issued, restarts, blurred>>
  BY DEF charger, bounds
<1>3. TypeOK'
  BY <1>1, <1>2 DEF SInv, TypeOK
<1>4. Numbered' /\ Busy' /\ Known'
  BY <1>1, <1>2 DEF SInv, Numbered, Busy, Known, Reports
<1>5. OneUnnumbered'
  <2>1. Unnumbered' \subseteq Unnumbered
    BY <1>1 DEF Unnumbered
  <2>. QED BY <2>1, <1>2 DEF OneUnnumbered, SInv
<1>6. NotBegun'
  <2> SUFFICES ASSUME NEW v \in Workers, NEW j \in DOMAIN sessions, At(v, "meter", "recover")',
                      sessions[j].tx = worker'[v].tx
               PROVE  sessions[j].recovered
    BY <1>2 DEF NotBegun
  <2>1. CASE v = w
    BY <2>1, <1>1 DEF At, OfTransaction
  <2>2. CASE v # w
    BY <2>2, <1>1 DEF At, SInv, NotBegun
  <2>. QED BY <2>1, <2>2
<1>7. BegunOnce'
  BY <1>2 DEF BegunOnce, SInv
<1>. QED BY <1>3, <1>4, <1>5, <1>6, <1>7 DEF SInv

\* A record that is appended extends the list of the records.
LEMMA Appended ==
  ASSUME sessions \in Seq(Session), NEW s \in Session, sessions' = Append(sessions, s)
  PROVE  /\ sessions' \in Seq(Session)
         /\ Len(sessions) \in Nat
         /\ DOMAIN sessions' = 1 .. Len(sessions) + 1 /\ DOMAIN sessions = 1 .. Len(sessions)
         /\ \A i \in DOMAIN sessions : sessions'[i] = sessions[i] /\ sessions[i] \in Session
         /\ sessions'[Len(sessions) + 1] = s
  OBVIOUS

\* OnStartTransaction: the new ID is above every other.
LEMMA StartKeeps ==
  ASSUME SInv, SessionsAssumption, NEW w \in Workers, HandleStart(w) PROVE SInv'
<1>r. PICK r : r = Numbers(worker[w], issued + 1)
  OBVIOUS
<1>s. PICK s : s = [key |-> worker[w].key, tx |-> issued + 1, active |-> TRUE, recovered |-> FALSE]
  OBVIOUS
<1>1. /\ worker' = [worker EXCEPT ![w] = r] /\ sessions' = Append(sessions, s)
      /\ issued' = issued + 1
      /\ UNCHANGED <<conn, phase, txid, report, status, restarts, blurred>>
  BY <1>r, <1>s DEF HandleStart, charger
<1>2. worker \in [Workers -> Work] /\ sessions \in Seq(Session) /\ issued \in 0 .. MaxTx /\ MaxTx \in Nat
  BY DEF SInv, TypeOK, SessionsAssumption
<1>3. worker[w].kind = "start" /\ worker[w].pc = "begin" /\ worker[w].key \in Connectors
  BY DEF HandleStart, At, SInv, Busy
<1>4. w \in Unnumbered /\ issued < MaxTx /\ Unnumbered \subseteq {w}
  BY <1>3 DEF Unnumbered, SInv, OneUnnumbered
<1>5. /\ r \in Work /\ r.kind = "start" /\ r.key = worker[w].key /\ r.tx = issued + 1 /\ r.pc = "reply"
  BY <1>r, <1>2, <1>3, <1>4 DEF Numbers, Request, Work
<1>6. s \in Session /\ s.tx = issued + 1 /\ s.recovered = FALSE
  BY <1>s, <1>2, <1>3, <1>4 DEF Session
<1>7. /\ sessions' \in Seq(Session)
      /\ Len(sessions) \in Nat
      /\ DOMAIN sessions' = 1 .. Len(sessions) + 1 /\ DOMAIN sessions = 1 .. Len(sessions)
      /\ \A i \in DOMAIN sessions : sessions'[i] = sessions[i] /\ sessions[i] \in Session
      /\ sessions'[Len(sessions) + 1] = s
  BY <1>1, <1>2, <1>6, Appended
<1>8. TypeOK'
  BY <1>1, <1>2, <1>4, <1>5, <1>7 DEF TypeOK, SInv
<1>9. Numbered'
  <2>1. \A i \in DOMAIN sessions' : sessions'[i].tx <= issued'
    BY <1>1, <1>2, <1>6, <1>7 DEF SInv, Numbered, Session
  <2>2. \A v \in Workers : worker'[v].tx <= issued'
    BY <1>1, <1>2, <1>5 DEF SInv, Numbered, Work
  <2>3. \A k \in Connectors : txid'[k] <= issued'
    BY <1>1, <1>2 DEF SInv, TypeOK, Numbered
  <2>. QED BY <2>1, <2>2, <2>3 DEF Numbered
<1>10. Busy' /\ Known'
  BY <1>1, <1>2, <1>3, <1>5 DEF SInv, Busy, Known
<1>11. OneUnnumbered'
  <2>1. Unnumbered' = {}
    BY <1>1, <1>2, <1>4, <1>5 DEF Unnumbered
  <2>. QED BY <2>1 DEF OneUnnumbered
<1>12. NotBegun'
  <2> SUFFICES ASSUME NEW v \in Workers, NEW j \in DOMAIN sessions', At(v, "meter", "recover")',
                      sessions'[j].tx = worker'[v].tx
               PROVE  sessions'[j].recovered
    BY DEF NotBegun
  <2>1. v # w /\ worker'[v] = worker[v] /\ At(v, "meter", "recover")
    BY <1>1, <1>2, <1>5 DEF At
  <2>2. worker[v].tx # issued + 1
    BY <1>2, <2>1 DEF SInv, Numbered, Work
  <2>3. j \in DOMAIN sessions
    BY <2>1, <2>2, <1>6, <1>7
  <2>. QED BY <2>1, <2>3, <1>7 DEF SInv, NotBegun
<1>13. BegunOnce'
  <2> SUFFICES ASSUME NEW i \in DOMAIN sessions', NEW j \in DOMAIN sessions',
                      sessions'[i].tx = sessions'[j].tx, ~sessions'[i].recovered
               PROVE  i = j
    BY DEF BegunOnce
  <2>1. \A n \in DOMAIN sessions : sessions[n].tx # issued + 1
    BY <1>2, <1>7 DEF SInv, Numbered, Session
  <2>2. CASE i \in DOMAIN sessions /\ j \in DOMAIN sessions
    BY <2>2, <1>7 DEF SInv, BegunOnce
  <2>. QED BY <2>1, <2>2, <1>6, <1>7
<1>. QED BY <1>8, <1>9, <1>10, <1>11, <1>12, <1>13 DEF SInv

\* A recovered record is of a transaction that has none begun here.
LEMMA RecoverKeeps ==
  ASSUME SInv, SessionsAssumption, NEW w \in Workers, Recover(w) PROVE SInv'
<1>s. PICK s : s = [key |-> worker[w].key, tx |-> worker[w].tx, active |-> TRUE, recovered |-> TRUE]
  OBVIOUS
<1>1. /\ Goes(w, "upsert", 0) /\ sessions' = Append(sessions, s)
      /\ UNCHANGED <<conn, phase, txid, report, status, issued, restarts, blurred>>
  BY <1>s DEF Recover, charger, bounds
<1>2. worker \in [Workers -> Work] /\ sessions \in Seq(Session) /\ issued \in 0 .. MaxTx /\ MaxTx \in Nat
  BY DEF SInv, TypeOK, SessionsAssumption
<1>3. /\ worker[w].kind = "meter" /\ worker[w].pc = "recover" /\ worker[w].key \in Connectors
      /\ worker[w].tx \in 1 .. MaxTx /\ worker[w].tx <= issued
  BY <1>2 DEF Recover, At, SInv, Busy, Numbered, Work
<1>4. /\ worker' \in [Workers -> Work]
      /\ \A v \in Workers : /\ worker'[v].kind = worker[v].kind
                            /\ worker'[v].key = worker[v].key
                            /\ worker'[v].tx = worker[v].tx
                            /\ worker'[v].awaited = worker[v].awaited
                            /\ v # w => worker'[v].pc = worker[v].pc
      /\ worker'[w].pc = "upsert"
  BY <1>1, GoesWorker DEF SInv, PCs
<1>5. s \in Session /\ s.tx = worker[w].tx /\ s.recovered = TRUE
  BY <1>s, <1>3 DEF Session
<1>6. /\ sessions' \in Seq(Session)
      /\ Len(sessions) \in Nat
      /\ DOMAIN sessions' = 1 .. Len(sessions) + 1 /\ DOMAIN sessions = 1 .. Len(sessions)
      /\ \A i \in DOMAIN sessions : sessions'[i] = sessions[i] /\ sessions[i] \in Session
      /\ sessions'[Len(sessions) + 1] = s
  BY <1>1, <1>2, <1>5, Appended
<1>7. TypeOK'
  BY <1>1, <1>4, <1>6 DEF TypeOK, SInv
<1>8. Numbered' /\ Busy' /\ Known'
  <2>1. \A i \in DOMAIN sessions' : sessions'[i].tx <= issued'
    BY <1>1, <1>3, <1>5, <1>6 DEF SInv, Numbered
  <2>. QED BY <2>1, <1>1, <1>3, <1>4 DEF SInv, Numbered, Busy, Known
<1>9. OneUnnumbered'
  <2>1. Unnumbered' \subseteq Unnumbered
    BY <1>4 DEF Unnumbered
  <2>. QED BY <2>1, <1>1 DEF OneUnnumbered, SInv
<1>10. NotBegun'
  <2> SUFFICES ASSUME NEW v \in Workers, NEW j \in DOMAIN sessions', At(v, "meter", "recover")',
                      sessions'[j].tx = worker'[v].tx
               PROVE  sessions'[j].recovered
    BY DEF NotBegun
  <2>1. At(v, "meter", "recover")
    BY <1>4 DEF At
  <2>2. CASE j \in DOMAIN sessions
    BY <2>1, <2>2, <1>4, <1>6 DEF SInv, NotBegun
  <2>. QED BY <2>2, <1>5, <1>6
<1>11. BegunOnce'
  <2> SUFFICES ASSUME NEW i \in DOMAIN sessions', NEW j \in DOMAIN sessions',
                      sessions'[i].tx = sessions'[j].tx, ~sessions'[i].recovered
               PROVE  i = j
    BY DEF BegunOnce
  <2>1. i \in DOMAIN sessions
    BY <1>5, <1>6
  <2>2. CASE j \in DOMAIN sessions
    BY <2>1, <2>2, <1>6 DEF SInv, BegunOnce
  <2>3. CASE j \notin DOMAIN sessions
    <3>1. sessions[i].tx = worker[w].tx /\ ~sessions[i].recovered
      BY <2>1, <2>3, <1>5, <1>6
    <3>2. At(w, "meter", "recover")
      BY <1>3 DEF At
    <3>. QED BY <2>1, <3>1, <3>2 DEF SInv, NotBegun
  <2>. QED BY <2>2, <2>3
<1>. QED BY <1>7, <1>8, <1>9, <1>10, <1>11 DEF SInv

\* OnStopTransaction ends one record and leaves its transaction as it is.
LEMMA UpdateKeeps ==
  ASSUME SInv, SessionsAssumption, NEW w \in Workers, UpdateOnStop(w) PROVE SInv'
<1>1. /\ Goes(w, "reply", 0) /\ sessions' = [sessions EXCEPT ![worker[w].found] = Ended(@)]
      /\ UNCHANGED <<conn, phase, txid, report, status, issued, restarts, blurred>>
  BY DEF UpdateOnStop, charger, bounds
<1>2. sessions \in Seq(Session) /\ Len(sessions) \in Nat /\ DOMAIN sessions = 1 .. Len(sessions)
  BY DEF SInv, TypeOK
<1>3. ASSUME NEW i \in DOMAIN sessions
      PROVE  /\ Ended(sessions[i]) \in Session
             /\ Ended(sessions[i]).tx = sessions[i].tx
             /\ Ended(sessions[i]).recovered = sessions[i].recovered
  <2>1. sessions[i] \in Session
    BY <1>2
  <2>. QED BY <2>1 DEF Ended, Session
<1>4. /\ DOMAIN sessions' = DOMAIN sessions
      /\ \A i \in DOMAIN sessions : /\ sessions'[i] \in Session
                                    /\ sessions'[i].tx = sessions[i].tx
                                    /\ sessions'[i].recovered = sessions[i].recovered
  BY <1>1, <1>2, <1>3
<1>5. sessions' \in Seq(Session)
  <2>1. sessions' = [i \in 1 .. Len(sessions) |-> sessions'[i]]
    BY <1>1, <1>2
  <2>2. sessions' \in [1 .. Len(sessions) -> Session]
    BY <2>1, <1>2, <1>4
  <2>. QED BY <2>2, <1>2, SeqDef
<1>6. /\ worker' \in [Workers -> Work]
      /\ \A v \in Workers : /\ worker'[v].kind = worker[v].kind
                            /\ worker'[v].key = worker[v].key
                            /\ worker'[v].tx = worker[v].tx
                            /\ worker'[v].awaited = worker[v].awaited
                            /\ v # w => worker'[v].pc = worker[v].pc
      /\ worker'[w].pc = "reply"
  BY <1>1, GoesWorker DEF SInv, PCs
<1>7. worker[w].kind = "stop"
  BY DEF UpdateOnStop, At
<1>8. TypeOK'
  BY <1>1, <1>5, <1>6 DEF TypeOK, SInv
<1>9. Numbered' /\ Busy' /\ Known'
  BY <1>1, <1>4, <1>6, <1>7 DEF SInv, Numbered, Busy, Known
<1>10. OneUnnumbered'
  <2>1. Unnumbered' \subseteq Unnumbered
    BY <1>6 DEF Unnumbered
  <2>. QED BY <2>1, <1>1 DEF OneUnnumbered, SInv
<1>11. NotBegun'
  BY <1>4, <1>6, <1>7 DEF NotBegun, At, SInv
<1>12. BegunOnce'
  BY <1>4 DEF BegunOnce, SInv
<1>. QED BY <1>8, <1>9, <1>10, <1>11, <1>12 DEF SInv

\* A request that a free goroutine takes on; only a StartTransaction has no ID yet.
LEMMA SendKeeps ==
  ASSUME SInv, NEW kind \in {"start", "meter", "stop"} \cup Reports, NEW k \in Connectors,
         NEW t \in 0 .. MaxTx, Send(kind, k, t), t <= issued, report' \subseteq Connectors,
         kind = "meter" => t >= 1,
         kind = "start" => issued < MaxTx /\ Unnumbered = {}
  PROVE  SInv'
<1>r. PICK r : r = Request(kind, k, t, "begin", 0, TRUE)
  OBVIOUS
<1>w. PICK w \in Workers : /\ worker[w].kind = "none"
                          /\ worker' = [worker EXCEPT ![w] = r]
  <2>1. PICK u : u = CHOOSE v \in Workers : worker[v].kind = "none"
    OBVIOUS
  <2>2. \E v \in Workers : worker[v].kind = "none"
    BY DEF Send
  <2>3. u \in Workers /\ worker[u].kind = "none"
    BY <2>1, <2>2
  <2>4. worker' = [worker EXCEPT ![u] = r]
    BY <2>1, <1>r DEF Send
  <2>. QED BY <2>3, <2>4
<1>1. UNCHANGED <<conn, phase, txid, sessions, status, issued, restarts, blurred>>
  BY DEF Send, repos, bounds
<1>2. r \in Work /\ r.kind = kind /\ r.key = k /\ r.tx = t /\ r.pc = "begin"
  BY <1>r DEF Request, Work, Reports
<1>3. worker \in [Workers -> Work] /\ worker' \in [Workers -> Work]
  BY <1>w, <1>2 DEF SInv, TypeOK
<1>4. TypeOK'
  BY <1>1, <1>3 DEF SInv, TypeOK
<1>5. Numbered' /\ Busy' /\ Known'
  BY <1>w, <1>1, <1>2, <1>3 DEF SInv, Numbered, Busy, Known, Reports
<1>6. OneUnnumbered'
  <2>1. CASE kind = "start"
    <3>1. Unnumbered' \subseteq {w}
      BY <2>1, <1>w, <1>2, <1>3 DEF Unnumbered
    <3>. QED BY <3>1, <2>1, <1>1 DEF OneUnnumbered
  <2>2. CASE kind # "start"
    <3>1. Unnumbered' \subseteq Unnumbered
      BY <2>2, <1>w, <1>2, <1>3 DEF Unnumbered
    <3>. QED BY <3>1, <1>1 DEF SInv, OneUnnumbered
  <2>. QED BY <2>1, <2>2
<1>7. NotBegun' /\ BegunOnce'
  BY <1>w, <1>1, <1>2, <1>3 DEF SInv, NotBegun, BegunOnce, At
<1>. QED BY <1>4, <1>5, <1>6, <1>7 DEF SInv

\* A charger that gives up forgets the answer, not the request.
LEMMA ForgetsKeeps ==
  ASSUME SInv, worker' = Forgets, blurred' = Blurs, conn' \in BOOLEAN,
         UNCHANGED <<phase, txid, report, sessions, status, issued, restarts>>
  PROVE  SInv'
<1>1. ASSUME NEW w \in Workers
      PROVE  /\ worker'[w] \in Work /\ worker'[w].kind = worker[w].kind
             /\ worker'[w].key = worker[w].key /\ worker'[w].tx = worker[w].tx
             /\ worker'[w].pc = worker[w].pc /\ ~worker'[w].awaited
  <2>1. worker'[w] = GivenUp(worker[w]) /\ worker[w] \in Work
    BY DEF Forgets, SInv, TypeOK
  <2>. QED BY <2>1, GivenUpWork
<1>2. worker' \in [Workers -> Work]
  BY <1>1 DEF Forgets
<1>3. blurred' \subseteq Connectors
  <2>1. \A w \in Awaiting : worker[w].key \in Connectors
    BY DEF SInv, TypeOK, Busy, Awaiting
  <2>. QED BY <2>1 DEF Blurs, SInv, TypeOK
<1>4. TypeOK'
  BY <1>2, <1>3 DEF SInv, TypeOK
<1>5. Numbered' /\ Busy' /\ Known'
  BY <1>1 DEF SInv, Numbered, Busy, Known
<1>6. OneUnnumbered'
  <2>1. Unnumbered' = Unnumbered
    BY <1>1 DEF Unnumbered
  <2>. QED BY <2>1 DEF SInv, OneUnnumbered
<1>7. NotBegun' /\ BegunOnce'
  BY <1>1 DEF SInv, NotBegun, BegunOnce, At
<1>. QED BY <1>4, <1>5, <1>6, <1>7 DEF SInv

\* An answer frees its goroutine; the charger learns an ID that was given out.
LEMMA AnswerKeeps ==
  ASSUME SInv, SessionsAssumption, NEW w \in Workers, Answer(w) PROVE SInv'
<1>1. worker' = [worker EXCEPT ![w] = Free] /\ worker[w].pc = "reply"
  BY DEF Answer
<1>2. UNCHANGED <<conn, sessions, status, issued, restarts, blurred>>
  BY DEF Answer, repos, bounds
<1>3. /\ Free \in Work /\ Free.kind = "none" /\ Free.tx = 0 /\ Free.awaited = FALSE
      /\ worker \in [Workers -> Work] /\ issued \in 0 .. MaxTx /\ MaxTx \in Nat
  BY FreeWork DEF Free, Request, NoTx, SInv, TypeOK, SessionsAssumption
<1>4. worker' \in [Workers -> Work]
  BY <1>1, <1>3
<1>5. /\ phase' \in [Connectors -> {"idle", "starting", "charging", "stopping"}]
      /\ txid' \in [Connectors -> 0 .. MaxTx] /\ report' \subseteq Connectors
      /\ \A k \in Connectors : txid'[k] <= issued'
      /\ Known'
  <2>1. /\ phase \in [Connectors -> {"idle", "starting", "charging", "stopping"}]
        /\ txid \in [Connectors -> 0 .. MaxTx] /\ report \subseteq Connectors
        /\ \A k \in Connectors : txid[k] <= issued
        /\ Known
    BY DEF SInv, TypeOK, Numbered
  <2>2. CASE worker[w].awaited /\ worker[w].kind = "start"
    <3>1. worker[w].key \in Connectors /\ worker[w].tx \in 1 .. MaxTx /\ worker[w].tx <= issued
      BY <2>2, <1>1, <1>3 DEF SInv, Busy, Numbered, Work
    <3>2. /\ phase' = [phase EXCEPT ![worker[w].key] = "charging"]
          /\ txid' = [txid EXCEPT ![worker[w].key] = worker[w].tx]
          /\ report' = report \cup {worker[w].key}
      BY <2>2 DEF Answer
    <3>. QED BY <2>1, <3>1, <3>2, <1>2, <1>3 DEF Known
  <2>3. CASE worker[w].awaited /\ worker[w].kind = "stop"
    <3>1. worker[w].key \in Connectors
      BY <2>3, <1>3 DEF SInv, Busy
    <3>2. /\ phase' = [phase EXCEPT ![worker[w].key] = "idle"]
          /\ txid' = txid /\ report' = report \cup {worker[w].key}
      BY <2>3 DEF Answer
    <3>. QED BY <2>1, <3>1, <3>2, <1>2, <1>3 DEF Known
  <2>4. CASE ~(worker[w].awaited /\ worker[w].kind \in {"start", "stop"})
    <3>1. phase' = phase /\ txid' = txid /\ report' = report
      BY <2>4 DEF Answer
    <3>. QED BY <2>1, <3>1, <1>2, <1>3 DEF Known
  <2>. QED BY <2>2, <2>3, <2>4
<1>6. TypeOK'
  BY <1>2, <1>4, <1>5 DEF SInv, TypeOK
<1>7. Numbered'
  BY <1>1, <1>2, <1>3, <1>5 DEF SInv, Numbered
<1>8. Busy'
  BY <1>1, <1>3 DEF SInv, Busy
<1>9. OneUnnumbered'
  <2>1. Unnumbered' \subseteq Unnumbered
    BY <1>1, <1>3 DEF Unnumbered
  <2>. QED BY <2>1, <1>2 DEF SInv, OneUnnumbered
<1>10. NotBegun' /\ BegunOnce'
  BY <1>1, <1>2, <1>3 DEF SInv, NotBegun, BegunOnce, At
<1>. QED BY <1>5, <1>6, <1>7, <1>8, <1>9, <1>10 DEF SInv

\* A restart forgets everything but the IDs that chargers remember.
LEMMA RestartKeeps == ASSUME SInv, SessionsAssumption, Restart PROVE SInv'
<1>1. /\ sessions' = <<>> /\ worker' = [w \in Workers |-> Free] /\ conn' = FALSE
      /\ status' = [k \in Connectors |-> "unknown"] /\ restarts' = restarts + 1
      /\ restarts < MaxRestarts
      /\ UNCHANGED <<phase, txid, report, issued, blurred>>
  BY DEF Restart
<1>2. /\ Free \in Work /\ Free.kind = "none" /\ Free.tx = 0 /\ Free.awaited = FALSE
      /\ MaxTx \in Nat /\ MaxRestarts \in Nat /\ issued \in 0 .. MaxTx
  BY FreeWork DEF Free, Request, NoTx, SInv, TypeOK, SessionsAssumption
<1>3. sessions' \in Seq(Session) /\ DOMAIN sessions' = {}
  BY <1>1
<1>4. /\ worker' \in [Workers -> Work] /\ conn' \in BOOLEAN
      /\ status' \in [Connectors -> {"unknown", "Charging", "other"}]
  BY <1>1, <1>2
<1>5. restarts' \in 0 .. MaxRestarts
  BY <1>1, <1>2 DEF SInv, TypeOK
<1>6. TypeOK'
  BY <1>1, <1>3, <1>4, <1>5 DEF SInv, TypeOK
<1>7. Numbered' /\ Known'
  BY <1>1, <1>2, <1>3 DEF SInv, Numbered, Known
<1>8. Busy' /\ OneUnnumbered'
  <2>1. Unnumbered' = {}
    BY <1>1, <1>2 DEF Unnumbered
  <2>. QED BY <2>1, <1>1, <1>2 DEF Busy, OneUnnumbered
<1>9. NotBegun' /\ BegunOnce'
  BY <1>3 DEF NotBegun, BegunOnce
<1>. QED BY <1>6, <1>7, <1>8, <1>9 DEF SInv

\* The steps of the charger that hand no request over.
LEMMA QuietKeeps ==
  ASSUME SInv, SessionsAssumption,
         \/ Connect
         \/ \E k \in Connectors : Plug(k) \/ Unplug(k)
  PROVE  SInv'
<1>1. UNCHANGED <<txid, worker, sessions, issued, restarts, blurred>>
  BY DEF Connect, Plug, Unplug, repos, bounds
<1>2. /\ phase' \in [Connectors -> {"idle", "starting", "charging", "stopping"}]
      /\ Known'
      /\ conn' \in BOOLEAN /\ report' \subseteq Connectors
      /\ status' \in [Connectors -> {"unknown", "Charging", "other"}]
  <2>1. /\ phase \in [Connectors -> {"idle", "starting", "charging", "stopping"}]
        /\ Known /\ conn \in BOOLEAN /\ report \subseteq Connectors
        /\ status \in [Connectors -> {"unknown", "Charging", "other"}]
    BY DEF SInv, TypeOK
  <2>2. CASE Connect
    BY <2>1, <2>2 DEF Connect, repos, Known
  <2>3. ASSUME NEW k \in Connectors, Plug(k) PROVE <1>2!:
    BY <2>1, <2>3 DEF Plug, repos, Known
  <2>4. ASSUME NEW k \in Connectors, Unplug(k) PROVE <1>2!:
    BY <2>1, <2>4 DEF Unplug, repos, Known
  <2>. QED BY <2>2, <2>3, <2>4
<1>3. TypeOK'
  BY <1>1, <1>2 DEF SInv, TypeOK
<1>4. Numbered' /\ Busy' /\ OneUnnumbered' /\ NotBegun' /\ BegunOnce'
  BY <1>1 DEF SInv, Numbered, Busy, OneUnnumbered, Unnumbered, NotBegun, BegunOnce, At
<1>. QED BY <1>2, <1>3, <1>4 DEF SInv

-----------------------------------------------------------------------------
(* The theorems.                                                           *)

\* Every step of the charger, of a handler and of the process keeps the invariant.
LEMMA SNext == ASSUME SInv, SessionsAssumption, [Next]_vars PROVE SInv'
<1>1. CASE UNCHANGED vars
  <2>1. UNCHANGED <<conn, phase, txid, report, worker, sessions, status, issued, restarts, blurred>>
    BY <1>1 DEF vars, charger, repos, bounds
  <2>. QED BY <2>1 DEF SInv, TypeOK, Numbered, Busy, Known, OneUnnumbered, Unnumbered,
                       NotBegun, BegunOnce, At
<1>2. CASE Charger
  <2>0. /\ txid \in [Connectors -> 0 .. MaxTx] /\ issued \in 0 .. MaxTx /\ MaxTx \in Nat
        /\ \A k \in Connectors : txid[k] <= issued
        /\ report \subseteq Connectors
    BY DEF SInv, TypeOK, Numbered, SessionsAssumption
  <2>1. CASE Connect \/ \E k \in Connectors : Plug(k) \/ Unplug(k)
    BY <2>1, QuietKeeps
  <2>2. ASSUME NEW k \in Connectors, SendStart(k) PROVE SInv'
    <3>1. Send("start", k, 0) /\ report' = report /\ issued < MaxTx /\ Unnumbered = {}
      BY <2>2 DEF SendStart, NoTx
    <3>. QED BY <3>1, <2>0, SendKeeps
  <2>3. ASSUME NEW k \in Connectors, SendMeter(k) PROVE SInv'
    <3>1. Send("meter", k, txid[k]) /\ report' = report /\ txid[k] >= 1
      BY <2>3 DEF SendMeter, SInv, Known
    <3>. QED BY <3>1, <2>0, SendKeeps
  <2>4. ASSUME NEW k \in Connectors, SendStop(k) PROVE SInv'
    <3>1. Send("stop", k, txid[k]) /\ report' = report
      BY <2>4 DEF SendStop
    <3>. QED BY <3>1, <2>0, SendKeeps
  <2>5. CASE GiveUp
    <3>1. /\ worker' = Forgets /\ blurred' = Blurs
          /\ UNCHANGED <<conn, phase, txid, report, sessions, status, issued, restarts>>
      BY <2>5 DEF GiveUp, charger, repos, bounds
    <3>2. conn' \in BOOLEAN
      BY <3>1 DEF SInv, TypeOK
    <3>. QED BY <3>1, <3>2, ForgetsKeeps
  <2>6. CASE Disconnect
    <3>1. /\ worker' = Forgets /\ blurred' = Blurs /\ conn' \in BOOLEAN
          /\ UNCHANGED <<phase, txid, report, sessions, status, issued, restarts>>
      BY <2>6 DEF Disconnect, repos, bounds
    <3>. QED BY <3>1, ForgetsKeeps
  <2>7. ASSUME NEW k \in Connectors, SendStatus(k) PROVE SInv'
    <3>1. PICK kind \in Reports : Send(kind, k, 0) /\ report' = report \ {k}
      BY <2>7 DEF SendStatus, Reports, NoTx
    <3>2. kind # "start" /\ kind # "meter"
      BY <3>1 DEF Reports
    <3>3. 0 \in 0 .. MaxTx /\ 0 <= issued
      BY <2>0
    <3>4. report' \subseteq Connectors
      BY <2>0, <3>1
    <3>. QED BY <3>1, <3>2, <3>3, <3>4, SendKeeps
  <2>. QED BY <1>2, <2>1, <2>2, <2>3, <2>4, <2>5, <2>6, <2>7 DEF Charger
<1>3. ASSUME NEW w \in Workers, Serve(w) PROVE SInv'
  <2>0. status \in [Connectors -> {"unknown", "Charging", "other"}]
    BY DEF SInv, TypeOK
  <2>1. CASE HandleStart(w)
    BY <2>1, StartKeeps
  <2>2. CASE LookUp(w)
    <3>1. /\ UNCHANGED <<charger, sessions, bounds, blurred>> /\ status' = status
          /\ worker[w].kind = "meter"
      BY <2>2 DEF LookUp, At, repos
    <3>2. CASE OfTransaction(worker[w].tx) = {}
      <4>1. Goes(w, "recover", 0)
        BY <2>2, <3>2 DEF LookUp
      <4>. QED BY <2>0, <3>1, <3>2, <4>1, GoesKeeps DEF PCs
    <3>3. CASE OfTransaction(worker[w].tx) # {}
      <4>1. Goes(w, "reply", 0)
        BY <2>2, <3>3 DEF LookUp
      <4>. QED BY <2>0, <3>1, <4>1, GoesKeeps DEF PCs
    <3>. QED BY <3>2, <3>3
  <2>3. CASE Recover(w)
    BY <2>3, RecoverKeeps
  <2>4. CASE RecoverStatus(w)
    <3>1. /\ UNCHANGED <<charger, sessions, bounds, blurred>> /\ Goes(w, "reply", 0)
          /\ worker[w].kind = "meter"
          /\ status' = [status EXCEPT ![worker[w].key] = "Charging"]
      BY <2>4 DEF RecoverStatus, At
    <3>2. status' \in [Connectors -> {"unknown", "Charging", "other"}]
      BY <2>0, <3>1
    <3>. QED BY <3>1, <3>2, GoesKeeps DEF PCs
  <2>5. CASE FindForStop(w)
    <3>1. /\ UNCHANGED <<charger, sessions, bounds, blurred>> /\ status' = status
          /\ worker[w].kind = "stop"
      BY <2>5 DEF FindForStop, At, repos
    <3>2. CASE Goes(w, "reply", 0)
      BY <2>0, <3>1, <3>2, GoesKeeps DEF PCs
    <3>3. ASSUME NEW i \in OfTransaction(worker[w].tx), Goes(w, "update", i) PROVE SInv'
      <4>1. i \in Nat
        BY DEF OfTransaction, SInv, TypeOK
      <4>. QED BY <2>0, <3>1, <3>3, <4>1, GoesKeeps DEF PCs
    <3>. QED BY <2>5, <3>2, <3>3 DEF FindForStop
  <2>6. CASE UpdateOnStop(w)
    BY <2>6, UpdateKeeps
  <2>7. CASE Answer(w)
    BY <2>7, AnswerKeeps
  <2>8. CASE StoreStatus(w)
    <3>1. /\ UNCHANGED <<charger, sessions, bounds, blurred>> /\ Goes(w, "reply", 0)
          /\ worker[w].kind \in Reports
          /\ status' = [status EXCEPT ![worker[w].key] = worker[w].kind]
      BY <2>8 DEF StoreStatus
    <3>2. status' \in [Connectors -> {"unknown", "Charging", "other"}]
      BY <2>0, <3>1 DEF Reports
    <3>. QED BY <3>1, <3>2, GoesKeeps DEF PCs
  <2>. QED BY <1>3, <2>1, <2>2, <2>3, <2>4, <2>5, <2>6, <2>7, <2>8 DEF Serve
<1>4. CASE Restart
  BY <1>4, RestartKeeps
<1>. QED BY <1>1, <1>2, <1>3, <1>4 DEF Next

\* SInv is an invariant of the handlers and the records.
THEOREM SInvHolds == Spec => []SInv
<1>1. Init => SInv
  BY SInit, SessionsAssumption
<1>2. SInv /\ [Next]_vars => SInv'
  BY SNext, SessionsAssumption
<1>. QED BY <1>1, <1>2, PTL DEF Spec

\* Records, requests and the status of connectors keep their types: in
\* particular no record is ever of transaction 0, recovered or begun.
THEOREM SessionsTypeCorrect == Spec => []TypeOK
<1>1. SInv => TypeOK
  BY DEF SInv
<1>. QED BY <1>1, SInvHolds, PTL

\* A transaction that OnStartTransaction began has one record for good, however
\* its meter values and its stop overtake each other in the process.
THEOREM RecordedOnce == Spec => []BegunOnce
<1>1. SInv => BegunOnce
  BY DEF SInv
<1>. QED BY <1>1, SInvHolds, PTL
=============================================================================
