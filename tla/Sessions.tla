------------------------------ MODULE Sessions -------------------------------
(***************************************************************************)
(* The OCPP handler (internal/adapter/outbound/ocpp/handler.go) and the    *)
(* in-memory repositories it writes: the session records and the status    *)
(* of the connectors of one charger.  Chargers share no record.            *)
(*                                                                         *)
(* The library runs every incoming request in a goroutine.  A charger      *)
(* waits for the answer to one request before it sends the next, but it    *)
(* may give up on the answer, or lose the connection, while the handler is *)
(* still at work; it repeats its StartTransaction and StopTransaction      *)
(* until they are answered.  The process may restart and then knows        *)
(* nothing.  Routing and publishing, which delay a handler, are left out.  *)
(***************************************************************************)
EXTENDS Integers, Sequences

CONSTANTS
  Connectors,
  Workers,         \* goroutines that serve requests, a bound
  MaxTx,           \* bound on the transaction IDs given out
  MaxRestarts      \* bound on the restarts of the process

ASSUME SessionsAssumption ==
  /\ Workers # {} /\ MaxTx \in Nat /\ MaxRestarts \in Nat

VARIABLES
  \* External: the charger
  conn,            \* it has a connection
  phase,           \* per connector, where its transaction is
  txid,            \* per connector, the ID of its current or last transaction
  report,          \* connectors whose change of status it has not sent yet
  \* The process
  worker,          \* what each goroutine works at
  sessions,        \* the session records in the order of their creation
  status,          \* per connector, its status in the repository
  issued,          \* transaction IDs given out so far
  restarts,
  \* History:
  blurred          \* connectors of which a request was ever given up

charger == <<conn, phase, txid, report>>
repos   == <<sessions, status>>
bounds  == <<issued, restarts>>
vars    == <<charger, worker, repos, bounds, blurred>>

NoTx == 0
NoKey == -1

\* A StatusNotification is known by the status it carries, the one that makes the
\* controller visit the connector or any other.
Reports == {"Charging", "other"}

\* What a goroutine works at, where it is, the record it found, and whether the
\* charger still waits for the answer.
Work == [kind : {"none", "start", "meter", "stop"} \cup Reports,
         key : Connectors \cup {NoKey}, tx : 0 .. MaxTx,
         pc : {"begin", "recover", "upsert", "update", "reply"}, found : Nat,
         awaited : BOOLEAN]
Request(kind, key, tx, pc, found, awaited) ==
  [kind |-> kind, key |-> key, tx |-> tx, pc |-> pc, found |-> found, awaited |-> awaited]
Free == Request("none", NoKey, NoTx, "begin", 0, FALSE)

Session == [key : Connectors, tx : 1 .. MaxTx, active : BOOLEAN, recovered : BOOLEAN]

Init ==
  /\ conn = FALSE /\ report = {}
  /\ phase = [k \in Connectors |-> "idle"]
  /\ txid = [k \in Connectors |-> NoTx]
  /\ worker = [w \in Workers |-> Free]
  /\ sessions = <<>> /\ status = [k \in Connectors |-> "unknown"]
  /\ issued = 0 /\ restarts = 0
  /\ blurred = {}

-----------------------------------------------------------------------------
(* The charger: its drivers, its requests, its connection.                 *)

Plug(k) ==
  /\ phase[k] = "idle"
  /\ phase' = [phase EXCEPT ![k] = "starting"]
  /\ UNCHANGED <<conn, txid, report, worker, repos, bounds, blurred>>

Unplug(k) ==
  /\ phase[k] = "charging"
  /\ phase' = [phase EXCEPT ![k] = "stopping"]
  /\ report' = report \cup {k}
  /\ UNCHANGED <<conn, txid, worker, repos, bounds, blurred>>

Awaiting == {w \in Workers : worker[w].awaited}

\* A request reaches a goroutine that is free.
Send(kind, k, t) ==
  /\ conn /\ Awaiting = {}
  /\ \E w \in Workers : worker[w].kind = "none"
  /\ LET w == CHOOSE v \in Workers : worker[v].kind = "none"
     IN worker' = [worker EXCEPT ![w] = Request(kind, k, t, "begin", 0, TRUE)]
  /\ UNCHANGED <<conn, phase, txid, repos, bounds, blurred>>

Unnumbered == {w \in Workers : worker[w].kind = "start" /\ worker[w].pc = "begin"}

SendStart(k) ==
  /\ phase[k] = "starting"
  /\ issued < MaxTx /\ Unnumbered = {}
  /\ Send("start", k, NoTx)
  /\ UNCHANGED report

SendMeter(k) == phase[k] = "charging" /\ Send("meter", k, txid[k]) /\ UNCHANGED report

SendStop(k) == phase[k] = "stopping" /\ Send("stop", k, txid[k]) /\ UNCHANGED report

\* A charger reports a status when it changes, and does not repeat it.
SendStatus(k) ==
  /\ k \in report
  /\ report' = report \ {k}
  /\ Send(IF phase[k] = "charging" THEN "Charging" ELSE "other", k, NoTx)

GivenUp(r) == Request(r.kind, r.key, r.tx, r.pc, r.found, FALSE)
Forgets == [w \in Workers |-> GivenUp(worker[w])]
Blurs == blurred \cup {worker[w].key : w \in Awaiting}

GiveUp ==
  /\ Awaiting # {}
  /\ worker' = Forgets
  /\ blurred' = Blurs
  /\ UNCHANGED <<charger, repos, bounds>>

Connect ==
  /\ ~conn
  /\ conn' = TRUE
  /\ UNCHANGED <<phase, txid, report, worker, repos, bounds, blurred>>

Disconnect ==
  /\ conn
  /\ conn' = FALSE
  /\ worker' = Forgets
  /\ blurred' = Blurs
  /\ UNCHANGED <<phase, txid, report, repos, bounds>>

Charger ==
  \/ \E k \in Connectors : \/ Plug(k) \/ Unplug(k) \/ SendStart(k)
                           \/ SendMeter(k) \/ SendStop(k) \/ SendStatus(k)
  \/ GiveUp \/ Connect \/ Disconnect

-----------------------------------------------------------------------------
(* The handlers.                                                           *)

At(w, kind, pc) == worker[w].kind = kind /\ worker[w].pc = pc
Moved(r, pc, i) == Request(r.kind, r.key, r.tx, pc, i, r.awaited)
Goes(w, pc, i) == worker' = [worker EXCEPT ![w] = Moved(@, pc, i)]

\* The records GetSessionByTransactionID may return: it goes through a Go map.
OfTransaction(t) == {i \in DOMAIN sessions : sessions[i].tx = t}

Numbers(r, t) == Request(r.kind, r.key, t, "reply", r.found, r.awaited)

\* Mutant of HandleStart: stores a transaction ID that was not generated.
HandleStartZero(w) ==
  /\ At(w, "start", "begin")
  /\ issued' = issued + 1
  /\ sessions' = Append(sessions, [key |-> worker[w].key, tx |-> NoTx,
                                   active |-> TRUE, recovered |-> FALSE])
  /\ worker' = [worker EXCEPT ![w] = Numbers(@, issued + 1)]
  /\ UNCHANGED <<charger, status, restarts, blurred>>

\* OnStartTransaction: IDs are random in the code, and new.
HandleStart(w) ==
  /\ At(w, "start", "begin")
  /\ issued' = issued + 1
  /\ sessions' = Append(sessions, [key |-> worker[w].key, tx |-> issued + 1,
                                   active |-> TRUE, recovered |-> FALSE])
  /\ worker' = [worker EXCEPT ![w] = Numbers(@, issued + 1)]
  /\ UNCHANGED <<charger, status, restarts, blurred>>

\* Mutant of LookUp: only an active session counts as known.
LookUpActive(w) ==
  /\ At(w, "meter", "begin")
  /\ LET known == \E i \in OfTransaction(worker[w].tx) : sessions[i].active
     IN Goes(w, IF known THEN "reply" ELSE "recover", 0)
  /\ UNCHANGED <<charger, repos, bounds, blurred>>

\* OnMeterValues looks for the session, ended or not, of its transaction.
LookUp(w) ==
  /\ At(w, "meter", "begin")
  /\ Goes(w, IF OfTransaction(worker[w].tx) # {} THEN "reply" ELSE "recover", 0)
  /\ UNCHANGED <<charger, repos, bounds, blurred>>

\* Mutant of Recover: the connector stays unknown to the controller.
RecoverOnlySession(w) ==
  /\ At(w, "meter", "recover")
  /\ sessions' = Append(sessions, [key |-> worker[w].key, tx |-> worker[w].tx,
                                   active |-> TRUE, recovered |-> TRUE])
  /\ Goes(w, "reply", 0)
  /\ UNCHANGED <<charger, status, bounds, blurred>>

Recover(w) ==
  /\ At(w, "meter", "recover")
  /\ sessions' = Append(sessions, [key |-> worker[w].key, tx |-> worker[w].tx,
                                   active |-> TRUE, recovered |-> TRUE])
  /\ Goes(w, "upsert", 0)
  /\ UNCHANGED <<charger, status, bounds, blurred>>

RecoverStatus(w) ==
  /\ At(w, "meter", "upsert")
  /\ status' = [status EXCEPT ![worker[w].key] = "Charging"]
  /\ Goes(w, "reply", 0)
  /\ UNCHANGED <<charger, sessions, bounds, blurred>>

\* OnStopTransaction: of a transaction that has no record it changes nothing.
FindForStop(w) ==
  /\ At(w, "stop", "begin")
  /\ \/ OfTransaction(worker[w].tx) = {} /\ Goes(w, "reply", 0)
     \/ \E i \in OfTransaction(worker[w].tx) : Goes(w, "update", i)
  /\ UNCHANGED <<charger, repos, bounds, blurred>>

Ended(s) == [key |-> s.key, tx |-> s.tx, active |-> FALSE, recovered |-> s.recovered]

\* Mutant of UpdateOnStop: StoppedAt is not set.
UpdateKeepsActive(w) ==
  /\ At(w, "stop", "update")
  /\ Goes(w, "reply", 0)
  /\ UNCHANGED <<charger, repos, bounds, blurred>>

UpdateOnStop(w) ==
  /\ At(w, "stop", "update")
  /\ sessions' = [sessions EXCEPT ![worker[w].found] = Ended(@)]
  /\ Goes(w, "reply", 0)
  /\ UNCHANGED <<charger, status, bounds, blurred>>

\* OnStatusNotification stores the status it was sent with, however late.
StoreStatus(w) ==
  /\ worker[w].kind \in Reports /\ worker[w].pc = "begin"
  /\ status' = [status EXCEPT ![worker[w].key] = worker[w].kind]
  /\ Goes(w, "reply", 0)
  /\ UNCHANGED <<charger, sessions, bounds, blurred>>

\* The answer; a charger that gave up on it does not look at it.
Answer(w) ==
  /\ worker[w].pc = "reply"
  /\ worker' = [worker EXCEPT ![w] = Free]
  /\ LET r == worker[w]
         starts == r.awaited /\ r.kind = "start"
         stops == r.awaited /\ r.kind = "stop"
     IN /\ phase' = IF starts THEN [phase EXCEPT ![r.key] = "charging"]
                    ELSE IF stops THEN [phase EXCEPT ![r.key] = "idle"] ELSE phase
        /\ txid' = IF starts THEN [txid EXCEPT ![r.key] = r.tx] ELSE txid
        /\ report' = IF starts \/ stops THEN report \cup {r.key} ELSE report
  /\ UNCHANGED <<conn, repos, bounds, blurred>>

Serve(w) ==
  \/ HandleStart(w) \/ LookUp(w) \/ Recover(w) \/ RecoverStatus(w)
  \/ FindForStop(w) \/ UpdateOnStop(w) \/ StoreStatus(w) \/ Answer(w)

\* Mutant of Restart: numbers transactions from the beginning again.
RestartRenumbers ==
  /\ restarts < MaxRestarts
  /\ restarts' = restarts + 1
  /\ conn' = FALSE /\ issued' = 0
  /\ worker' = [w \in Workers |-> Free]
  /\ sessions' = <<>> /\ status' = [k \in Connectors |-> "unknown"]
  /\ UNCHANGED <<phase, txid, report, blurred>>

Restart ==
  /\ restarts < MaxRestarts
  /\ restarts' = restarts + 1
  /\ conn' = FALSE
  /\ worker' = [w \in Workers |-> Free]
  /\ sessions' = <<>> /\ status' = [k \in Connectors |-> "unknown"]
  /\ UNCHANGED <<phase, txid, report, issued, blurred>>

Next ==
  \/ Charger
  \/ \E w \in Workers : Serve(w)
  \/ Restart

Spec == Init /\ [][Next]_vars

\* Goroutines run; the charger sends meter values every few seconds, repeats
\* what was not answered and reports its status.
FairSpec ==
  /\ Spec
  /\ \A w \in Workers : WF_vars(Serve(w))
  /\ \A k \in Connectors : /\ SF_vars(SendMeter(k)) /\ SF_vars(SendStop(k))
                           /\ SF_vars(SendStatus(k))

-----------------------------------------------------------------------------
(* Properties *)

\* The type invariant of the records and of the goroutines.
TypeOK ==
  /\ conn \in BOOLEAN
  /\ phase \in [Connectors -> {"idle", "starting", "charging", "stopping"}]
  /\ txid \in [Connectors -> 0 .. MaxTx]
  /\ report \subseteq Connectors /\ blurred \subseteq Connectors
  /\ worker \in [Workers -> Work]
  /\ sessions \in Seq(Session)
  /\ status \in [Connectors -> {"unknown", "Charging", "other"}]
  /\ issued \in 0 .. MaxTx /\ restarts \in 0 .. MaxRestarts

\* Session i is that of the transaction which the charger runs, or will learn
\* the ID of from the answer it waits for.
Live(i) ==
  LET k == sessions[i].key
  IN \/ phase[k] \in {"charging", "stopping"} /\ txid[k] = sessions[i].tx
     \/ phase[k] = "starting" /\ \E w \in Awaiting : worker[w].tx = sessions[i].tx

\* GetActiveSession, which the controller, the MQTT commands and the relay aim
\* their commands with, finds nothing but the live transaction, restarts
\* included, on a connector whose requests were all answered.
ActiveIsLive ==
  \A i \in DOMAIN sessions :
    sessions[i].active /\ sessions[i].key \notin blurred => Live(i)

\* Recovery never brings back a transaction that this process began, however
\* late its meter values are handled: it has one record, for good.
BegunOnce ==
  \A i, j \in DOMAIN sessions :
    sessions[i].tx = sessions[j].tx /\ ~sessions[i].recovered => i = j

\* A status from before the charging, which the charger gave up on, is still at
\* work: it may be stored after "Charging", and then stands for good.
Late(k) == \E w \in Workers : worker[w].kind = "other" /\ worker[w].key = k

\* "Recover active session after CSMS restart": on a lasting connection, a
\* connector that keeps charging comes to have an active session of its
\* transaction, and the status that makes the controller visit it, unless an
\* earlier status of it is handled that late.
Recovers ==
  \A k \in Connectors :
    <>[](conn /\ phase[k] = "charging") =>
      /\ <>[](\E i \in OfTransaction(txid[k]) : sessions[i].active)
      /\ [](phase[k] = "charging" => ~Late(k)) => <>[](status[k] = "Charging")

\* A transaction begun in this process and ended at the charger comes to be
\* ended in the records, whatever happens to the StopTransaction and its
\* answer, as long as the charger comes back.
StopsEnd ==
  []<>conn =>
    \A t \in 1 .. MaxTx :
      (\E k \in Connectors : phase[k] = "stopping" /\ txid[k] = t
         /\ \E i \in OfTransaction(t) : ~sessions[i].recovered)
      ~> (\A i \in OfTransaction(t) : ~sessions[i].active)

-----------------------------------------------------------------------------
(* The records as abstract transactions.                                   *)

\* What the records of a transaction, of which only recovered ones may be
\* several, say of it.
LifeOf(t) ==
  LET active == \E i \in OfTransaction(t) : sessions[i].active
  IN IF OfTransaction(t) = {} THEN IF t <= issued THEN "forgotten" ELSE "unseen"
     ELSE IF \A i \in OfTransaction(t) : sessions[i].recovered
          THEN IF active THEN "recovered" ELSE "settled"
          ELSE IF active THEN "begun" ELSE "ended"

OwnerOf(t) ==
  IF OfTransaction(t) = {} THEN NoKey ELSE sessions[CHOOSE i \in OfTransaction(t) : TRUE].key

Records == INSTANCE Transactions WITH
  life  <- [t \in 1 .. MaxTx |-> LifeOf(t)],
  owner <- [t \in 1 .. MaxTx |-> OwnerOf(t)],
  lossy <- blurred

\* To those who ask GetActiveSession the records are transactions that begin and
\* end once, come back only after a restart and under one connector, and run one
\* at a time on a connector whose requests were all answered.
ImplementsTransactions == Records!Spec
=============================================================================
