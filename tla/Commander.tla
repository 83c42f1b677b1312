----------------------------- MODULE Commander ------------------------------
(***************************************************************************)
(* The contactor protection of internal/adapter/outbound/ocpp/commander.go *)
(* RemoteStartTransaction and RemoteStopTransaction have the same shape:   *)
(* check the cooldown under the mutex, release it, send the request, wait  *)
(* for the charger's answer or for commandTimeout, and mark the time of    *)
(* the command only in the callback of an accepted answer.  The callers    *)
(* are goroutines: the smart-charging controller, the MQTT handler and an  *)
(* upstream relay may all be inside the commander at once.                 *)
(*                                                                         *)
(* The ocpp-go library and the charger are external: a request that was    *)
(* handed over stays in `requests` until its callback ran.                 *)
(***************************************************************************)
EXTENDS Integers

CONSTANTS
  Callers,         \* goroutines that call the commander
  Chargers,
  Cooldowns,       \* the durations SetCooldown may be given
  CommandTimeout,  \* how long a caller waits for an answer
  MaxTime,         \* bound on the clock
  MaxCalls         \* bound on the number of requests

ASSUME CommanderAssumption ==
  /\ Cooldowns \subseteq Nat /\ Cooldowns # {}
  /\ CommandTimeout \in Nat
  /\ MaxTime \in Nat /\ MaxCalls \in Nat

VARIABLES
  now,             \* the clock
  cooldown,        \* contactorCooldown
  lastStartStop,   \* per charger, when a command was last marked, or Never
  call,            \* per caller, where it is in its call
  requests,        \* requests whose callback has not run
  sent,            \* requests sent so far
  \* History variables:
  acted,           \* per charger and caller, when the charger last started or
                   \* stopped on a request of that caller, or Never
  breaches,        \* per charger, the pairs <<p, q>> such that the charger acted
                   \* on q's request within every cooldown of acting on p's
  unanswered       \* the callers that ever returned without the answer

vars == <<now, cooldown, lastStartStop, call, requests, sent, acted, breaches, unanswered>>

Never == -1
NoCharger == "no charger"
Answers == {"none", "accepted", "rejected"}
Request == [id : Nat, by : Callers, to : Chargers, answer : Answers]
\* A caller is idle, past enforceCooldown for charger `to`, or waiting since
\* `since` for the answer to request `id`.
Call == [pc : {"idle", "checked", "waiting"}, to : Chargers \cup {NoCharger},
         id : Nat, since : Nat]
Idle == [pc |-> "idle", to |-> NoCharger, id |-> 0, since |-> 0]

\* Mutant of Elapsed: the cooldown ends a unit of time early.
ElapsedEarly(t, d) == t = Never \/ now - t >= d - 1

Elapsed(t, d) == t = Never \/ now - t >= d

\* Less than every cooldown the commander may be given has passed since t.
TooSoon(t) == t # Never /\ \A d \in Cooldowns : now - t < d

Init ==
  /\ now = 0
  /\ cooldown \in Cooldowns
  /\ lastStartStop = [c \in Chargers |-> Never]
  /\ call = [p \in Callers |-> Idle]
  /\ requests = {}
  /\ sent = 0
  /\ acted = [c \in Chargers |-> [p \in Callers |-> Never]]
  /\ breaches = [c \in Chargers |-> {}]
  /\ unanswered = {}

history == <<acted, breaches, unanswered>>

SetCooldown(d) ==
  /\ cooldown' = d
  /\ UNCHANGED <<now, lastStartStop, call, requests, sent, history>>

\* enforceCooldown; a refused call returns at once and changes nothing.
EnforceCooldown(p, c) ==
  /\ call[p].pc = "idle"
  /\ Elapsed(lastStartStop[c], cooldown)
  /\ call' = [call EXCEPT ![p] = [Idle EXCEPT !.pc = "checked", !.to = c]]
  /\ UNCHANGED <<now, cooldown, lastStartStop, requests, sent, history>>

Send(p) ==
  /\ call[p].pc = "checked"
  /\ sent < MaxCalls
  /\ sent' = sent + 1
  /\ requests' = requests \cup
       {[id |-> sent + 1, by |-> p, to |-> call[p].to, answer |-> "none"]}
  /\ call' = [call EXCEPT ![p] =
       [pc |-> "waiting", to |-> call[p].to, id |-> sent + 1, since |-> now]]
  /\ UNCHANGED <<now, cooldown, lastStartStop, history>>

\* The charger is not connected: the library refuses the request.
SendFails(p) ==
  /\ call[p].pc = "checked"
  /\ call' = [call EXCEPT ![p] = Idle]
  /\ UNCHANGED <<now, cooldown, lastStartStop, requests, sent, history>>

\* The charger starts or stops: its contactor moves.
Accept(r) ==
  /\ r.answer = "none"
  /\ requests' = (requests \ {r}) \cup {[r EXCEPT !.answer = "accepted"]}
  /\ acted' = [acted EXCEPT ![r.to] = [@ EXCEPT ![r.by] = now]]
  /\ breaches' = [breaches EXCEPT ![r.to] = @ \cup
       {<<p, r.by>> : p \in {q \in Callers : TooSoon(acted[r.to][q])}}]
  /\ UNCHANGED <<now, cooldown, lastStartStop, call, sent, unanswered>>

Reject(r) ==
  /\ r.answer = "none"
  /\ requests' = (requests \ {r}) \cup {[r EXCEPT !.answer = "rejected"]}
  /\ UNCHANGED <<now, cooldown, lastStartStop, call, sent, history>>

WaitsFor(p, r) == call[p].pc = "waiting" /\ call[p].id = r.id

\* The caller of r, if it still waits on the channel, returns.
ReturnTo(r) ==
  call' = [call EXCEPT ![r.by] = IF WaitsFor(r.by, r) THEN Idle ELSE @]

\* Mutants of Callback: it marks a backdated time, and it marks on any answer.
CallbackBackdates(r) ==
  /\ r.answer # "none"
  /\ requests' = requests \ {r}
  /\ lastStartStop' = [lastStartStop EXCEPT ![r.to] =
       IF r.answer = "accepted" THEN now - cooldown ELSE @]
  /\ ReturnTo(r)
  /\ UNCHANGED <<now, cooldown, sent, history>>
CallbackMarksAny(r) ==
  /\ r.answer # "none"
  /\ requests' = requests \ {r}
  /\ lastStartStop' = [lastStartStop EXCEPT ![r.to] = now]
  /\ ReturnTo(r)
  /\ UNCHANGED <<now, cooldown, sent, history>>

\* The callback runs in a goroutine of the library, also after the caller
\* gave up: the channel has room for one error.
Callback(r) ==
  /\ r.answer # "none"
  /\ requests' = requests \ {r}
  /\ lastStartStop' = [lastStartStop EXCEPT ![r.to] =
       IF r.answer = "accepted" THEN now ELSE @]
  /\ ReturnTo(r)
  /\ UNCHANGED <<now, cooldown, sent, history>>

\* The answer is lost, or the connection breaks: the callback gets an error.
\* The charger may have acted already.
AnswerLost(r) ==
  /\ requests' = requests \ {r}
  /\ ReturnTo(r)
  /\ unanswered' = unanswered \cup {r.by}
  /\ UNCHANGED <<now, cooldown, lastStartStop, sent, acted, breaches>>

\* Mutant of Overdue: the wait has no timeout.
OverdueNever(p) == FALSE

Overdue(p) == call[p].pc = "waiting" /\ now - call[p].since >= CommandTimeout

CommandTimesOut(p) ==
  /\ Overdue(p)
  /\ call' = [call EXCEPT ![p] = Idle]
  /\ unanswered' = unanswered \cup {p}
  /\ UNCHANGED <<now, cooldown, lastStartStop, requests, sent, acted, breaches>>

Tick ==
  /\ now < MaxTime
  /\ now' = now + 1
  /\ UNCHANGED <<cooldown, lastStartStop, call, requests, sent, history>>

Next ==
  \/ Tick
  \/ \E d \in Cooldowns : SetCooldown(d)
  \/ \E p \in Callers : Send(p) \/ SendFails(p) \/ CommandTimesOut(p)
  \/ \E p \in Callers, c \in Chargers : EnforceCooldown(p, c)
  \/ \E r \in requests : Accept(r) \/ Reject(r) \/ Callback(r) \/ AnswerLost(r)

Spec == Init /\ [][Next]_vars

\* Time passes, and the runtime delivers an expired time.After.
FairSpec == Spec /\ WF_vars(Tick) /\ \A p \in Callers : WF_vars(CommandTimesOut(p))

-----------------------------------------------------------------------------

\* Type invariant.
TypeOK ==
  /\ now \in Nat /\ sent \in Nat
  /\ cooldown \in Cooldowns
  /\ lastStartStop \in [Chargers -> Nat \cup {Never}]
  /\ call \in [Callers -> Call]
  /\ requests \subseteq Request
  /\ acted \in [Chargers -> [Callers -> Nat \cup {Never}]]
  /\ breaches \in [Chargers -> SUBSET (Callers \X Callers)]
  /\ unanswered \subseteq Callers

\* A charger never starts or stops twice within the cooldown at the wish of one
\* caller that has had all its answers, whatever other callers do and miss: the
\* mark is set in the callback, before that caller can check the cooldown again.
CallerLockout ==
  \A c \in Chargers, p \in Callers \ unanswered : <<p, p>> \notin breaches[c]

\* "After start/stop, 180-second lockout prevents further commands": a charger
\* never starts or stops twice within the cooldown, whoever asks.
Lockout == \A c \in Chargers : breaches[c] = {}

\* A charger that never moved its contactor is never locked out: a rejected
\* request, a lost answer and a request that timed out before the charger
\* accepted it leave it free for the next command.
NoSpuriousLockout ==
  \A c \in Chargers : lastStartStop[c] # Never => \E p \in Callers : acted[c][p] # Never

\* No caller hangs on a charger that never answers: whatever happens to its
\* request, it returns.  (A caller that starts to wait at the very end of the
\* bounded clock has no time left to time out in.)
CallReturns ==
  \A p \in Callers, n \in 1 .. MaxCalls :
    (/\ call[p].pc = "waiting" /\ call[p].id = n
     /\ call[p].since + CommandTimeout <= MaxTime) ~> (call[p].id # n)
=============================================================================
