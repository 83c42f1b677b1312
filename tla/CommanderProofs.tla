-------------------------- MODULE CommanderProofs ---------------------------
(***************************************************************************)
(* The contactor lockout, proved for every set of callers and chargers,    *)
(* every set of cooldowns and every bound; and the documented one, for one *)
(* caller that commands alone.                                             *)
(***************************************************************************)
EXTENDS Commander, TLAPS

\* The request of a caller that has had all its answers is the one it waits
\* for, and its only one.
OneRequestPerCaller ==
  /\ \A r \in requests : r.by \notin unanswered => call[r.by].pc = "waiting" /\ call[r.by].id = r.id
  /\ \A r, q \in requests : r.by = q.by /\ r.by \notin unanswered => r = q

\* Nothing happened in the future.
PastOnly ==
  \A c \in Chargers : /\ lastStartStop[c] <= now
                      /\ \A p \in Callers : acted[c][p] <= now

\* A start or stop the charger performed is marked, or its callback is due.
Marked(c, p) ==
  \/ acted[c][p] <= lastStartStop[c]
  \/ \E r \in requests : r.by = p /\ r.to = c /\ r.answer = "accepted"

\* A caller past the check has a charger.
Aimed == \A p \in Callers : call[p].pc = "checked" => call[p].to \in Chargers

\* A caller past the check, and a request not yet carried out, are out of the
\* cooldown of that caller's previous start or stop.
Cleared ==
  /\ \A p \in Callers \ unanswered : call[p].pc = "checked" => ~TooSoon(acted[call[p].to][p])
  /\ \A r \in requests : r.answer = "none" /\ r.by \notin unanswered => ~TooSoon(acted[r.to][r.by])

\* A charger that accepted a request has acted.
AcceptedActs == \A r \in requests : r.answer = "accepted" => acted[r.to][r.by] # Never

LInv ==
  /\ TypeOK
  /\ OneRequestPerCaller
  /\ PastOnly
  /\ \A c \in Chargers, p \in Callers \ unanswered : Marked(c, p)
  /\ Aimed
  /\ Cleared
  /\ CallerLockout
  /\ AcceptedActs
  /\ NoSpuriousLockout

\* The initial states satisfy the invariant.
LEMMA LInit == Init => LInv
<1> SUFFICES ASSUME Init PROVE LInv
  OBVIOUS
<1>1. TypeOK
  BY CommanderAssumption DEF Init, TypeOK, Call, Idle, Never, NoCharger
<1>2. \A p \in Callers : call[p].pc = "idle"
  BY DEF Init, Idle
<1>3. \A c \in Chargers, p \in Callers : acted[c][p] = Never
  BY DEF Init
<1>. QED
  BY <1>1, <1>2, <1>3
  DEF Init, LInv, OneRequestPerCaller, PastOnly, Marked, Aimed, Cleared, CallerLockout,
      AcceptedActs, NoSpuriousLockout, Never

\* Every action preserves it.
LEMMA LNext == LInv /\ [Next]_vars => LInv'
<1> SUFFICES ASSUME LInv, [Next]_vars PROVE LInv'
  OBVIOUS
<1>. USE CommanderAssumption DEF LInv, Never
<1>t. TypeOK
  OBVIOUS
<1>1. CASE UNCHANGED vars
  BY <1>1 DEF vars, TypeOK, OneRequestPerCaller, PastOnly, Marked, Aimed, Cleared,
     CallerLockout, AcceptedActs, NoSpuriousLockout, TooSoon
<1>2. CASE Tick
  <2>1. now' = now + 1
        /\ UNCHANGED <<cooldown, lastStartStop, call, requests, sent, acted, breaches, unanswered>>
    BY <1>2 DEF Tick, history
  <2>2. TypeOK'
    BY <2>1 DEF TypeOK
  <2>3. PastOnly'
    BY <2>1 DEF TypeOK, PastOnly
  <2>4. ASSUME NEW t \in Nat \cup {Never}, ~TooSoon(t), t <= now
        PROVE  ~TooSoon(t)'
    BY <2>1, <2>4 DEF TooSoon, TypeOK
  <2>5. Cleared'
    <3>1. \A c \in Chargers, p \in Callers : acted[c][p] \in Nat \cup {Never} /\ acted[c][p] <= now
      BY DEF TypeOK, PastOnly
    <3>2. \A r \in requests : r.to \in Chargers /\ r.by \in Callers
      BY DEF TypeOK, Request
    <3>3. ASSUME NEW p \in Callers \ unanswered, call'[p].pc = "checked"
          PROVE  ~TooSoon(acted[call[p].to][p])'
      BY <2>1, <2>4, <3>1, <3>3 DEF Cleared, Aimed
    <3>4. ASSUME NEW r \in requests', r.answer = "none", r.by \notin unanswered
          PROVE  ~TooSoon(acted[r.to][r.by])'
      BY <2>1, <2>4, <3>1, <3>2, <3>4 DEF Cleared
    <3>. QED BY <2>1, <3>3, <3>4 DEF Cleared, TooSoon
  <2>. QED BY <2>1, <2>2, <2>3, <2>5
       DEF OneRequestPerCaller, Marked, Aimed, CallerLockout, AcceptedActs, NoSpuriousLockout
<1>3. ASSUME NEW d \in Cooldowns, SetCooldown(d)
      PROVE  LInv'
  BY <1>3 DEF SetCooldown, history, TypeOK, OneRequestPerCaller, PastOnly, Marked, Aimed, Cleared,
     CallerLockout, AcceptedActs, NoSpuriousLockout, TooSoon
<1>4. ASSUME NEW p \in Callers, Send(p)
      PROVE  LInv'
  <2> DEFINE c == call[p].to
             new == [id |-> sent + 1, by |-> p, to |-> c, answer |-> "none"]
             wait == [pc |-> "waiting", to |-> c, id |-> sent + 1, since |-> now]
  <2>1. /\ call[p].pc = "checked" /\ requests' = requests \cup {new}
        /\ call' = [call EXCEPT ![p] = wait] /\ sent' = sent + 1
        /\ UNCHANGED <<now, cooldown, lastStartStop, acted, breaches, unanswered>>
    BY <1>4 DEF Send, history
  <2>2. c \in Chargers /\ (p \notin unanswered => ~TooSoon(acted[c][p]))
    BY <2>1 DEF Cleared, Aimed
  <2>3. new \in Request /\ wait \in Call
    BY <2>2 DEF Request, Call, Answers, TypeOK
  <2>4. p \notin unanswered => \A r \in requests : r.by # p
    BY <2>1 DEF OneRequestPerCaller
  <2>5. TypeOK'
    BY <2>1, <2>3 DEF TypeOK
  <2>6. OneRequestPerCaller'
    BY <2>1, <2>4 DEF OneRequestPerCaller, TypeOK, Request
  <2>7. Cleared'
    BY <2>1, <2>2 DEF Cleared, TypeOK, TooSoon
  <2>8. \A k \in Chargers, q \in Callers \ unanswered : Marked(k, q)'
    BY <2>1 DEF Marked
  <2>9. Aimed'
    BY <2>1 DEF Aimed, TypeOK
  <2>. QED BY <2>1, <2>5, <2>6, <2>7, <2>8, <2>9
       DEF PastOnly, CallerLockout, AcceptedActs, NoSpuriousLockout
<1>5. ASSUME NEW p \in Callers, SendFails(p)
      PROVE  LInv'
  <2>1. /\ call[p].pc = "checked" /\ call' = [call EXCEPT ![p] = Idle]
        /\ UNCHANGED <<now, cooldown, lastStartStop, requests, sent, acted, breaches, unanswered>>
    BY <1>5 DEF SendFails, history
  <2>2. p \notin unanswered => \A r \in requests : r.by # p
    BY <2>1 DEF OneRequestPerCaller
  <2>3. TypeOK'
    BY <2>1 DEF TypeOK, Call, Idle, NoCharger
  <2>4. OneRequestPerCaller'
    BY <2>1, <2>2 DEF OneRequestPerCaller, TypeOK, Request
  <2>5. Cleared' /\ Aimed'
    BY <2>1 DEF Cleared, Aimed, TypeOK, TooSoon, Idle
  <2>. QED BY <2>1, <2>3, <2>4, <2>5
       DEF PastOnly, Marked, CallerLockout, AcceptedActs, NoSpuriousLockout
<1>6. ASSUME NEW p \in Callers, CommandTimesOut(p)
      PROVE  LInv'
  <2>1. /\ call[p].pc = "waiting" /\ call' = [call EXCEPT ![p] = Idle]
        /\ unanswered' = unanswered \cup {p}
        /\ UNCHANGED <<now, cooldown, lastStartStop, requests, sent, acted, breaches>>
    BY <1>6 DEF CommandTimesOut, Overdue
  <2>2. TypeOK'
    BY <2>1 DEF TypeOK, Call, Idle, NoCharger
  <2>3. OneRequestPerCaller'
    BY <2>1 DEF OneRequestPerCaller, TypeOK, Request
  <2>4. Cleared' /\ Aimed'
    BY <2>1 DEF Cleared, Aimed, TypeOK, TooSoon, Idle
  <2>. QED BY <2>1, <2>2, <2>3, <2>4
       DEF PastOnly, Marked, CallerLockout, AcceptedActs, NoSpuriousLockout
<1>7. ASSUME NEW p \in Callers, NEW c \in Chargers, EnforceCooldown(p, c)
      PROVE  LInv'
  <2> DEFINE checked == [Idle EXCEPT !.pc = "checked", !.to = c]
  <2>1. /\ call[p].pc = "idle" /\ call' = [call EXCEPT ![p] = checked]
        /\ Elapsed(lastStartStop[c], cooldown)
        /\ UNCHANGED <<now, cooldown, lastStartStop, requests, sent, acted, breaches, unanswered>>
    BY <1>7 DEF EnforceCooldown, history
  <2>2. p \notin unanswered => \A r \in requests : r.by # p
    BY <2>1 DEF OneRequestPerCaller
  <2>3. ASSUME p \notin unanswered PROVE ~TooSoon(acted[c][p])
    <3>1. acted[c][p] \in Nat \cup {Never} /\ lastStartStop[c] \in Nat \cup {Never}
      BY DEF TypeOK
    <3>2. acted[c][p] <= lastStartStop[c]
      BY <2>2, <2>3 DEF Marked
    <3>3. cooldown \in Cooldowns /\ cooldown \in Nat /\ now \in Nat
      BY DEF TypeOK
    <3>4. acted[c][p] = Never \/ now - acted[c][p] >= cooldown
      BY <2>1, <3>1, <3>2, <3>3 DEF Elapsed
    <3>. QED BY <3>1, <3>3, <3>4 DEF TooSoon
  <2>4. checked.pc = "checked" /\ checked.to = c /\ checked \in Call
    BY DEF Idle, Call
  <2> HIDE DEF checked
  <2>5. TypeOK'
    BY <2>1, <2>4 DEF TypeOK
  <2>6. OneRequestPerCaller'
    BY <2>1, <2>2 DEF OneRequestPerCaller, TypeOK, Request
  <2>7. Cleared' /\ Aimed'
    BY <2>1, <2>3, <2>4 DEF Cleared, Aimed, TypeOK, TooSoon
  <2>. QED BY <2>1, <2>5, <2>6, <2>7
       DEF PastOnly, Marked, CallerLockout, AcceptedActs, NoSpuriousLockout
<1>8. ASSUME NEW r \in requests, Accept(r)
      PROVE  LInv'
  <2> DEFINE new == [r EXCEPT !.answer = "accepted"]
             c == r.to
             p == r.by
             soon == {q \in Callers : TooSoon(acted[c][q])}
  <2>1. /\ r.answer = "none" /\ requests' = (requests \ {r}) \cup {new}
        /\ acted' = [acted EXCEPT ![c] = [@ EXCEPT ![p] = now]]
        /\ breaches' = [breaches EXCEPT ![c] = @ \cup {<<q, p>> : q \in soon}]
        /\ UNCHANGED <<now, cooldown, lastStartStop, call, sent, unanswered>>
    BY <1>8 DEF Accept
  <2>2. r \in Request /\ c \in Chargers /\ p \in Callers
    BY DEF TypeOK, Request
  <2>3. /\ new \in Request /\ new.answer = "accepted" /\ new.by = p /\ new.to = c
        /\ new.id = r.id
    BY <2>2 DEF Request, Answers
  <2>4. p \notin unanswered => \A q \in requests : q.by = p => q = r
    BY <2>2 DEF OneRequestPerCaller
  <2> HIDE DEF new
  <2>5. \A k \in Chargers, q \in Callers :
          acted'[k][q] = IF k = c /\ q = p THEN now ELSE acted[k][q]
    BY <2>1, <2>2 DEF TypeOK
  <2>6. TypeOK'
    <3>1. acted' \in [Chargers -> [Callers -> Nat \cup {Never}]]
      BY <2>1, <2>2 DEF TypeOK
    <3>2. breaches' \in [Chargers -> SUBSET (Callers \X Callers)]
      BY <2>1, <2>2 DEF TypeOK
    <3>. QED BY <2>1, <2>3, <3>1, <3>2 DEF TypeOK
  <2>7. OneRequestPerCaller'
    BY <2>1, <2>3, <2>4 DEF OneRequestPerCaller
  <2>8. PastOnly'
    BY <2>1, <2>5 DEF PastOnly, TypeOK
  <2>9. \A k \in Chargers, q \in Callers \ unanswered : Marked(k, q)'
    <3> SUFFICES ASSUME NEW k \in Chargers, NEW q \in Callers \ unanswered PROVE Marked(k, q)'
      OBVIOUS
    <3>1. CASE k = c /\ q = p
      BY <2>1, <2>3, <3>1 DEF Marked
    <3>2. CASE ~(k = c /\ q = p)
      BY <2>1, <2>5, <3>2 DEF Marked
    <3>. QED BY <3>1, <3>2
  <2>10. Cleared'
    <3>1. ASSUME NEW q \in Callers \ unanswered, call[q].pc = "checked"
          PROVE  ~TooSoon(acted'[call[q].to][q])
      <4>1. q # p
        BY <3>1 DEF OneRequestPerCaller
      <4>. QED BY <3>1, <4>1, <2>5 DEF Cleared, Aimed
    <3>2. ASSUME NEW q \in requests', q.answer = "none", q.by \notin unanswered
          PROVE  ~TooSoon(acted'[q.to][q.by])
      <4>1. q \in requests /\ q # r /\ q.by # p
        BY <2>1, <2>3, <2>4, <3>2
      <4>2. q.to \in Chargers /\ q.by \in Callers
        BY <4>1 DEF TypeOK, Request
      <4>. QED BY <3>2, <4>1, <4>2, <2>5 DEF Cleared
    <3>. QED BY <2>1, <3>1, <3>2 DEF Cleared, TooSoon
  <2>11. CallerLockout'
    <3>1. p \notin unanswered => p \notin soon
      BY <2>1, <2>2 DEF Cleared
    <3> SUFFICES ASSUME NEW k \in Chargers, NEW q \in Callers \ unanswered
                 PROVE  <<q, q>> \notin breaches'[k]
      BY <2>1 DEF CallerLockout
    <3>2. <<q, q>> \notin breaches[k]
      BY DEF CallerLockout
    <3>3. <<q, q>> \notin {<<t, p>> : t \in soon}
      BY <3>1
    <3> HIDE DEF soon
    <3>4. breaches'[k] = IF k = c THEN breaches[k] \cup {<<t, p>> : t \in soon} ELSE breaches[k]
      BY <2>1, <2>2 DEF TypeOK
    <3>. QED BY <3>2, <3>3, <3>4
  <2>12. AcceptedActs'
    <3> SUFFICES ASSUME NEW q \in requests', q.answer = "accepted" PROVE acted'[q.to][q.by] # Never
      BY DEF AcceptedActs
    <3>1. now # Never
      BY DEF TypeOK
    <3>2. q = new \/ q \in requests
      BY <2>1
    <3>3. q.to \in Chargers /\ q.by \in Callers
      BY <2>2, <2>3, <3>2 DEF TypeOK, Request
    <3>. QED BY <2>3, <2>5, <3>1, <3>2, <3>3 DEF AcceptedActs
  <2>13. NoSpuriousLockout'
    <3>1. now # Never
      BY DEF TypeOK
    <3>. QED BY <2>1, <2>5, <3>1 DEF NoSpuriousLockout
  <2>14. Aimed'
    BY <2>1 DEF Aimed
  <2>. QED BY <2>1, <2>6, <2>7, <2>8, <2>9, <2>10, <2>11, <2>12, <2>13, <2>14
<1>9. ASSUME NEW r \in requests, Reject(r)
      PROVE  LInv'
  <2> DEFINE new == [r EXCEPT !.answer = "rejected"]
  <2>1. /\ r.answer = "none" /\ requests' = (requests \ {r}) \cup {new}
        /\ UNCHANGED <<now, cooldown, lastStartStop, call, sent, acted, breaches, unanswered>>
    BY <1>9 DEF Reject, history
  <2>2. r \in Request
    BY DEF TypeOK
  <2>3. /\ new \in Request /\ new.answer = "rejected" /\ new.by = r.by /\ new.to = r.to
        /\ new.id = r.id
    BY <2>2 DEF Request, Answers
  <2> HIDE DEF new
  <2>4. TypeOK'
    BY <2>1, <2>3 DEF TypeOK
  <2>5. OneRequestPerCaller'
    BY <2>1, <2>2, <2>3 DEF OneRequestPerCaller
  <2>6. \A k \in Chargers, q \in Callers \ unanswered : Marked(k, q)'
    BY <2>1 DEF Marked
  <2>7. Cleared' /\ Aimed'
    BY <2>1, <2>3 DEF Cleared, Aimed, TooSoon
  <2>8. AcceptedActs'
    BY <2>1, <2>3 DEF AcceptedActs
  <2>. QED BY <2>1, <2>4, <2>5, <2>6, <2>7, <2>8 DEF PastOnly, CallerLockout, NoSpuriousLockout
<1>10. ASSUME NEW r \in requests, Callback(r)
       PROVE  LInv'
  <2>1. /\ r.answer # "none" /\ requests' = requests \ {r}
        /\ lastStartStop' = [lastStartStop EXCEPT ![r.to] =
             IF r.answer = "accepted" THEN now ELSE @]
        /\ call' = [call EXCEPT ![r.by] = IF WaitsFor(r.by, r) THEN Idle ELSE @]
        /\ UNCHANGED <<now, cooldown, sent, acted, breaches, unanswered>>
    BY <1>10 DEF Callback, ReturnTo, history
  <2>2. r \in Request /\ r.to \in Chargers /\ r.by \in Callers
    BY DEF TypeOK, Request
  <2>3. \A q \in Callers : call'[q] = call[q] \/ (q = r.by /\ call'[q] = Idle)
    BY <2>1 DEF TypeOK
  <2>4. r.by \notin unanswered => \A q \in requests' : q.by # r.by
    BY <2>1 DEF OneRequestPerCaller
  <2>5. \A k \in Chargers : lastStartStop[k] <= lastStartStop'[k] /\ lastStartStop'[k] <= now
    BY <2>1 DEF PastOnly, TypeOK
  <2>6. TypeOK'
    <3>1. Idle \in Call
      BY DEF Call, Idle
    <3>2. call' \in [Callers -> Call]
      BY <2>1, <2>2, <3>1 DEF TypeOK
    <3>3. lastStartStop' \in [Chargers -> Nat \cup {Never}]
      BY <2>1, <2>2 DEF TypeOK
    <3>. QED BY <2>1, <3>2, <3>3 DEF TypeOK
  <2>7. OneRequestPerCaller'
    BY <2>1, <2>3, <2>4 DEF OneRequestPerCaller, TypeOK, Request
  <2>8. PastOnly'
    BY <2>1, <2>5 DEF PastOnly
  <2>9. \A k \in Chargers, q \in Callers \ unanswered : Marked(k, q)'
    <3> SUFFICES ASSUME NEW k \in Chargers, NEW q \in Callers \ unanswered PROVE Marked(k, q)'
      OBVIOUS
    <3>0. acted[k][q] \in Nat \cup {Never} /\ acted[k][q] <= now
          /\ lastStartStop[k] \in Nat \cup {Never} /\ lastStartStop'[k] \in Nat \cup {Never}
      BY <2>6 DEF TypeOK, PastOnly
    <3>1. CASE acted[k][q] <= lastStartStop[k]
      BY <2>1, <2>5, <3>0, <3>1 DEF Marked
    <3>2. CASE r.by = q /\ r.to = k /\ r.answer = "accepted"
      BY <2>1, <2>2, <3>0, <3>2 DEF Marked, TypeOK
    <3>3. CASE \E t \in requests \ {r} : t.by = q /\ t.to = k /\ t.answer = "accepted"
      BY <2>1, <3>3 DEF Marked
    <3>. QED BY <3>1, <3>2, <3>3 DEF Marked
  <2>10. Cleared' /\ Aimed'
    <3>1. \A q \in Callers : call'[q].pc = "checked" => call'[q] = call[q]
      BY <2>3 DEF Idle
    <3>2. \A t : TooSoon(t)' <=> TooSoon(t)
      BY <2>1 DEF TooSoon
    <3>. QED BY <2>1, <3>1, <3>2 DEF Cleared, Aimed, TooSoon
  <2>11. AcceptedActs'
    BY <2>1 DEF AcceptedActs
  <2>12. NoSpuriousLockout'
    <3> SUFFICES ASSUME NEW k \in Chargers, lastStartStop'[k] # Never
                 PROVE  \E p \in Callers : acted[k][p] # Never
      BY <2>1 DEF NoSpuriousLockout
    <3>1. CASE k = r.to /\ r.answer = "accepted"
      BY <2>2, <3>1 DEF AcceptedActs
    <3>2. CASE ~(k = r.to /\ r.answer = "accepted")
      <4>1. lastStartStop'[k] = lastStartStop[k]
        BY <2>1, <2>2, <3>2 DEF TypeOK
      <4>. QED BY <4>1 DEF NoSpuriousLockout
    <3>. QED BY <3>1, <3>2
  <2>. QED BY <2>1, <2>6, <2>7, <2>8, <2>9, <2>10, <2>11, <2>12 DEF CallerLockout
<1>11. ASSUME NEW r \in requests, AnswerLost(r)
       PROVE  LInv'
  <2>1. /\ requests' = requests \ {r} /\ unanswered' = unanswered \cup {r.by}
        /\ call' = [call EXCEPT ![r.by] = IF WaitsFor(r.by, r) THEN Idle ELSE @]
        /\ UNCHANGED <<now, cooldown, lastStartStop, sent, acted, breaches>>
    BY <1>11 DEF AnswerLost, ReturnTo
  <2>2. r.by \in Callers
    BY DEF TypeOK, Request
  <2>3. \A q \in Callers : call'[q] = call[q] \/ (q = r.by /\ call'[q] = Idle)
    BY <2>1 DEF TypeOK
  <2>4. TypeOK'
    <3>1. Idle \in Call
      BY DEF Call, Idle
    <3>2. call' \in [Callers -> Call]
      BY <2>1, <2>2, <3>1 DEF TypeOK
    <3>. QED BY <2>1, <2>2, <3>2 DEF TypeOK
  <2>5. OneRequestPerCaller'
    BY <2>1, <2>2, <2>3 DEF OneRequestPerCaller, TypeOK, Request
  <2>6. \A k \in Chargers, q \in Callers \ unanswered' : Marked(k, q)'
    BY <2>1 DEF Marked
  <2>7. Cleared' /\ Aimed'
    <3>1. \A q \in Callers : call'[q].pc = "checked" => call'[q] = call[q]
      BY <2>3 DEF Idle
    <3>2. \A t : TooSoon(t)' <=> TooSoon(t)
      BY <2>1 DEF TooSoon
    <3>. QED BY <2>1, <3>1, <3>2 DEF Cleared, Aimed, TooSoon
  <2>. QED BY <2>1, <2>4, <2>5, <2>6, <2>7
       DEF PastOnly, CallerLockout, AcceptedActs, NoSpuriousLockout
<1>. QED
  BY <1>1, <1>2, <1>3, <1>4, <1>5, <1>6, <1>7, <1>8, <1>9, <1>10, <1>11 DEF Next

\* The invariant holds throughout.
THEOREM LInvHolds == Spec => []LInv
BY LInit, LNext, PTL DEF Spec

\* Type correctness of the commander.
THEOREM TypeCorrect == Spec => []TypeOK
BY LInvHolds, PTL DEF LInv

\* No caller that has had all its answers makes a charger start or stop twice
\* within the cooldown.
THEOREM LockoutPerCaller == Spec => []CallerLockout
BY LInvHolds, PTL DEF LInv

\* Only a charger that started or stopped is ever locked out.
THEOREM NoneSpurious == Spec => []NoSpuriousLockout
BY LInvHolds, PTL DEF LInv

\* The documented lockout, where one caller commands alone: with two, both may
\* pass the check before either is marked, and a caller that missed an answer may
\* repeat a command that was carried out (the run commander_race shows the first).
THEOREM LockoutWithOneCaller ==
  ASSUME \A p, q \in Callers : p = q
  PROVE  Spec => [](unanswered = {} => Lockout)
<1>1. LInv => (unanswered = {} => Lockout)
  <2> SUFFICES ASSUME LInv, unanswered = {}, NEW c \in Chargers PROVE breaches[c] = {}
    BY DEF Lockout
  <2>1. breaches[c] \subseteq Callers \X Callers
    BY DEF LInv, TypeOK
  <2>2. \A b \in Callers \X Callers : b = <<b[1], b[1]>> /\ b[1] \in Callers
    OBVIOUS
  <2>3. \A p \in Callers : <<p, p>> \notin breaches[c]
    BY DEF LInv, CallerLockout
  <2>. QED BY <2>1, <2>2, <2>3
<1>. QED BY <1>1, LInvHolds, PTL
=============================================================================
