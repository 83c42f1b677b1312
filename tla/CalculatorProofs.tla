-------------------------- MODULE CalculatorProofs --------------------------
(***************************************************************************)
(* Proofs about Calculator for every set of chargers, samples and limits.  *)
(***************************************************************************)
EXTENDS Calculator, TLAPS

\* The last n readings of the window w are r, and the one before is not.
Streak(w, n, r) ==
  /\ n <= Len(w)
  /\ \A i \in 1 .. n : w[Len(w) + 1 - i] = r
  /\ n < Len(w) => w[Len(w) - n] # r

\* What the counters mean: of a running charger belowCount counts the low
\* readings at the end of the window, of a stopped one aboveCount the high
\* ones, and neither has reached its threshold.
CountersOf(m, w) ==
  IF m.isStopped
  THEN m.above < RunConfirmTicks /\ Streak(w, m.above, "high")
  ELSE m.below < StopConfirmTicks /\ Streak(w, m.below, "low")

\* Only low readings of a running charger let it draw more than both the
\* surplus and the minimum; a stopped one is told the minimum.
OvershootOf(m, n) == IF m.isStopped THEN n = 0 ELSE n <= m.below

Configured(a) == \E b \in Limits : a \in b.min .. b.max

IInv ==
  /\ TypeOK
  /\ LimitFromSomeConfiguration
  /\ \A c \in Chargers :
       /\ CountersOf(memory[c], seen[c])
       /\ OvershootOf(memory[c], overshoot[c])

USE DEF StopConfirmTicks, RunConfirmTicks, Hysteresis, NoLimit

\* The surplus of a sample is an integer and the ideal current a natural.
LEMMA IdealAmpsType ==
  ASSUME NEW s \in Sample
  PROVE  IdealAmps(s) \in Nat
<1>1. Surplus(s) \in Int
  BY DEF Sample, Surplus
<1>2. \A x \in Nat : x \div GridVolt \in Nat
  BY GridVoltAssumption
<1>. QED BY <1>1, <1>2 DEF IdealAmps

\* The five things one reading can do to the debounce counters.
LEMMA DebouncedCases ==
  ASSUME NEW m \in Memory, NEW r \in Readings
  PROVE  LET rec(st, be, ab) == [isStopped |-> st, below |-> be, above |-> ab, last |-> m.last]
             d == Debounced(m, r)
         IN \/ m.isStopped /\ r = "low" /\ d = rec(TRUE, m.below, 0)
            \/ m.isStopped /\ r = "high" /\ m.above + 1 >= 2 /\ d = rec(FALSE, 0, m.above + 1)
            \/ m.isStopped /\ r = "high" /\ ~(m.above + 1 >= 2) /\ d = rec(TRUE, m.below, m.above + 1)
            \/ ~m.isStopped /\ r = "high" /\ d = rec(FALSE, 0, m.above)
            \/ ~m.isStopped /\ r = "low" /\ m.below + 1 >= 3 /\ d = rec(TRUE, m.below + 1, 0)
            \/ ~m.isStopped /\ r = "low" /\ ~(m.below + 1 >= 3) /\ d = rec(FALSE, m.below + 1, m.above)
<1>1. CASE m.isStopped
  <2>1. CASE r = "low"
    BY <1>1, <2>1 DEF Debounced
  <2>2. CASE r = "high" /\ m.above + 1 >= 2
    BY <1>1, <2>2 DEF Debounced
  <2>3. CASE r = "high" /\ ~(m.above + 1 >= 2)
    BY <1>1, <2>3 DEF Debounced
  <2>. QED BY <1>1, <2>1, <2>2, <2>3 DEF Readings
<1>2. CASE ~m.isStopped
  <2>1. CASE r = "high"
    BY <1>2, <2>1 DEF Debounced
  <2>2. CASE r = "low" /\ m.below + 1 >= 3
    BY <1>2, <2>2 DEF Debounced
  <2>3. CASE r = "low" /\ ~(m.below + 1 >= 3)
    BY <1>2, <2>3 DEF Debounced
  <2>. QED BY <1>2, <2>1, <2>2, <2>3 DEF Readings
<1>. QED BY <1>1, <1>2

\* A window slid by one more reading of the same kind has a longer streak of
\* it, a window slid by a reading of the other kind has an empty one.
LEMMA SlideStreak ==
  ASSUME NEW w \in Seq(Readings), Len(w) <= 3, NEW r \in Readings
  PROVE  /\ Slide(w, r) \in Seq(Readings)
         /\ Len(Slide(w, r)) <= 3
         /\ \A n \in 0 .. 2 : Streak(w, n, r) => Streak(Slide(w, r), n + 1, r)
         /\ \A v \in Readings : v # r => Streak(Slide(w, r), 0, v)
<1>n. Len(w) \in Nat
  OBVIOUS
<1>c. Len(w) < 3 \/ Len(w) = 3
  <2>1. \A n \in Nat : n <= 3 => n < 3 \/ n = 3
    OBVIOUS
  <2>. QED BY <1>n, <2>1
<1> DEFINE x == Slide(w, r)
           y == Append(w, r)
<1>y. /\ y \in Seq(Readings) /\ Len(y) = Len(w) + 1
      /\ y[Len(y)] = r
      /\ \A i \in 1 .. Len(w) : y[i] = w[i]
  <2>1. y \in Seq(Readings) /\ Len(y) = Len(w) + 1
    OBVIOUS
  <2>2. y[Len(w) + 1] = r
    OBVIOUS
  <2>3. \A i \in 1 .. Len(w) : y[i] = w[i]
    OBVIOUS
  <2>. QED BY <2>1, <2>2, <2>3
<1>t. ASSUME Len(w) = 3
      PROVE  /\ Tail(y) \in Seq(Readings) /\ Len(Tail(y)) = 3
             /\ \A i \in 1 .. 3 : Tail(y)[i] = y[i + 1]
  BY <1>y, <1>t
<1>a. Len(w) < 3 => x = y
  BY DEF Slide
<1>b. Len(w) = 3 => x = Tail(y)
  BY DEF Slide
<1> HIDE DEF x, y
<1>1. x \in Seq(Readings) /\ Len(x) <= 3 /\ Len(x) > 0
  BY <1>y, <1>t, <1>a, <1>b, <1>c
<1>2. x[Len(x)] = r
  BY <1>y, <1>t, <1>a, <1>b, <1>c
<1>3. \A i \in 1 .. Len(x) - 1 : x[Len(x) - i] = w[Len(w) + 1 - i]
  BY <1>y, <1>t, <1>a, <1>b, <1>c
<1>4. Len(x) = Len(w) + 1 \/ (Len(x) = 3 /\ Len(w) = 3)
  BY <1>y, <1>t, <1>a, <1>b, <1>c
<1>5. ASSUME NEW n \in 0 .. 2, Streak(w, n, r)
      PROVE  Streak(x, n + 1, r)
  <2>1. n + 1 <= Len(x)
    <3>1. n <= Len(w)
      BY <1>5 DEF Streak
    <3>2. CASE Len(x) = Len(w) + 1
      BY <3>1, <3>2, <1>n
    <3>3. CASE Len(x) = 3
      BY <3>3
    <3>. QED BY <3>2, <3>3, <1>4
  <2>2. ASSUME NEW i \in 1 .. n + 1
        PROVE  x[Len(x) + 1 - i] = r
    <3>1. CASE i = 1
      BY <1>1, <1>2, <3>1
    <3>2. CASE i > 1
      <4>1. x[Len(x) - (i - 1)] = w[Len(w) + 1 - (i - 1)]
        BY <1>1, <1>3, <2>1, <3>2
      <4>2. w[Len(w) + 1 - (i - 1)] = r
        BY <1>5, <3>2 DEF Streak
      <4>3. Len(x) - (i - 1) = Len(x) + 1 - i
        BY <1>1
      <4>. QED BY <4>1, <4>2, <4>3
    <3>. QED BY <3>1, <3>2
  <2>3. ASSUME n + 1 < Len(x)
        PROVE  x[Len(x) - (n + 1)] # r
    <3>1. x[Len(x) - (n + 1)] = w[Len(w) + 1 - (n + 1)]
      <4>1. n + 1 \in 1 .. Len(x) - 1
        BY <1>1, <2>3
      <4>. QED BY <4>1, <1>3
    <3>2. Len(w) + 1 - (n + 1) = Len(w) - n /\ n < Len(w)
      BY <1>1, <1>4, <2>3
    <3>. QED BY <3>1, <3>2, <1>5 DEF Streak
  <2>. QED BY <2>1, <2>2, <2>3 DEF Streak
<1>6. ASSUME NEW v \in Readings, v # r
      PROVE  Streak(x, 0, v)
  BY <1>1, <1>2, <1>6 DEF Streak
<1>. QED BY <1>1, <1>5, <1>6 DEF x

\* An empty window has an empty streak of either kind.
LEMMA EmptyStreak == \A v \in Readings : Streak(<<>>, 0, v)
BY DEF Streak

\* One reading keeps the meaning of the debounce counters, and the low readings
\* of a charger left running are counted one by one.
LEMMA DebouncedStep ==
  ASSUME NEW m \in Memory, NEW w \in Seq(Readings), NEW r \in Readings,
         Len(w) <= 3, CountersOf(m, w)
  PROVE  LET d == Debounced(m, r)
             x == IF d.isStopped <=> m.isStopped THEN Slide(w, r) ELSE <<>>
         IN /\ d \in Memory
            /\ d.last = m.last
            /\ x \in Seq(Readings) /\ Len(x) <= 3
            /\ CountersOf(d, x)
            /\ ~d.isStopped /\ r = "low" => ~m.isStopped /\ d.below = m.below + 1
            /\ d.below >= 0
<1> DEFINE d == Debounced(m, r)
           x == IF d.isStopped <=> m.isStopped THEN Slide(w, r) ELSE <<>>
<1>1. m.isStopped \in BOOLEAN /\ m.below \in 0 .. 3 /\ m.above \in 0 .. 2
      /\ m.last \in Nat \cup {NoLimit}
  BY DEF Memory
<1>2. m.isStopped => m.above < 2 /\ Streak(w, m.above, "high")
  BY DEF CountersOf
<1>3. ~m.isStopped => m.below < 3 /\ Streak(w, m.below, "low")
  BY DEF CountersOf
<1>4. <<>> \in Seq(Readings) /\ Len(<<>>) = 0
  OBVIOUS
<1>x. x = IF d.isStopped <=> m.isStopped THEN Slide(w, r) ELSE <<>>
  OBVIOUS
<1>d. \/ m.isStopped /\ r = "low"
          /\ d = [isStopped |-> TRUE, below |-> m.below, above |-> 0, last |-> m.last]
      \/ m.isStopped /\ r = "high" /\ m.above + 1 >= 2
          /\ d = [isStopped |-> FALSE, below |-> 0, above |-> m.above + 1, last |-> m.last]
      \/ m.isStopped /\ r = "high" /\ ~(m.above + 1 >= 2)
          /\ d = [isStopped |-> TRUE, below |-> m.below, above |-> m.above + 1, last |-> m.last]
      \/ ~m.isStopped /\ r = "high"
          /\ d = [isStopped |-> FALSE, below |-> 0, above |-> m.above, last |-> m.last]
      \/ ~m.isStopped /\ r = "low" /\ m.below + 1 >= 3
          /\ d = [isStopped |-> TRUE, below |-> m.below + 1, above |-> 0, last |-> m.last]
      \/ ~m.isStopped /\ r = "low" /\ ~(m.below + 1 >= 3)
          /\ d = [isStopped |-> FALSE, below |-> m.below + 1, above |-> m.above, last |-> m.last]
  BY DebouncedCases
<1> DEFINE Goal ==
      /\ d \in Memory /\ d.last = m.last
      /\ x \in Seq(Readings) /\ Len(x) <= 3
      /\ CountersOf(d, x)
      /\ ~d.isStopped /\ r = "low" => ~m.isStopped /\ d.below = m.below + 1
      /\ d.below >= 0
<1> HIDE DEF d, x
<1> SUFFICES Goal
  BY DEF d, x
<1>5. CASE m.isStopped /\ r = "low"
           /\ d = [isStopped |-> TRUE, below |-> m.below, above |-> 0, last |-> m.last]
  <2>1. x = Slide(w, r)
    BY <1>5, <1>x
  <2>2. Streak(x, d.above, "high")
    BY <1>5, <2>1, SlideStreak DEF Readings
  <2>. QED BY <1>1, <1>5, <2>1, <2>2, SlideStreak DEF CountersOf, Memory
<1>6. CASE m.isStopped /\ r = "high" /\ m.above + 1 >= 2
           /\ d = [isStopped |-> FALSE, below |-> 0, above |-> m.above + 1, last |-> m.last]
  <2>1. x = <<>>
    BY <1>6, <1>x
  <2>2. Streak(x, d.below, "low")
    BY <1>6, <2>1, EmptyStreak DEF Readings
  <2>. QED BY <1>1, <1>2, <1>4, <1>6, <2>1, <2>2 DEF CountersOf, Memory
<1>7. CASE m.isStopped /\ r = "high" /\ ~(m.above + 1 >= 2)
           /\ d = [isStopped |-> TRUE, below |-> m.below, above |-> m.above + 1, last |-> m.last]
  <2>1. x = Slide(w, r)
    BY <1>7, <1>x
  <2>2. Streak(x, d.above, "high")
    BY <1>1, <1>2, <1>7, <2>1, SlideStreak
  <2>. QED BY <1>1, <1>7, <2>1, <2>2, SlideStreak DEF CountersOf, Memory
<1>8. CASE ~m.isStopped /\ r = "high"
           /\ d = [isStopped |-> FALSE, below |-> 0, above |-> m.above, last |-> m.last]
  <2>1. x = Slide(w, r)
    BY <1>8, <1>x
  <2>2. Streak(x, d.below, "low")
    BY <1>8, <2>1, SlideStreak DEF Readings
  <2>. QED BY <1>1, <1>8, <2>1, <2>2, SlideStreak DEF CountersOf, Memory
<1>9. CASE ~m.isStopped /\ r = "low" /\ m.below + 1 >= 3
           /\ d = [isStopped |-> TRUE, below |-> m.below + 1, above |-> 0, last |-> m.last]
  <2>1. x = <<>>
    BY <1>9, <1>x
  <2>2. Streak(x, d.above, "high")
    BY <1>9, <2>1, EmptyStreak DEF Readings
  <2>. QED BY <1>1, <1>3, <1>4, <1>9, <2>1, <2>2 DEF CountersOf, Memory
<1>10. CASE ~m.isStopped /\ r = "low" /\ ~(m.below + 1 >= 3)
            /\ d = [isStopped |-> FALSE, below |-> m.below + 1, above |-> m.above, last |-> m.last]
  <2>1. x = Slide(w, r)
    BY <1>10, <1>x
  <2>2. Streak(x, d.below, "low")
    BY <1>1, <1>3, <1>10, <2>1, SlideStreak
  <2>. QED BY <1>1, <1>10, <2>1, <2>2, SlideStreak DEF CountersOf, Memory
<1>. QED BY <1>5, <1>6, <1>7, <1>8, <1>9, <1>10, <1>d

\* The limit returned is configured if the previous one was, and a reading
\* that is not low never gives a limit two amps above the ideal current.
LEMMA LimitForStep ==
  ASSUME NEW d \in Memory, NEW s \in Sample, NEW b \in Limits,
         d.last # NoLimit => Configured(d.last)
  PROVE  /\ LimitFor(d, s, b) \in Nat
         /\ Configured(LimitFor(d, s, b))
         /\ ~d.isStopped /\ ~WouldStop(s, b) =>
              LimitFor(d, s, b) < IdealAmps(s) + Hysteresis
<1>1. b.min \in Nat /\ b.max \in Nat /\ b.min <= b.max
  BY CalculatorAssumption DEF Bounds
<1>2. IdealAmps(s) \in Nat
  BY IdealAmpsType
<1> DEFINE ideal == Capped(IdealAmps(s), b)
<1>3. ideal \in Nat /\ ideal <= IdealAmps(s) /\ ideal <= b.max
  BY <1>1, <1>2 DEF Capped
<1>4. d.last \in Nat \cup {NoLimit}
  BY DEF Memory
<1>5. CASE d.isStopped
  BY <1>1, <1>5 DEF LimitFor, Configured
<1>6. CASE ~d.isStopped /\ WouldStop(s, b)
  BY <1>1, <1>4, <1>6 DEF LimitFor, Configured
<1>7. CASE ~d.isStopped /\ ~WouldStop(s, b)
  <2>1. b.min <= ideal
    BY <1>1, <1>2, <1>7 DEF WouldStop, Capped
  <2>2. CASE InHysteresisBand(d, ideal)
    <3>1. LimitFor(d, s, b) = d.last /\ d.last \in Nat
      BY <1>4, <1>7, <2>2 DEF LimitFor, InHysteresisBand
    <3>2. d.last < IdealAmps(s) + Hysteresis
      BY <1>2, <1>3, <3>1, <2>2 DEF InHysteresisBand, AbsInt
    <3>. QED BY <3>1, <3>2
  <2>3. CASE ~InHysteresisBand(d, ideal)
    <3>1. LimitFor(d, s, b) = ideal
      BY <1>7, <2>3 DEF LimitFor
    <3>. QED BY <3>1, <1>1, <1>2, <1>3, <2>1 DEF Configured
  <2>. QED BY <2>2, <2>3
<1>. QED BY <1>5, <1>6, <1>7

\* A limit that is not the previous one is inside the bounds.
LEMMA LimitInside ==
  ASSUME NEW d \in Memory, NEW s \in Sample, NEW b \in Bounds, LimitFor(d, s, b) # d.last
  PROVE  LimitFor(d, s, b) \in b.min .. b.max
<1>1. b.min \in Nat /\ b.max \in Nat /\ b.min <= b.max
  BY DEF Bounds
<1>2. IdealAmps(s) \in Nat
  BY IdealAmpsType
<1>3. CASE d.isStopped \/ WouldStop(s, b)
  BY <1>1, <1>3 DEF LimitFor
<1>4. CASE ~d.isStopped /\ ~WouldStop(s, b)
  <2>1. LimitFor(d, s, b) = Capped(IdealAmps(s), b)
    BY <1>4 DEF LimitFor
  <2>. QED BY <2>1, <1>1, <1>2, <1>4 DEF Capped, WouldStop
<1>. QED BY <1>3, <1>4

\* One compute keeps the memory of a charger, its window and its overshoot
\* count in the invariant.
LEMMA ComputedStep ==
  ASSUME NEW m \in Memory, NEW w \in Seq(Readings), NEW n \in Nat,
         NEW s \in Sample, NEW b \in Limits,
         Len(w) <= 3, CountersOf(m, w), OvershootOf(m, n),
         m.last # NoLimit => Configured(m.last)
  PROVE  LET new == Computed(m, s, b)
             x == IF new.isStopped <=> m.isStopped THEN Slide(w, Reading(s, b)) ELSE <<>>
         IN /\ new \in Memory
            /\ Configured(new.last)
            /\ x \in Seq(Readings) /\ Len(x) <= 3
            /\ CountersOf(new, x)
            /\ OvershootOf(new, IF Overshoots(new, s, b) THEN n + 1 ELSE 0)
<1> DEFINE r == Reading(s, b)
           d == Debounced(m, r)
           a == LimitFor(d, s, b)
           new == Computed(m, s, b)
           x == IF d.isStopped <=> m.isStopped THEN Slide(w, r) ELSE <<>>
<1>1. r \in Readings
  BY DEF Reading, Readings
<1>2. /\ d \in Memory /\ d.last = m.last
      /\ x \in Seq(Readings) /\ Len(x) <= 3
      /\ CountersOf(d, x)
      /\ ~d.isStopped /\ r = "low" => ~m.isStopped /\ d.below = m.below + 1
      /\ d.below >= 0
  <2> HIDE DEF r
  <2>. QED BY <1>1, DebouncedStep
<1>3. /\ a \in Nat /\ Configured(a)
      /\ ~d.isStopped /\ ~WouldStop(s, b) => a < IdealAmps(s) + Hysteresis
  <2> HIDE DEF d
  <2>. QED BY <1>2, LimitForStep
<1>4. new = [d EXCEPT !.last = a]
  BY DEF Computed
<1> HIDE DEF d, a, new
<1>5. /\ new \in Memory /\ new.last = a
      /\ new.isStopped = d.isStopped /\ new.below = d.below /\ new.above = d.above
  BY <1>2, <1>3, <1>4 DEF Memory
<1>6. (new.isStopped <=> m.isStopped) = (d.isStopped <=> m.isStopped)
  BY <1>5
<1>7. CountersOf(new, x)
  BY <1>2, <1>5 DEF CountersOf
<1>8. OvershootOf(new, IF Overshoots(new, s, b) THEN n + 1 ELSE 0)
  <2>1. IdealAmps(s) \in Nat
    BY IdealAmpsType
  <2>2. CASE new.isStopped
    <3>1. new.last = b.min /\ b.min \in Nat
      BY <1>3, <1>5, <2>2, CalculatorAssumption DEF a, LimitFor, Bounds
    <3>. QED BY <2>2, <3>1 DEF OvershootOf, Overshoots
  <2>3. CASE ~new.isStopped /\ ~WouldStop(s, b)
    <3>1. ~Overshoots(new, s, b)
      BY <1>3, <1>5, <2>1, <2>3 DEF Overshoots
    <3>. QED BY <1>2, <1>5, <2>3, <3>1 DEF OvershootOf
  <2>4. CASE ~new.isStopped /\ WouldStop(s, b)
    <3>1. r = "low"
      BY <2>4 DEF Reading
    <3>2. ~m.isStopped /\ new.below = m.below + 1
      BY <1>2, <1>5, <2>4, <3>1
    <3>3. n <= m.below /\ m.below \in Nat
      BY <3>2 DEF OvershootOf, Memory
    <3>. QED BY <2>4, <3>2, <3>3 DEF OvershootOf
  <2>. QED BY <2>2, <2>3, <2>4
<1>. QED BY <1>2, <1>3, <1>5, <1>7, <1>8 DEF new

\* The invariant of the specification: types, configured limits, and what the
\* counters say about the window and the overshoot.
THEOREM IInvInductive == Spec => []IInv
<1>1. Init => IInv
  <2> SUFFICES ASSUME Init PROVE IInv
    OBVIOUS
  <2>1. \A c \in Chargers : memory[c] = FreshMemory /\ seen[c] = <<>> /\ overshoot[c] = 0
    BY DEF Init
  <2>2. FreshMemory \in Memory /\ <<>> \in Seq(Readings) /\ Len(<<>>) = 0
    BY DEF FreshMemory, Memory
  <2>3. TypeOK
    BY <2>1, <2>2 DEF Init, TypeOK
  <2>4. LimitFromSomeConfiguration
    BY <2>1 DEF LimitFromSomeConfiguration, FreshMemory
  <2>5. CountersOf(FreshMemory, <<>>) /\ OvershootOf(FreshMemory, 0)
    BY EmptyStreak DEF CountersOf, OvershootOf, FreshMemory, Readings
  <2>. QED BY <2>1, <2>3, <2>4, <2>5 DEF IInv
<1>2. IInv /\ [Next]_vars => IInv'
  <2> SUFFICES ASSUME IInv, [Next]_vars PROVE IInv'
    OBVIOUS
  <2>. USE DEF IInv, TypeOK, LimitFromSomeConfiguration
  <2>1. CASE UNCHANGED vars
    BY <2>1 DEF vars
  <2>2. ASSUME NEW b \in Limits, SetLimits(b)
        PROVE  IInv'
    BY <2>2 DEF SetLimits
  <2>3. ASSUME NEW c \in Chargers, NEW s \in Samples, Compute(c, s)
        PROVE  IInv'
    <3> DEFINE new == Computed(memory[c], s, limits)
               x == IF new.isStopped <=> memory[c].isStopped
                    THEN Slide(seen[c], Reading(s, limits)) ELSE <<>>
               n == IF Overshoots(new, s, limits) THEN overshoot[c] + 1 ELSE 0
    <3>1. s \in Sample
      BY CalculatorAssumption
    <3>2. /\ new \in Memory /\ Configured(new.last)
          /\ x \in Seq(Readings) /\ Len(x) <= 3
          /\ CountersOf(new, x) /\ OvershootOf(new, n)
      BY <3>1, ComputedStep DEF Configured
    <3>3. n \in Nat
      OBVIOUS
    <3>4. /\ memory' = [memory EXCEPT ![c] = new]
          /\ seen' = [seen EXCEPT ![c] = x]
          /\ overshoot' = [overshoot EXCEPT ![c] = n]
          /\ limits' = limits
      BY <2>3 DEF Compute
    <3> HIDE DEF new, x, n
    <3>5. TypeOK'
      BY <3>2, <3>3, <3>4
    <3>6. LimitFromSomeConfiguration'
      BY <3>2, <3>4 DEF Configured
    <3>7. ASSUME NEW k \in Chargers
          PROVE  CountersOf(memory[k], seen[k])' /\ OvershootOf(memory[k], overshoot[k])'
      <4>1. CASE k = c
        BY <3>2, <3>4, <4>1
      <4>2. CASE k # c
        BY <3>4, <4>2
      <4>. QED BY <4>1, <4>2
    <3>. QED BY <3>5, <3>6, <3>7
  <2>. QED BY <2>1, <2>2, <2>3 DEF Next
<1>. QED BY <1>1, <1>2, PTL DEF Spec

\* Type correctness of the calculator.
THEOREM TypeCorrect == Spec => []TypeOK
BY IInvInductive, PTL DEF IInv

\* Every limit the calculator remembers or answers belongs to one of the
\* configurations, however limit changes and computes interleave.
THEOREM LimitConfigured == Spec => []LimitFromSomeConfiguration
BY IInvInductive, PTL DEF IInv

\* An answer that is not the previous one is inside the limits in force.
THEOREM NewLimitsInside == Spec => NewLimitsClamped
<1> DEFINE Inside == \A c \in Chargers : memory'[c].last # memory[c].last =>
                       memory'[c].last \in limits.min .. limits.max
<1>1. IInv /\ [Next]_vars => [Inside]_vars
  <2> SUFFICES ASSUME IInv, Next, NEW k \in Chargers, memory'[k].last # memory[k].last
               PROVE  memory'[k].last \in limits.min .. limits.max
    BY DEF vars
  <2>1. ASSUME NEW b \in Limits, SetLimits(b)
        PROVE  FALSE
    BY <2>1 DEF SetLimits
  <2>2. ASSUME NEW c \in Chargers, NEW s \in Samples, Compute(c, s)
        PROVE  memory'[k].last \in limits.min .. limits.max
    <3> DEFINE d == Debounced(memory[c], Reading(s, limits))
               a == LimitFor(d, s, limits)
    <3>1. s \in Sample /\ limits \in Limits /\ limits \in Bounds
      BY CalculatorAssumption DEF IInv, TypeOK
    <3>2. /\ memory \in [Chargers -> Memory] /\ memory[c] \in Memory
          /\ seen[c] \in Seq(Readings) /\ Len(seen[c]) <= 3 /\ CountersOf(memory[c], seen[c])
      BY DEF IInv, TypeOK
    <3>3. Reading(s, limits) \in Readings
      BY DEF Reading, Readings
    <3>4. d \in Memory /\ d.last = memory[c].last
      BY <3>2, <3>3, DebouncedStep
    <3> HIDE DEF d
    <3>5. k = c /\ memory'[c].last = a
      BY <2>2, <3>2, <3>4 DEF Compute, Computed, Memory, d
    <3>6. a # d.last
      BY <3>4, <3>5
    <3>7. a \in limits.min .. limits.max
      BY <3>1, <3>4, <3>6, LimitInside
    <3>. QED BY <3>5, <3>7
  <2>. QED BY <2>1, <2>2 DEF Next
<1>. QED BY <1>1, IInvInductive, PTL DEF Spec, NewLimitsClamped

\* No charger is told to draw more than the minimum and 2 A or more above the
\* surplus for three computes in a row.
THEOREM OvershootBound == Spec => []OvershootBounded
<1>1. IInv => OvershootBounded
  <2> SUFFICES ASSUME IInv, NEW c \in Chargers PROVE overshoot[c] < StopConfirmTicks
    BY DEF OvershootBounded
  <2>1. memory[c] \in Memory /\ overshoot[c] \in Nat
    BY DEF IInv, TypeOK
  <2>. QED BY <2>1 DEF IInv, CountersOf, OvershootOf, Memory
<1>. QED BY <1>1, IInvInductive, PTL
-----------------------------------------------------------------------------

\* Appending a reading of the kind a streak counts makes the last n + 1
\* readings of that kind; with any other reading, or a shorter streak, they
\* are not.
LEMMA LastAreStreak ==
  ASSUME NEW w \in Seq(Readings), NEW r \in Readings, NEW v \in Readings,
         NEW n \in Nat, NEW k \in Nat \ {0}, Streak(w, n, v)
  PROVE  Debouncer!LastAre(Append(w, r), k, v) <=> r = v /\ k <= n + 1
<1> DEFINE y == Append(w, r)
<1>n. Len(w) \in Nat /\ n <= Len(w)
  BY DEF Streak
<1>y. Len(y) = Len(w) + 1 /\ y[Len(w) + 1] = r /\ \A i \in 1 .. Len(w) : y[i] = w[i]
  <2>1. Len(y) = Len(w) + 1
    OBVIOUS
  <2>2. y[Len(w) + 1] = r
    OBVIOUS
  <2>3. \A i \in 1 .. Len(w) : y[i] = w[i]
    OBVIOUS
  <2>. QED BY <2>1, <2>2, <2>3
<1> HIDE DEF y
<1>z. Debouncer!LastAre(y, k, v) <=>
        Len(y) >= k /\ \A i \in 1 .. k : y[Len(y) + 1 - i] = v
  BY DEF Debouncer!LastAre
<1>1. ASSUME r = v, k <= n + 1
      PROVE  Debouncer!LastAre(y, k, v)
  <2>1. Len(y) >= k
    BY <1>n, <1>y, <1>1
  <2>2. ASSUME NEW i \in 1 .. k
        PROVE  y[Len(y) + 1 - i] = v
    <3>1. CASE i = 1
      <4>1. Len(y) + 1 - i = Len(w) + 1
        BY <3>1, <1>n, <1>y
      <4>. QED BY <4>1, <1>y, <1>1
    <3>2. CASE i > 1
      <4>1. i - 1 \in 1 .. n /\ Len(y) + 1 - i = Len(w) + 1 - (i - 1)
        BY <3>2, <1>n, <1>y, <1>1
      <4>2. w[Len(w) + 1 - (i - 1)] = v
        BY <4>1 DEF Streak
      <4>3. Len(w) + 1 - (i - 1) \in 1 .. Len(w)
        BY <4>1, <1>n
      <4>. QED BY <4>1, <4>2, <4>3, <1>y
    <3>. QED BY <3>1, <3>2
  <2>. QED BY <2>1, <2>2, <1>z
<1>2. ASSUME Debouncer!LastAre(y, k, v)
      PROVE  r = v /\ k <= n + 1
  <2>1. Len(y) >= k /\ \A i \in 1 .. k : y[Len(y) + 1 - i] = v
    BY <1>2, <1>z
  <2>2. r = v
    <3>1. 1 \in 1 .. k /\ Len(y) + 1 - 1 = Len(w) + 1
      BY <1>n, <1>y
    <3>. QED BY <3>1, <2>1, <1>y
  <2>3. ASSUME k > n + 1
        PROVE  FALSE
    <3>1. n + 2 \in 1 .. k /\ n < Len(w)
      BY <2>1, <2>3, <1>n, <1>y
    <3>2. w[Len(w) - n] # v
      BY <3>1 DEF Streak
    <3>3. Len(w) - n \in 1 .. Len(w) /\ Len(y) + 1 - (n + 2) = Len(w) - n
      BY <3>1, <1>n, <1>y
    <3>4. y[Len(w) - n] = v
      BY <2>1, <3>1, <3>3
    <3>. QED BY <3>2, <3>3, <3>4, <1>y
  <2>. QED BY <2>2, <2>3
<1>. QED BY <1>1, <1>2 DEF y

\* The calculator changes its mind exactly when the abstract debouncer does.
LEMMA FlipsAgree ==
  ASSUME NEW m \in Memory, NEW w \in Seq(Readings), NEW r \in Readings, CountersOf(m, w)
  PROVE  LET y == Append(w, r)
             flips == IF m.isStopped THEN Debouncer!LastAre(y, 2, "high")
                      ELSE Debouncer!LastAre(y, 3, "low")
         IN /\ Debounced(m, r).isStopped = (IF flips THEN ~m.isStopped ELSE m.isStopped)
            /\ flips <=> ~(Debounced(m, r).isStopped <=> m.isStopped)
<1>1. m.isStopped \in BOOLEAN /\ m.below \in 0 .. 3 /\ m.above \in 0 .. 2
  BY DEF Memory
<1>2. CASE m.isStopped
  <2>1. m.above < 2 /\ Streak(w, m.above, "high")
    BY <1>2 DEF CountersOf
  <2>2. Debouncer!LastAre(Append(w, r), 2, "high") <=> r = "high" /\ 2 <= m.above + 1
    BY <2>1, <1>1, LastAreStreak DEF Readings
  <2>3. Debounced(m, r).isStopped <=> ~(r = "high" /\ m.above + 1 >= 2)
    BY <1>2 DEF Debounced
  <2>4. Debounced(m, r).isStopped \in BOOLEAN
    BY <1>2 DEF Debounced
  <2>. QED BY <1>1, <1>2, <2>2, <2>3, <2>4
<1>3. CASE ~m.isStopped
  <2>1. m.below < 3 /\ Streak(w, m.below, "low")
    BY <1>3 DEF CountersOf
  <2>2. Debouncer!LastAre(Append(w, r), 3, "low") <=> r = "low" /\ 3 <= m.below + 1
    BY <2>1, <1>1, LastAreStreak DEF Readings
  <2>3. Debounced(m, r).isStopped <=> r = "low" /\ m.below + 1 >= 3
    BY <1>3 DEF Debounced
  <2>4. Debounced(m, r).isStopped \in BOOLEAN
    BY <1>3 DEF Debounced
  <2>. QED BY <1>1, <1>3, <2>2, <2>3, <2>4
<1>. QED BY <1>2, <1>3

\* The calculator implements the abstract debouncer, whatever the samples and
\* however the limits change: SetLimits is a stuttering step of it, Compute
\* one observation.
THEOREM DebouncerImplemented == Spec => ImplementsDebouncer
<1> DEFINE stopped == [c \in Chargers |-> memory[c].isStopped]
<1>1. Init => Debouncer!Init
  BY DEF Init, Debouncer!Init, FreshMemory
<1>2. IInv /\ [Next]_vars => [Debouncer!Next]_(Debouncer!vars)
  <2> SUFFICES ASSUME IInv, [Next]_vars
               PROVE  Debouncer!Next \/ UNCHANGED Debouncer!vars
    OBVIOUS
  <2>1. CASE UNCHANGED vars
    BY <2>1 DEF vars, Debouncer!vars
  <2>2. ASSUME NEW b \in Limits, SetLimits(b)
        PROVE  UNCHANGED Debouncer!vars
    BY <2>2 DEF SetLimits, Debouncer!vars
  <2>3. ASSUME NEW c \in Chargers, NEW s \in Samples, Compute(c, s)
        PROVE  Debouncer!Next
    <3> DEFINE r == Reading(s, limits)
               new == Computed(memory[c], s, limits)
               y == Append(seen[c], r)
               flips == IF memory[c].isStopped THEN Debouncer!LastAre(y, 2, "high")
                        ELSE Debouncer!LastAre(y, 3, "low")
    <3>1. r \in Readings
      BY DEF Reading, Readings
    <3>2. /\ memory[c] \in Memory /\ seen[c] \in Seq(Readings) /\ Len(seen[c]) <= 3
          /\ CountersOf(memory[c], seen[c])
          /\ memory \in [Chargers -> Memory] /\ seen \in [Chargers -> Seq(Readings)]
      BY DEF IInv, TypeOK
    <3>3. new.isStopped = Debounced(memory[c], r).isStopped
      BY DEF Computed, Debounced
    <3>4. /\ new.isStopped = (IF flips THEN ~memory[c].isStopped ELSE memory[c].isStopped)
          /\ flips <=> ~(new.isStopped <=> memory[c].isStopped)
      <4> HIDE DEF r
      <4>. QED BY <3>1, <3>2, <3>3, FlipsAgree
    <3>5. Slide(seen[c], r) = Debouncer!LastThree(y)
      <4>1. Len(y) = Len(seen[c]) + 1 /\ Len(seen[c]) \in Nat
        BY <3>1, <3>2
      <4>. QED BY <3>2, <4>1 DEF Slide, Debouncer!LastThree
    <3>6. /\ memory' = [memory EXCEPT ![c] = new]
          /\ seen' = [seen EXCEPT ![c] = IF new.isStopped <=> memory[c].isStopped
                                          THEN Slide(seen[c], r) ELSE <<>>]
      BY <2>3 DEF Compute
    <3>7. stopped[c] = memory[c].isStopped
      OBVIOUS
    <3> HIDE DEF new, flips
    <3>8. stopped' = [stopped EXCEPT ![c] = IF flips THEN ~stopped[c] ELSE stopped[c]]
      <4>1. stopped' = [k \in Chargers |-> memory'[k].isStopped]
        OBVIOUS
      <4>2. \A k \in Chargers : memory'[k] = IF k = c THEN new ELSE memory[k]
        BY <3>2, <3>6
      <4>. QED BY <4>1, <4>2, <3>4
    <3>9. seen' = [seen EXCEPT ![c] = IF flips THEN <<>> ELSE Debouncer!LastThree(y)]
      BY <3>4, <3>5, <3>6
    <3>10. flips <=> Debouncer!Flips(c, y)
      BY DEF flips, Debouncer!Flips
    <3>11. r \in {"low", "high"}
      BY <3>1 DEF Readings
    <3>12. y = Append(seen[c], r)
      OBVIOUS
    <3> HIDE DEF r, y, stopped
    <3>. QED BY <3>8, <3>9, <3>10, <3>11, <3>12 DEF stopped, Debouncer!Next, Debouncer!Observe
  <2>. QED BY <2>1, <2>2, <2>3 DEF Next
<1>. QED BY <1>1, <1>2, IInvInductive, PTL DEF Spec, ImplementsDebouncer, Debouncer!Spec
=============================================================================
