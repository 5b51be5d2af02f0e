------------------------------ MODULE TempoProofs ------------------------------
(***************************************************************************)
(* A journey lasts as long as the tempo says, for any tempo, poll, number  *)
(* of workers and order of polls: never less (NeverEarly), and never more  *)
(* than three polls more (DelayIsBounded).                                 *)
(*                                                                         *)
(* World time is compared with real time in parts: a minute has Beats of   *)
(* them, a beat has Minutes. No part is ever rounded away.                 *)
(***************************************************************************)
EXTENDS Tempo, WellFoundedInduction, TLAPS

Worth(t) == t * Beats      (* the parts of so many minutes of the world    *)
Gone(n) == n * Minutes     (* the parts of so many beats                    *)

(* The clock of a worker: now, and when it last polled.                    *)
Clock(k) == Worth(k.anchor) + Gone(k.elapsed)
LastClock(k) == Clock(k) - Gone(Poll - k.sleep)

(* What its clock will be at the next poll, carried back to now: a worker  *)
(* that was idle will begin from the moment at which it was.               *)
Reckoned(k) == IF k.idle = None THEN Clock(k) ELSE Worth(k.idle) - Gone(k.sleep)

(* The hour an action was stamped with.                                    *)
Stamped(p) == p.due - p.length

-----------------------------------------------------------------------------
(* Arithmetic.                                                             *)
LEMMA Parts ==
  /\ Beats \in Nat \ {0} /\ Minutes \in Nat \ {0} /\ Poll \in Nat \ {0}
  /\ Poll * Minutes \in Nat \ {0}
<1>1. Beats \in Nat \ {0} /\ Minutes \in Nat \ {0} /\ Poll \in Nat \ {0}
  BY TempoAssumption
<1>2. ASSUME NEW a \in Nat \ {0}, NEW b \in Nat \ {0} PROVE a * b \in Nat \ {0}
  <2>1. a * b > 0
    BY <1>2
  <2>2. QED
    BY <2>1
<1>3. QED
  BY <1>1, <1>2

LEMMA Quotient ==
  ASSUME NEW a \in Nat, NEW b \in Nat \ {0}
  PROVE  /\ a \div b \in Nat
         /\ (a \div b) * b <= a /\ a < (a \div b) * b + b
  OBVIOUS

LEMMA LeastOf ==
  ASSUME NEW S \in SUBSET Nat, S # {}
  PROVE  \E n \in S : \A m \in S : n <= m
<1>1. \E m \in S : \A n \in S : <<n, m>> \notin OpToRel(<, Nat)
  BY NatLessThanWellFounded, WFMin
<1>2. PICK m \in S : \A n \in S : <<n, m>> \notin OpToRel(<, Nat)
  BY <1>1
<1>3. ASSUME NEW n \in S PROVE m <= n
  <2>1. ~(n < m)
    BY <1>2 DEF OpToRel
  <2>2. QED
    BY <2>1
<1>4. QED
  BY <1>3

LEMMA Products ==
  ASSUME NEW a \in Int, NEW b \in Int, NEW c \in Nat \ {0}
  PROVE  /\ a * c \in Int /\ 0 * c = 0 /\ 1 * c = c /\ (a \in Nat => a * c \in Nat)
         /\ a <= b => a * c <= b * c
         /\ a < b => a * c + c <= b * c
         /\ a * c < b * c => a < b
         /\ (a + b) * c = a * c + b * c
         /\ (a - b) * c = a * c - b * c
  OBVIOUS

LEMMA WorthIs ==
  /\ Worth(0) = 0
  /\ \A a \in Int : Worth(a) \in Int
  /\ \A a \in Nat : Worth(a) \in Nat
<1>1. Beats \in Nat \ {0}
  BY Parts
<1>2. QED
  BY <1>1, Products DEF Worth

LEMMA WorthOf ==
  ASSUME NEW a \in Int, NEW b \in Int
  PROVE  /\ a <= b => Worth(a) <= Worth(b)
         /\ a < b => Worth(a) + Beats <= Worth(b)
         /\ Worth(a) < Worth(b) => a < b
         /\ Worth(a + b) = Worth(a) + Worth(b)
         /\ Worth(a - b) = Worth(a) - Worth(b)
<1>1. Beats \in Nat \ {0}
  BY Parts
<1>2. QED
  BY <1>1, Products DEF Worth

LEMMA GoneIs ==
  /\ Gone(0) = 0 /\ Gone(1) = Minutes
  /\ \A a \in Int : Gone(a) \in Int
  /\ \A a \in Nat : Gone(a) \in Nat
<1>1. Minutes \in Nat \ {0}
  BY Parts
<1>2. QED
  BY <1>1, Products DEF Gone

LEMMA GoneOf ==
  ASSUME NEW a \in Int, NEW b \in Int
  PROVE  /\ a <= b => Gone(a) <= Gone(b)
         /\ Gone(a + b) = Gone(a) + Gone(b)
         /\ Gone(a - b) = Gone(a) - Gone(b)
<1>1. Minutes \in Nat \ {0}
  BY Parts
<1>2. QED
  BY <1>1, Products DEF Gone

-----------------------------------------------------------------------------
(* The types.                                                              *)
WorkerType ==
  [up : BOOLEAN, anchor : Nat, elapsed : Nat, idle : Nat \cup {None}, sleep : 0 .. Poll]

ActionType == [due : Nat, length : Nat, age : 0 .. MaxElapsed, quiet : BOOLEAN]

Typed ==
  /\ time \in Nat /\ observed \in Nat
  /\ pending \subseteq ActionType /\ worker \in [Workers -> WorkerType]
  /\ rested \subseteq Workers

LEMMA WholeMinutes ==
  ASSUME NEW a \in Nat, NEW e \in Nat
  PROVE  LET h == a + (e * Minutes) \div Beats
             c == Worth(a) + Gone(e)
         IN h \in Nat /\ c \in Nat /\ Worth(h) <= c /\ c < Worth(h) + Beats
<1>1. e * Minutes \in Nat /\ Gone(e) = e * Minutes /\ Worth(a) \in Nat
  BY GoneIs, WorthIs DEF Gone
<1>2. PICK q \in Nat : /\ q = (e * Minutes) \div Beats
                      /\ q * Beats <= e * Minutes /\ e * Minutes < q * Beats + Beats
  BY <1>1, Parts, Quotient
<1>3. Worth(q) = q * Beats
  BY DEF Worth
<1>4. Worth(q) \in Nat /\ a + q \in Nat
  BY WorthIs
<1>5. Worth(a + q) = Worth(a) + Worth(q)
  BY WorthOf
<1>6. QED
  BY <1>1, <1>2, <1>3, <1>4, <1>5, Parts

LEMMA HorizonType ==
  ASSUME NEW k \in WorkerType
  PROVE  /\ Horizon(k) \in Nat /\ Clock(k) \in Nat
         /\ Worth(Horizon(k)) <= Clock(k) /\ Clock(k) < Worth(Horizon(k)) + Beats
<1>1. k.anchor \in Nat /\ k.elapsed \in Nat
  BY DEF WorkerType
<1>2. QED
  BY <1>1, WholeMinutes, Zenon DEF Horizon, Clock

(* A horizon is rounded down, and that disturbs no comparison.             *)
LEMMA HorizonReaches ==
  ASSUME NEW k \in WorkerType, NEW t \in Int
  PROVE  t <= Horizon(k) <=> Worth(t) <= Clock(k)
<1> DEFINE h == Horizon(k)
<1>1. /\ h \in Nat /\ Clock(k) \in Nat
      /\ Worth(h) <= Clock(k) /\ Clock(k) < Worth(h) + Beats
  BY HorizonType
<1> HIDE DEF h
<1>2. Worth(h) \in Int /\ Worth(t) \in Int /\ Beats \in Int /\ h \in Int
  BY <1>1, Parts, WorthIs
<1>3. /\ t <= h => Worth(t) <= Worth(h)
      /\ h < t => Worth(h) + Beats <= Worth(t)
  BY <1>2, WorthOf
<1>4. QED
  BY <1>1, <1>2, <1>3 DEF h

(* What the clocks of a worker have to do with each other.                 *)
LEMMA Clocks ==
  ASSUME NEW k \in WorkerType
  PROVE  /\ Clock(k) \in Int /\ LastClock(k) \in Int /\ Reckoned(k) \in Int
         /\ k.idle = None =>
              /\ Reckoned(k) = Clock(k) /\ Clock(k) <= LastClock(k) + Gone(Poll)
              /\ k.sleep = Poll => LastClock(k) = Clock(k)
              /\ k.sleep = 0 => LastClock(k) = Clock(k) - Gone(Poll)
         /\ k.idle # None =>
              /\ k.idle \in Nat /\ Worth(k.idle) \in Nat /\ Reckoned(k) <= Worth(k.idle)
              /\ k.sleep = Poll => Reckoned(k) = Worth(k.idle) - Gone(Poll)
              /\ k.sleep = 0 => Reckoned(k) = Worth(k.idle)
<1>1. /\ k.sleep \in 0 .. Poll /\ Clock(k) \in Nat
      /\ k.idle # None => k.idle \in Nat
  BY HorizonType DEF WorkerType
<1>2. PICK s \in 0 .. Poll : s = k.sleep
  BY <1>1
<1>3. Poll \in Int /\ s \in Int /\ Poll \in Nat /\ s \in Nat
  BY Parts
<1>4. Gone(Poll - s) = Gone(Poll) - Gone(s)
  BY <1>3, GoneOf
<1>5. /\ Gone(s) \in Nat /\ Gone(Poll) \in Nat /\ Gone(Poll - s) = Gone(Poll) - Gone(s)
      /\ s = 0 => Gone(s) = 0
  BY <1>3, <1>4, GoneIs
<1>6. LastClock(k) = Clock(k) - Gone(Poll - s)
  BY <1>2 DEF LastClock
<1>7. CASE k.idle = None
  BY <1>1, <1>2, <1>5, <1>6, <1>7 DEF Reckoned
<1>8. CASE k.idle # None
  <2>1. PICK i \in Nat : i = k.idle
    BY <1>1, <1>8
  <2>2. Worth(i) \in Nat
    BY WorthIs
  <2>3. QED
    BY <1>1, <1>2, <1>5, <1>6, <1>8, <2>1, <2>2 DEF Reckoned
<1>9. QED
  BY <1>7, <1>8

(* What a step serves, and what it leaves.                                 *)
LEMMA Served ==
  ASSUME Typed, NEW h \in Nat, Serve(h)
  PROVE  /\ time' \in Nat /\ observed' \in Nat /\ time <= time'
         /\ observed <= observed' /\ h <= observed' /\ observed' \in {observed, h}
         /\ pending' \subseteq pending /\ \A p \in pending' : h < p.due
         /\ \A p \in pending \ pending' : p.due <= h /\ p.due <= time'
         /\ time' = time \/ (\E p \in pending \ pending' : time' = p.due)
         /\ time' = time \/ time' <= h
<1> DEFINE dues == {time} \cup {p.due : p \in Due(h)}
           top == Later(time, h)
<1>1. dues \subseteq Nat /\ top \in Nat /\ \A d \in dues : d <= top
  BY DEF Typed, ActionType, Due, Later
<1>2. \E d \in dues : \A e \in dues : d >= e
  <2> DEFINE rests == {top - d : d \in dues}
  <2>1. rests \subseteq Nat /\ rests # {}
    <3>1. ASSUME NEW d \in dues PROVE top - d \in Nat
      <4>1. d \in Nat /\ top \in Nat /\ d <= top
        BY <1>1
      <4> HIDE DEF dues, top
      <4>2. QED
        BY <4>1
    <3>2. QED
      BY <3>1
  <2>2. PICK r \in rests : \A n \in rests : r <= n
    <3> HIDE DEF rests
    <3>1. QED
      BY <2>1, LeastOf
  <2>3. PICK d \in dues : r = top - d
    BY <2>2
  <2>4. ASSUME NEW e \in dues PROVE d >= e
    <3>1. top - d <= top - e
      BY <2>2, <2>3
    <3>2. d \in Nat /\ e \in Nat
      BY <1>1
    <3> HIDE DEF dues, top
    <3>3. QED
      BY <1>1, <3>1, <3>2
  <2>5. QED
    BY <2>4
<1>3. time' = CHOOSE d \in dues : \A e \in dues : d >= e
  BY DEF Serve, Max
<1>4. time' \in dues /\ \A e \in dues : time' >= e
  <2> HIDE DEF dues
  <2>1. QED
    BY <1>2, <1>3
<1>5. pending' = pending \ Due(h) /\ observed' = Later(observed, h)
  BY DEF Serve
<1>6. \A p \in Due(h) : p.due <= h /\ p.due <= time'
  BY <1>4 DEF Due
<1>7. QED
  BY <1>1, <1>4, <1>5, <1>6 DEF Due, Later, Typed, ActionType

(* What a step makes of the worker that takes it.                          *)
Polled(w, k) ==
  /\ k \in WorkerType /\ k.up /\ k.idle = None /\ k.sleep = 0
  /\ worker[w].up /\ worker[w].sleep = 0
  /\ Clock(k) = Reckoned(worker[w])

LEMMA AnchoredIs ==
  ASSUME NEW k \in WorkerType, k.idle # None
  PROVE  /\ Anchored(k) \in WorkerType /\ Anchored(k).up = k.up
         /\ Anchored(k).anchor = k.idle /\ Anchored(k).elapsed = 0
         /\ Anchored(k).idle = None /\ Anchored(k).sleep = k.sleep
<1> DEFINE a == [k EXCEPT !.anchor = k.idle, !.elapsed = 0, !.idle = None]
<1>1. k.idle \in Nat
  BY DEF WorkerType
<1>2. /\ a \in WorkerType /\ a.up = k.up /\ a.anchor = k.idle /\ a.elapsed = 0
      /\ a.idle = None /\ a.sleep = k.sleep
  BY <1>1 DEF WorkerType
<1>3. Anchored(k) = a
  BY DEF Anchored
<1>4. QED
  BY <1>2, <1>3, Zenon

LEMMA AnchoredPolled ==
  ASSUME Typed, NEW w \in Workers, worker[w].up, worker[w].sleep = 0
  PROVE  Polled(w, Anchored(worker[w]))
<1>1. worker[w] \in WorkerType
  BY DEF Typed
<1>2. CASE worker[w].idle = None
  BY <1>1, <1>2 DEF Anchored, Polled, Reckoned
<1>3. CASE worker[w].idle # None
  <2> DEFINE k == Anchored(worker[w])
  <2>1. /\ k \in WorkerType /\ k.up /\ k.idle = None /\ k.sleep = 0
        /\ k.anchor = worker[w].idle /\ k.elapsed = 0
    BY <1>1, <1>3, AnchoredIs
  <2>2. worker[w].idle \in Nat
    BY <1>1, <1>3 DEF WorkerType
  <2> HIDE DEF k
  <2>3. Clock(k) = Worth(worker[w].idle)
    BY <2>1, <2>2, WorthIs, GoneIs DEF Clock
  <2>4. Reckoned(worker[w]) = Worth(worker[w].idle)
    BY <1>1, <1>3, Clocks
  <2>5. QED
    BY <2>1, <2>3, <2>4 DEF Polled, k
<1>4. QED
  BY <1>2, <1>3

(* A step is refused, or serves what is due.                               *)
Refused(w, k) ==
  /\ Horizon(k) < time /\ UNCHANGED world
  /\ rested' = rested \ {w}
  /\ worker' = [worker EXCEPT ![w] = [k EXCEPT !.sleep = Poll]]

Granted(w, k) ==
  /\ time <= Horizon(k) /\ Serve(Horizon(k))
  /\ rested' = IF pending' = {} THEN rested \cup {w} ELSE rested \ {w}
  /\ worker' = [worker EXCEPT ![w] =
       [k EXCEPT !.idle = IF pending' = {} THEN time' ELSE None, !.sleep = Poll]]

LEMMA RememberIs ==
  ASSUME NEW k \in WorkerType, k.idle = None, NEW idle \in BOOLEAN
  PROVE  Remember(k, idle) = [k EXCEPT !.idle = IF idle THEN time' ELSE None, !.sleep = Poll]
BY DEF Remember, WorkerType

LEMMA StepIs ==
  ASSUME Typed, NEW w \in Workers, Step(w)
  PROVE  \E k \in WorkerType :
           /\ Polled(w, k) /\ (Refused(w, k) \/ Granted(w, k))
           /\ UNCHANGED <<orders, faults, troubles>>
<1> DEFINE k == Anchored(worker[w])
<1>1. Polled(w, k)
  BY AnchoredPolled DEF Step
<1>2. Horizon(k) \in Nat /\ time \in Nat /\ k \in WorkerType /\ k.idle = None
  BY <1>1, HorizonType DEF Polled, Typed
<1>3. /\ UNCHANGED <<orders, faults, troubles>>
      /\ IF Horizon(k) < time
         THEN /\ worker' = [worker EXCEPT ![w] = [k EXCEPT !.sleep = Poll]]
              /\ rested' = rested \ {w} /\ UNCHANGED world
         ELSE /\ Serve(Horizon(k))
              /\ rested' = IF pending' = {} THEN rested \cup {w} ELSE rested \ {w}
              /\ worker' = [worker EXCEPT ![w] = Remember(k, Idle(Horizon(k)))]
  BY Zenon DEF Step
<1> HIDE DEF k
<1>4. CASE Horizon(k) < time
  <2>1. Refused(w, k)
    BY <1>3, <1>4, Zenon DEF Refused
  <2>2. QED
    BY <1>1, <1>2, <1>3, <2>1, Zenon
<1>5. CASE ~(Horizon(k) < time)
  <2>1. Remember(k, Idle(Horizon(k))) =
          [k EXCEPT !.idle = IF pending' = {} THEN time' ELSE None, !.sleep = Poll]
    BY <1>2, RememberIs, Zenon DEF Idle
  <2>2. time <= Horizon(k)
    BY <1>2, <1>5
  <2>3. Granted(w, k)
    BY <1>3, <1>5, <2>1, <2>2, Zenon DEF Granted
  <2>4. QED
    BY <1>1, <1>2, <1>3, <2>3, Zenon
<1>6. QED
  BY <1>4, <1>5

-----------------------------------------------------------------------------
(* What keeps the world and the workers together. Nothing is due that the  *)
(* world has seen, and who waits for the next poll has granted what is     *)
(* observed.                                                               *)
Waiting(p) == observed < p.due /\ p.length <= p.due /\ p.length \in Lengths \cup Planned

Granting(k) ==
  /\ k.idle = None => LastClock(k) < Worth(observed) + Beats
  /\ k.idle # None => k.idle <= time

Common ==
  /\ time <= observed
  /\ \A p \in pending : Waiting(p)
  /\ \A w \in Workers : Granting(worker[w])
  /\ \A w \in rested : worker[w].up /\ worker[w].idle # None

(* A worker is not behind, neither the world nor another worker nor what   *)
(* waits, by more than two polls.                                          *)
Behind(t, k) == t <= Reckoned(k) + 2 * Gone(Poll)

(* Where nothing waits, a worker that goes on has not granted what comes   *)
(* after the last moment, and at most a poll of that was observed.         *)
AtRest ==
  /\ Worth(observed) <= Worth(time) + Gone(Poll)
  /\ \A w \in Workers : worker[w].idle = None => LastClock(worker[w]) < Worth(time)

Delay ==
  /\ Up = Workers
  /\ pending = {} => AtRest
  /\ \A w \in Workers :
       /\ Behind(Worth(observed), worker[w])
       /\ \A v \in Workers : Behind(Reckoned(worker[v]), worker[w])
       /\ \A p \in pending : Behind(Worth(Stamped(p)) + Gone(p.age), worker[w])
  /\ Workers = {} => \A p \in pending : p.age = 0

(* No clock is ahead of what real time has earned an action since it was   *)
(* stamped, but for the minute and the poll by which the stamp may lag.    *)
Earned(p) ==
  Worth(Stamped(p)) + Gone(p.age) + (IF p.quiet THEN 0 ELSE Beats + Gone(Poll))

Early ==
  \A p \in pending : p.age < MaxElapsed =>
     /\ Worth(observed) <= Earned(p)
     /\ \A w \in Up : Reckoned(worker[w]) <= Earned(p)

Restarts == troubles \subseteq {"restart"}

Inv ==
  /\ Typed
  /\ Restarts => Common /\ Early
  /\ troubles = {} => Delay

-----------------------------------------------------------------------------
(* A beat.                                                                 *)
Older(p, q) ==
  /\ q.due = p.due /\ q.length = p.length /\ q.quiet = p.quiet
  /\ q.age \in {p.age, p.age + 1} /\ (q.age < MaxElapsed => q.age = p.age + 1)

LEMMA BeatPending ==
  ASSUME Typed, Beat
  PROVE  /\ pending' \subseteq ActionType
         /\ pending' = {} => pending = {}
         /\ \A q \in pending' : \E p \in pending : Older(p, q)
<1> DEFINE Aged(p) == [p EXCEPT !.age = IF @ < MaxElapsed THEN @ + 1 ELSE @]
<1>1. pending' = {Aged(p) : p \in pending}
  BY Zenon DEF Beat
<1>2. ASSUME NEW p \in ActionType PROVE Aged(p) \in ActionType /\ Older(p, Aged(p))
  <2>1. p.age \in 0 .. MaxElapsed /\ MaxElapsed \in Nat
    BY TempoAssumption DEF ActionType
  <2>2. CASE p.age < MaxElapsed
    <3>1. Aged(p) = [p EXCEPT !.age = p.age + 1]
      BY <2>2
    <3>2. QED
      BY <2>1, <2>2, <3>1 DEF ActionType, Older
  <2>3. CASE ~(p.age < MaxElapsed)
    <3>1. Aged(p) = [p EXCEPT !.age = p.age]
      BY <2>3
    <3>2. QED
      BY <2>1, <2>3, <3>1 DEF ActionType, Older
  <2>4. QED
    BY <2>2, <2>3
<1> HIDE DEF Aged
<1>3. QED
  BY <1>1, <1>2 DEF Typed

Ticked(k, l) ==
  /\ l.up = k.up /\ l.anchor = k.anchor /\ l.idle = k.idle
  /\ ~k.up => l = k
  /\ k.up => l.elapsed = k.elapsed + 1 /\ l.sleep = IF k.sleep = 0 THEN 0 ELSE k.sleep - 1

LEMMA BeatWorkers ==
  ASSUME Typed, Beat
  PROVE  /\ worker' \in [Workers -> WorkerType]
         /\ \A w \in Workers : Ticked(worker[w], worker'[w])
<1> DEFINE Tick(k) == [k EXCEPT !.elapsed = @ + 1, !.sleep = IF @ = 0 THEN 0 ELSE @ - 1]
<1>1. worker' = [w \in Workers |-> IF w \notin Up THEN worker[w] ELSE Tick(worker[w])]
  BY Zenon DEF Beat
<1>2. \A w \in Workers : w \in Up <=> worker[w].up
  BY DEF Up
<1>3. ASSUME NEW k \in WorkerType
      PROVE  Tick(k) \in WorkerType /\ (k.up => Ticked(k, Tick(k)))
  <2>1. k.sleep \in 0 .. Poll /\ Poll \in Nat /\ k.elapsed \in Nat
    BY Parts DEF WorkerType
  <2>2. PICK s \in 0 .. Poll : s = IF k.sleep = 0 THEN 0 ELSE k.sleep - 1
    BY <2>1
  <2>3. PICK e \in Nat : e = k.elapsed + 1
    BY <2>1
  <2>4. PICK l : l = Tick(k)
    OBVIOUS
  <2>5. l = [k EXCEPT !.elapsed = e, !.sleep = s]
    BY <2>2, <2>3, <2>4
  <2>6. /\ l \in WorkerType /\ l.elapsed = e /\ l.sleep = s
        /\ l.up = k.up /\ l.anchor = k.anchor /\ l.idle = k.idle
    BY <2>5 DEF WorkerType
  <2>7. l \in WorkerType /\ (k.up => Ticked(k, l))
    BY <2>2, <2>3, <2>6 DEF Ticked
  <2>8. QED
    BY <2>4, <2>7, Zenon
<1>4. ASSUME NEW k \in WorkerType PROVE ~k.up => Ticked(k, k)
  BY DEF Ticked
<1> HIDE DEF Tick
<1>5. QED
  BY <1>1, <1>2, <1>3, <1>4 DEF Typed

(* In a beat in which nobody is late every clock goes by a beat.           *)
LEMMA TickedClocks ==
  ASSUME NEW k \in WorkerType, NEW l \in WorkerType, Ticked(k, l), k.up, k.sleep # 0
  PROVE  LastClock(l) = LastClock(k) /\ Reckoned(l) = Reckoned(k) + Minutes
<1>1. PICK s \in 1 .. Poll : k.sleep = s /\ l.sleep = s - 1
  BY DEF WorkerType, Ticked
<1>2. PICK e \in Nat : k.elapsed = e /\ l.elapsed = e + 1
  BY DEF WorkerType, Ticked
<1>3. l.idle = k.idle /\ l.anchor = k.anchor
  BY DEF Ticked
<1>4. /\ e \in Int /\ 1 \in Int /\ Poll \in Int /\ s \in Int /\ s - 1 \in Int
      /\ Poll - s \in Int /\ (Poll - s) + 1 = Poll - (s - 1)
  BY Parts
<1>5. /\ Gone(e + 1) = Gone(e) + Gone(1) /\ Gone(s - 1) = Gone(s) - Gone(1)
      /\ Gone((Poll - s) + 1) = Gone(Poll - s) + Gone(1)
  BY <1>4, GoneOf
<1>6. /\ Gone(1) = Minutes /\ Minutes \in Int /\ Gone(e) \in Int /\ Gone(s) \in Int
      /\ Gone(Poll - s) \in Int
  BY <1>4, GoneIs, Parts
<1>7. Worth(k.anchor) \in Int /\ (k.idle # None => Worth(k.idle) \in Int)
  BY WorthIs DEF WorkerType
<1>8. Clock(k) = Worth(k.anchor) + Gone(e) /\ Clock(l) = Worth(k.anchor) + Gone(e + 1)
  BY <1>2, <1>3 DEF Clock
<1>9. /\ LastClock(k) = Clock(k) - Gone(Poll - s)
      /\ LastClock(l) = Clock(l) - Gone((Poll - s) + 1)
  BY <1>1, <1>4 DEF LastClock
<1>10. /\ Reckoned(k) = IF k.idle = None THEN Clock(k) ELSE Worth(k.idle) - Gone(s)
       /\ Reckoned(l) = IF k.idle = None THEN Clock(l) ELSE Worth(k.idle) - Gone(s - 1)
  BY <1>1, <1>3 DEF Reckoned
<1>11. QED
  BY <1>5, <1>6, <1>7, <1>8, <1>9, <1>10

(* What a beat changes of an action and of a clock.                        *)
LEMMA OlderIs ==
  ASSUME NEW p \in ActionType, NEW q \in ActionType, Older(p, q)
  PROVE  /\ Stamped(q) = Stamped(p) /\ (Waiting(p) => Waiting(q))
         /\ Worth(Stamped(p)) \in Int /\ Gone(p.age) \in Int /\ Gone(q.age) \in Int
         /\ Earned(p) \in Int /\ Earned(q) \in Int
         /\ Gone(q.age) <= Gone(p.age) + Minutes
         /\ q.age < MaxElapsed => p.age < MaxElapsed /\ Earned(q) = Earned(p) + Minutes
<1>1. /\ q.due = p.due /\ q.length = p.length /\ q.quiet = p.quiet /\ q.quiet \in BOOLEAN
      /\ p.due \in Nat /\ p.length \in Nat
  BY DEF Older, ActionType
<1>2. PICK a \in Nat : a = p.age
  BY DEF ActionType
<1>3. PICK b \in {a, a + 1} : b = q.age
  BY <1>2 DEF Older
<1>4. /\ a \in Int /\ 1 \in Int /\ MaxElapsed \in Nat /\ (b < MaxElapsed => b = a + 1)
      /\ b \in Nat
  BY <1>2, <1>3, TempoAssumption DEF Older
<1>5. Gone(a + 1) = Gone(a) + Gone(1)
  BY <1>4, GoneOf
<1>6. /\ Gone(1) = Minutes /\ Gone(a) \in Int /\ Gone(b) \in Int /\ Minutes \in Nat
      /\ Gone(Poll) \in Int /\ Beats \in Int
  BY <1>4, GoneIs, Parts
<1>7. Stamped(q) = Stamped(p) /\ Stamped(p) \in Int
  BY <1>1 DEF Stamped
<1>8. Worth(Stamped(p)) \in Int
  BY <1>7, WorthIs
<1>9. PICK lag \in Int : lag = IF p.quiet THEN 0 ELSE Beats + Gone(Poll)
  BY <1>1, <1>6
<1>10. /\ Earned(p) = Worth(Stamped(p)) + Gone(a) + lag
       /\ Earned(q) = Worth(Stamped(p)) + Gone(b) + lag
  BY <1>1, <1>2, <1>3, <1>7, <1>9 DEF Earned
<1>11. Waiting(p) => Waiting(q)
  BY <1>1 DEF Waiting
<1>12. QED
  BY <1>2, <1>3, <1>4, <1>5, <1>6, <1>7, <1>8, <1>10, <1>11

LEMMA BeatTyped ==
  ASSUME Typed, Beat
  PROVE  Typed' /\ UNCHANGED <<time, observed, orders, rested>> /\ Up' = Up /\ Up # {}
<1>1. UNCHANGED <<time, observed, orders, rested>> /\ Up # {}
  BY DEF Beat
<1>2. Up' = Up
  BY BeatWorkers DEF Up, Ticked
<1>3. QED
  BY <1>1, <1>2, BeatPending, BeatWorkers DEF Typed

(* Nobody is late: whoever is up sleeps on.                                *)
LEMMA PassClocks ==
  ASSUME Typed, Pass, NEW w \in Workers
  PROVE  /\ worker[w] \in WorkerType /\ worker'[w] \in WorkerType
         /\ worker'[w].up = worker[w].up /\ worker'[w].idle = worker[w].idle
         /\ LastClock(worker'[w]) = LastClock(worker[w])
         /\ w \in Up => Reckoned(worker'[w]) = Reckoned(worker[w]) + Minutes
<1>1. /\ Beat /\ \A v \in Up : worker[v].sleep # 0
  BY DEF Pass, Overdue
<1>2. /\ Ticked(worker[w], worker'[w])
      /\ worker[w] \in WorkerType /\ worker'[w] \in WorkerType
  BY <1>1, BeatWorkers DEF Typed
<1>3. CASE w \in Up
  <2>1. worker[w].up /\ worker[w].sleep # 0
    BY <1>1, <1>3 DEF Up
  <2>2. QED
    BY <1>2, <2>1, TickedClocks DEF Ticked
<1>4. CASE w \notin Up
  BY <1>2, <1>4 DEF Up, Ticked
<1>5. QED
  BY <1>3, <1>4

LEMMA PassCommon ==
  ASSUME Typed, Pass, Common
  PROVE  Common'
<1>1. Beat
  BY DEF Pass
<1>2. UNCHANGED <<time, observed, rested>>
  BY <1>1, BeatTyped
<1>3. ASSUME NEW q \in pending' PROVE Waiting(q)'
  <2>1. PICK p \in pending : Older(p, q)
    BY <1>1, BeatPending
  <2>2. p \in ActionType /\ q \in ActionType
    BY <1>1, BeatPending DEF Typed
  <2>3. Waiting(q)
    BY <2>1, <2>2, OlderIs DEF Common
  <2>4. QED
    BY <1>2, <2>3 DEF Waiting
<1>4. ASSUME NEW w \in Workers PROVE Granting(worker[w])'
  BY <1>2, PassClocks DEF Common, Granting
<1>5. \A w \in rested' : worker'[w].up /\ worker'[w].idle # None
  BY <1>2, PassClocks DEF Common, Typed
<1>6. QED
  BY <1>2, <1>3, <1>4, <1>5 DEF Common

LEMMA PassEarly ==
  ASSUME Typed, Pass, Early
  PROVE  Early'
<1>1. Beat
  BY DEF Pass
<1>2. UNCHANGED observed /\ Up' = Up /\ Worth(observed) \in Int /\ Minutes \in Nat
  BY <1>1, BeatTyped, WorthIs, Parts DEF Typed
<1>3. SUFFICES ASSUME NEW q \in pending', q.age < MaxElapsed
               PROVE  /\ Worth(observed) <= Earned(q)
                      /\ \A w \in Up : Reckoned(worker'[w]) <= Earned(q)
  BY <1>2 DEF Early
<1>4. PICK p \in pending : Older(p, q)
  BY <1>1, BeatPending
<1>5. p \in ActionType /\ q \in ActionType
  BY <1>1, BeatPending DEF Typed
<1>6. /\ Earned(p) \in Int /\ Earned(q) = Earned(p) + Minutes
      /\ p.age < MaxElapsed
  BY <1>3, <1>4, <1>5, OlderIs
<1>7. ASSUME NEW w \in Up PROVE Reckoned(worker'[w]) <= Earned(q)
  <2>1. w \in Workers
    BY DEF Up
  <2>2. Reckoned(worker[w]) \in Int /\ Reckoned(worker'[w]) = Reckoned(worker[w]) + Minutes
    BY <2>1, PassClocks, Clocks
  <2>3. Reckoned(worker[w]) <= Earned(p)
    BY <1>4, <1>6 DEF Early
  <2>4. QED
    BY <1>2, <1>6, <2>2, <2>3
<1>8. Worth(observed) <= Earned(p)
  BY <1>4, <1>6 DEF Early
<1>9. QED
  BY <1>2, <1>6, <1>7, <1>8

LEMMA PassDelay ==
  ASSUME Typed, Pass, Delay
  PROVE  Delay'
<1>1. Beat
  BY DEF Pass
<1>2. /\ UNCHANGED <<time, observed>> /\ Up' = Up /\ Up # {} /\ Worth(observed) \in Int
      /\ Minutes \in Nat /\ Gone(Poll) \in Int /\ Up = Workers
  BY <1>1, BeatTyped, WorthIs, GoneIs, Parts DEF Typed, Delay
<1>3. ASSUME pending' = {} PROVE AtRest'
  <2>1. AtRest
    BY <1>1, <1>3, BeatPending DEF Delay
  <2>2. QED
    BY <1>2, <2>1, PassClocks DEF AtRest
<1>4. ASSUME NEW w \in Workers
      PROVE  Reckoned(worker[w]) \in Int /\ Reckoned(worker'[w]) = Reckoned(worker[w]) + Minutes
  BY <1>2, PassClocks, Clocks
<1>5. ASSUME NEW w \in Workers
      PROVE  /\ Behind(Worth(observed), worker'[w])
             /\ \A v \in Workers : Behind(Reckoned(worker'[v]), worker'[w])
  BY <1>2, <1>4 DEF Delay, Behind
<1>6. ASSUME NEW w \in Workers, NEW q \in pending'
      PROVE  Behind(Worth(Stamped(q)) + Gone(q.age), worker'[w])
  <2>1. PICK p \in pending : Older(p, q)
    BY <1>1, BeatPending
  <2>2. p \in ActionType /\ q \in ActionType
    BY <1>1, BeatPending DEF Typed
  <2>3. Behind(Worth(Stamped(p)) + Gone(p.age), worker[w])
    BY DEF Delay
  <2>4. /\ Stamped(q) = Stamped(p) /\ Worth(Stamped(p)) \in Int
        /\ Gone(p.age) \in Int /\ Gone(q.age) \in Int /\ Gone(q.age) <= Gone(p.age) + Minutes
    BY <2>1, <2>2, OlderIs
  <2>5. QED
    BY <1>2, <1>4, <2>3, <2>4 DEF Behind
<1>7. Delay'
  <2>1. Workers # {}
    BY <1>2
  <2>2. QED
    BY <1>2, <1>3, <1>5, <1>6, <2>1 DEF Delay, Behind, Stamped
<1>8. QED
  BY <1>7

-----------------------------------------------------------------------------
(* The step of a worker: what it leaves of the others and of itself.       *)
LEMMA StepTyped ==
  ASSUME Typed, NEW w \in Workers, NEW k \in WorkerType, Polled(w, k),
         Refused(w, k) \/ Granted(w, k)
  PROVE  /\ Typed' /\ Up' = Up
         /\ \A v \in Workers \ {w} : worker'[v] = worker[v]
         /\ worker'[w].sleep = Poll
         /\ \/ worker'[w].idle = None /\ LastClock(worker'[w]) = Clock(k)
            \/ /\ pending' = {} /\ Granted(w, k) /\ worker'[w].idle = time'
               /\ Reckoned(worker'[w]) = Worth(time') - Gone(Poll)
         /\ worker'[w].idle = None => Reckoned(worker'[w]) = Reckoned(worker[w])
         /\ Granted(w, k) /\ pending' = {} => worker'[w].idle # None
<1>1. PICK i \in Nat \cup {None} :
        /\ worker' = [worker EXCEPT ![w] = [k EXCEPT !.idle = i, !.sleep = Poll]]
        /\ i = None \/ (i = time' /\ pending' = {} /\ Granted(w, k))
        /\ Granted(w, k) /\ pending' = {} => i # None
  <2>1. CASE Refused(w, k)
    <3>0. ~Granted(w, k)
      BY <2>1, HorizonType DEF Refused, Granted, Typed
    <3>1. k = [k EXCEPT !.idle = None]
      BY DEF Polled, WorkerType
    <3>2. worker' = [worker EXCEPT ![w] = [k EXCEPT !.idle = None, !.sleep = Poll]]
      BY <2>1, <3>1, Zenon DEF Refused
    <3>3. QED
      BY <3>0, <3>2
  <2>2. CASE Granted(w, k)
    <3>1. time' \in Nat /\ time' # None
      BY <2>2, HorizonType, Served, TempoAssumption DEF Granted
    <3>2. CASE pending' = {}
      <4>1. worker' = [worker EXCEPT ![w] = [k EXCEPT !.idle = time', !.sleep = Poll]]
        BY <2>2, <3>2, Zenon DEF Granted
      <4>2. QED
        BY <2>2, <3>1, <3>2, <4>1
    <3>3. CASE pending' # {}
      <4>1. worker' = [worker EXCEPT ![w] = [k EXCEPT !.idle = None, !.sleep = Poll]]
        BY <2>2, <3>3, Zenon DEF Granted
      <4>2. QED
        BY <3>3, <4>1
    <3>4. QED
      BY <3>2, <3>3
  <2>3. QED
    BY <2>1, <2>2
<1>2. PICK l : l = [k EXCEPT !.idle = i, !.sleep = Poll]
  OBVIOUS
<1>3. /\ l \in WorkerType /\ l.up = k.up /\ l.anchor = k.anchor /\ l.elapsed = k.elapsed
      /\ l.idle = i /\ l.sleep = Poll
  <2>1. Poll \in 0 .. Poll
    BY Parts
  <2>2. QED
    BY <1>2, <2>1 DEF WorkerType
<1>4. worker' = [worker EXCEPT ![w] = l]
  BY <1>1, <1>2, Zenon
<1>5. /\ worker' \in [Workers -> WorkerType] /\ worker'[w] = l
      /\ \A v \in Workers \ {w} : worker'[v] = worker[v]
  BY <1>3, <1>4 DEF Typed
<1>6. k.up /\ worker[w].up /\ k.idle = None /\ Clock(k) = Reckoned(worker[w])
  BY DEF Polled
<1>7. Up' = Up
  BY <1>3, <1>5, <1>6 DEF Up
<1>8. rested' \subseteq Workers
  BY DEF Refused, Granted, Typed
<1>9. time' \in Nat /\ observed' \in Nat /\ pending' \subseteq ActionType
  <2>1. CASE Refused(w, k)
    BY <2>1 DEF Refused, world, Typed
  <2>2. CASE Granted(w, k)
    BY <2>2, HorizonType, Served DEF Granted, Typed
  <2>3. QED
    BY <2>1, <2>2
<1>10. Typed'
  BY <1>5, <1>8, <1>9 DEF Typed
<1>11. Clock(l) = Clock(k)
  BY <1>3 DEF Clock
<1>12. i = None => LastClock(l) = Clock(k) /\ Reckoned(l) = Reckoned(worker[w])
  BY <1>3, <1>6, <1>11, Clocks
<1>13. i # None => Reckoned(l) = Worth(time') - Gone(Poll)
  BY <1>1, <1>3, Clocks
<1>14. QED
  BY <1>1, <1>3, <1>5, <1>7, <1>10, <1>12, <1>13

LEMMA RefusedIs ==
  ASSUME Typed, NEW w \in Workers, NEW k \in WorkerType, Refused(w, k)
  PROVE  /\ UNCHANGED <<time, observed, pending>> /\ rested' = rested \ {w}
         /\ Clock(k) < Worth(time)
<1>1. time \in Nat /\ Horizon(k) < time /\ Horizon(k) \in Nat /\ Clock(k) \in Nat
  BY HorizonType DEF Refused, Typed
<1>2. Worth(time) \in Int /\ time \in Int
  BY <1>1, WorthIs
<1>3. ~(Worth(time) <= Clock(k))
  <2>1. ~(time <= Horizon(k))
    BY <1>1
  <2>2. QED
    BY <1>2, <2>1, HorizonReaches
<1>4. QED
  BY <1>1, <1>2, <1>3 DEF Refused, world

LEMMA GrantedIs ==
  ASSUME Typed, NEW w \in Workers, NEW k \in WorkerType, Granted(w, k)
  PROVE  /\ time' \in Nat /\ observed' \in Nat /\ time <= time' /\ observed <= observed'
         /\ pending' \subseteq pending
         /\ Worth(time') <= Clock(k) /\ Clock(k) < Worth(observed') + Beats
         /\ observed' = observed \/ Worth(observed') <= Clock(k)
         /\ \A p \in pending \ pending' : p.due <= time' /\ Worth(p.due) <= Clock(k)
         /\ \A p \in pending' : observed < p.due => observed' < p.due
         /\ time <= observed => time' <= observed'
         /\ rested' = IF pending' = {} THEN rested \cup {w} ELSE rested \ {w}
<1> DEFINE h == Horizon(k)
<1>1. /\ h \in Nat /\ time <= h /\ Serve(h) /\ time \in Nat /\ observed \in Nat
      /\ pending \subseteq ActionType
  BY HorizonType DEF Granted, Typed
<1>2. /\ Worth(h) <= Clock(k) /\ Clock(k) < Worth(h) + Beats /\ Clock(k) \in Nat
  BY HorizonType
<1>3. \A t \in Nat : t <= h => Worth(t) <= Clock(k)
  BY HorizonReaches
<1> HIDE DEF h
<1>4. /\ time' \in Nat /\ observed' \in Nat /\ time <= time'
      /\ observed <= observed' /\ h <= observed' /\ observed' \in {observed, h}
      /\ pending' \subseteq pending /\ \A p \in pending' : h < p.due
      /\ \A p \in pending \ pending' : p.due <= h /\ p.due <= time'
      /\ time' = time \/ time' <= h
  BY <1>1, Served
<1>5. time' <= h
  BY <1>1, <1>4
<1>6. Clock(k) < Worth(observed') + Beats
  <2>1. h \in Int /\ observed' \in Int
    BY <1>1, <1>4
  <2>2. Worth(h) <= Worth(observed')
    BY <1>4, <2>1, WorthOf
  <2>3. Worth(h) \in Int /\ Worth(observed') \in Int /\ Beats \in Int
    BY <2>1, WorthIs, Parts
  <2>4. QED
    BY <1>2, <2>2, <2>3
<1>7. observed' = observed \/ Worth(observed') <= Clock(k)
  BY <1>2, <1>4
<1>8. ASSUME NEW p \in pending \ pending' PROVE p.due <= time' /\ Worth(p.due) <= Clock(k)
  <2>1. p.due \in Nat /\ p.due <= h /\ p.due <= time'
    BY <1>1, <1>4 DEF ActionType
  <2>2. QED
    BY <1>3, <2>1
<1>9. \A p \in pending' : observed < p.due => observed' < p.due
  BY <1>4
<1>10. rested' = IF pending' = {} THEN rested \cup {w} ELSE rested \ {w}
  BY DEF Granted
<1>11. Worth(time') <= Clock(k)
  BY <1>3, <1>4, <1>5
<1>12. time <= observed => time' <= observed'
  BY <1>1, <1>4, <1>5
<1>13. QED
  BY <1>4, <1>6, <1>7, <1>8, <1>9, <1>10, <1>11, <1>12

LEMMA StepCommon ==
  ASSUME Typed, Common, NEW w \in Workers, NEW k \in WorkerType, Polled(w, k),
         Refused(w, k) \/ Granted(w, k)
  PROVE  Common'
<1>1. /\ time \in Nat /\ observed \in Nat /\ time <= observed
      /\ time' \in Nat /\ observed' \in Nat /\ Typed'
  BY StepTyped DEF Typed, Common
<1>2. /\ time <= time' /\ observed <= observed' /\ time' <= observed'
      /\ pending' \subseteq pending /\ Clock(k) < Worth(observed') + Beats
      /\ \A p \in pending' : observed' < p.due
  <2>1. CASE Refused(w, k)
    <3>1. Worth(time) <= Worth(observed)
      BY <1>1, WorthOf
    <3>2. Worth(time) \in Int /\ Worth(observed) \in Int /\ Clock(k) \in Int /\ Beats \in Nat
      BY <1>1, WorthIs, Clocks, Parts
    <3>3. Clock(k) < Worth(observed) + Beats
      BY <2>1, <3>1, <3>2, RefusedIs
    <3>4. QED
      BY <1>1, <2>1, <3>3, RefusedIs DEF Common, Waiting
  <2>2. CASE Granted(w, k)
    BY <1>1, <2>2, GrantedIs DEF Common, Waiting
  <2>3. QED
    BY <2>1, <2>2
<1>3. ASSUME NEW v \in Workers PROVE Granting(worker[v])'
  <2>1. CASE v = w
    <3>1. /\ worker'[w].idle = None => LastClock(worker'[w]) = Clock(k)
          /\ worker'[w].idle # None => worker'[w].idle = time'
      BY StepTyped
    <3>2. QED
      BY <1>1, <1>2, <2>1, <3>1 DEF Granting
  <2>2. CASE v # w
    <3>1. worker'[v] = worker[v] /\ worker[v] \in WorkerType /\ Granting(worker[v])
      BY <2>2, StepTyped DEF Common, Typed
    <3>2. Worth(observed) <= Worth(observed')
      BY <1>1, <1>2, WorthOf
    <3>3. Worth(observed) \in Int /\ Worth(observed') \in Int /\ Beats \in Int
          /\ LastClock(worker[v]) \in Int
      BY <1>1, <3>1, WorthIs, Parts, Clocks
    <3>4. worker[v].idle # None => worker[v].idle \in Nat
      BY <3>1 DEF WorkerType
    <3>5. QED
      BY <1>1, <1>2, <3>1, <3>2, <3>3, <3>4 DEF Granting
  <2>3. QED
    BY <2>1, <2>2
<1>4. ASSUME NEW v \in rested' PROVE worker'[v].up /\ worker'[v].idle # None
  <2>1. CASE v = w
    <3>1. Granted(w, k) /\ pending' = {}
      BY <1>4, <2>1 DEF Refused, Granted
    <3>2. Up' = Up /\ worker[w].up /\ worker'[w].idle # None
      BY <3>1, StepTyped DEF Polled
    <3>3. worker'[w].up
      BY <3>2 DEF Up
    <3>4. QED
      BY <2>1, <3>2, <3>3
  <2>2. CASE v # w
    <3>1. v \in rested /\ v \in Workers
      BY <2>2 DEF Refused, Granted, Typed
    <3>2. QED
      BY <2>2, <3>1, StepTyped DEF Common
  <2>3. QED
    BY <2>1, <2>2
<1>5. \A p \in pending' : Waiting(p)'
  BY <1>2 DEF Common, Waiting
<1>6. QED
  BY <1>2, <1>3, <1>4, <1>5 DEF Common

LEMMA EarnedIs ==
  ASSUME NEW p \in ActionType
  PROVE  /\ Earned(p) \in Int /\ Worth(Stamped(p)) \in Int /\ Gone(p.age) \in Int
         /\ Worth(p.due) \in Int /\ Worth(p.length) \in Int
         /\ Worth(Stamped(p)) = Worth(p.due) - Worth(p.length)
         /\ Earned(p) = Worth(Stamped(p)) + Gone(p.age)
                          + (IF p.quiet THEN 0 ELSE Beats + Gone(Poll))
<1>1. /\ p.due \in Int /\ p.length \in Int /\ p.age \in Int /\ p.quiet \in BOOLEAN
      /\ Poll \in Int /\ Beats \in Int
  BY TempoAssumption DEF ActionType
<1>2. Stamped(p) = p.due - p.length /\ Stamped(p) \in Int
  BY <1>1 DEF Stamped
<1>3. /\ Worth(p.due) \in Int /\ Worth(p.length) \in Int /\ Worth(Stamped(p)) \in Int
  BY <1>1, <1>2, WorthIs
<1>4. Worth(Stamped(p)) = Worth(p.due) - Worth(p.length)
  <2>1. PICK d \in Int, l \in Int : d = p.due /\ l = p.length
    BY <1>1
  <2>2. Worth(d - l) = Worth(d) - Worth(l)
    BY WorthOf
  <2>3. QED
    BY <1>2, <2>1, <2>2
<1>5. Gone(p.age) \in Int /\ Gone(Poll) \in Int
  BY <1>1, GoneIs
<1>6. QED
  BY <1>1, <1>3, <1>4, <1>5 DEF Earned

LEMMA StepEarly ==
  ASSUME Typed, Early, NEW w \in Workers, NEW k \in WorkerType, Polled(w, k),
         Refused(w, k) \/ Granted(w, k)
  PROVE  Early'
<1>1. SUFFICES ASSUME NEW p \in pending', p.age < MaxElapsed
               PROVE  /\ Worth(observed') <= Earned(p)
                      /\ \A v \in Up' : Reckoned(worker'[v]) <= Earned(p)
  BY DEF Early
<1>2. p \in pending
  <2>1. CASE Refused(w, k)
    BY <2>1, RefusedIs
  <2>2. CASE Granted(w, k)
    BY <2>2, GrantedIs
  <2>3. QED
    BY <2>1, <2>2
<1>3. /\ Worth(observed) <= Earned(p)
      /\ \A v \in Up : Reckoned(worker[v]) <= Earned(p)
  BY <1>1, <1>2 DEF Early
<1>4. Up' = Up /\ w \in Up /\ \A v \in Workers \ {w} : worker'[v] = worker[v]
  BY StepTyped DEF Up, Polled
<1>5. /\ Clock(k) = Reckoned(worker[w])
      /\ Clock(k) \in Int /\ Earned(p) \in Int /\ Worth(observed) \in Int
  BY <1>2, EarnedIs, HorizonType, WorthIs DEF Polled, Typed
<1>6. Clock(k) <= Earned(p)
  BY <1>3, <1>4, <1>5
<1>7. Worth(observed') <= Earned(p)
  <2>1. CASE Refused(w, k)
    BY <1>3, <2>1, RefusedIs
  <2>2. CASE Granted(w, k)
    <3>1. Worth(observed') \in Int
      BY <2>2, GrantedIs, WorthIs
    <3>2. observed' = observed \/ Worth(observed') <= Clock(k)
      BY <2>2, GrantedIs
    <3>3. QED
      BY <1>3, <1>5, <1>6, <3>1, <3>2
  <2>3. QED
    BY <2>1, <2>2
<1>8. Reckoned(worker'[w]) <= Earned(p)
  BY <1>1, <1>3, <1>4, StepTyped
<1>9. QED
  BY <1>3, <1>4, <1>7, <1>8 DEF Up

(* When a worker comes to rest, nobody has granted what comes after.       *)
LEMMA ComesToRest ==
  ASSUME Typed, Common, Delay, NEW w \in Workers, NEW k \in WorkerType, Polled(w, k),
         Granted(w, k), pending' = {}
  PROVE  /\ \A v \in Workers : worker[v].idle = None => LastClock(worker[v]) < Worth(time')
         /\ Worth(observed') <= Worth(time') + Gone(Poll)
<1>1. /\ time \in Nat /\ time' \in Nat /\ observed \in Nat /\ observed' \in Nat
      /\ time <= time'
  BY GrantedIs DEF Typed
<1>2. /\ Worth(time) \in Int /\ Worth(time') \in Int /\ Worth(observed) \in Int
      /\ Worth(observed') \in Int /\ Beats \in Int /\ Gone(Poll) \in Nat
      /\ Worth(time) <= Worth(time')
  <2>1. Worth(time) <= Worth(time')
    BY <1>1, WorthOf
  <2>2. QED
    BY <1>1, <2>1, WorthIs, GoneIs, Parts
<1>3. /\ \A v \in Workers : worker[v].idle = None => LastClock(worker[v]) < Worth(time')
      /\ Worth(observed) <= Worth(time') + Gone(Poll)
  <2>1. CASE pending = {}
    <3>1. AtRest
      BY <2>1 DEF Delay
    <3>2. ASSUME NEW v \in Workers, worker[v].idle = None
          PROVE  LastClock(worker[v]) < Worth(time')
      <4>1. LastClock(worker[v]) \in Int /\ LastClock(worker[v]) < Worth(time)
        BY <3>1, <3>2, Clocks DEF AtRest, Typed
      <4>2. QED
        BY <1>2, <4>1
    <3>3. Worth(observed) <= Worth(time') + Gone(Poll)
      BY <1>2, <3>1 DEF AtRest
    <3>4. QED
      BY <3>2, <3>3
  <2>2. CASE pending # {}
    <3>1. PICK p \in pending : observed < p.due /\ p.due <= time' /\ p.due \in Nat
      BY <2>2, GrantedIs DEF Common, Waiting, Typed, ActionType
    <3>2. observed < time' /\ observed \in Int /\ time' \in Int
      BY <1>1, <3>1
    <3>3. Worth(observed) + Beats <= Worth(time')
      BY <3>2, WorthOf
    <3>4. ASSUME NEW v \in Workers, worker[v].idle = None
          PROVE  LastClock(worker[v]) < Worth(time')
      <4>1. LastClock(worker[v]) \in Int /\ LastClock(worker[v]) < Worth(observed) + Beats
        BY <3>4, Clocks DEF Common, Granting, Typed
      <4>2. QED
        BY <1>2, <3>3, <4>1
    <3>5. Beats \in Nat
      BY Parts
    <3>6. QED
      BY <1>2, <3>3, <3>4, <3>5
  <2>3. QED
    BY <2>1, <2>2
<1>4. Clock(k) <= Worth(time') + Gone(Poll) /\ Clock(k) \in Int
  <2>1. /\ worker[w] \in WorkerType /\ worker[w].sleep = 0
        /\ Clock(k) = Reckoned(worker[w]) /\ Clock(k) \in Int
    BY HorizonType DEF Typed, Polled
  <2>2. CASE worker[w].idle = None
    <3>1. /\ Clock(worker[w]) \in Int /\ LastClock(worker[w]) \in Int
          /\ Reckoned(worker[w]) = Clock(worker[w])
          /\ LastClock(worker[w]) = Clock(worker[w]) - Gone(Poll)
      BY <2>1, <2>2, Clocks
    <3>2. LastClock(worker[w]) < Worth(time')
      BY <1>3, <2>2
    <3>3. QED
      BY <1>2, <2>1, <3>1, <3>2
  <2>3. CASE worker[w].idle # None
    <3>1. /\ worker[w].idle \in Nat /\ Reckoned(worker[w]) = Worth(worker[w].idle)
          /\ Worth(worker[w].idle) \in Nat
      BY <2>1, <2>3, Clocks
    <3>2. worker[w].idle <= time
      BY <2>3 DEF Common, Granting
    <3>3. worker[w].idle \in Int /\ time \in Int
      BY <1>1, <3>1
    <3>4. Worth(worker[w].idle) <= Worth(time)
      BY <3>2, <3>3, WorthOf
    <3>5. QED
      BY <1>2, <2>1, <3>1, <3>4
  <2>4. QED
    BY <2>2, <2>3
<1>5. observed' = observed \/ Worth(observed') <= Clock(k)
  BY GrantedIs
<1>6. QED
  BY <1>2, <1>3, <1>4, <1>5

(* Whoever was not behind is not behind once the others granted more.      *)
LEMMA StepObserved ==
  ASSUME Typed, Delay, NEW w \in Workers, NEW k \in WorkerType, Polled(w, k),
         Refused(w, k) \/ Granted(w, k), NEW v \in Workers
  PROVE  /\ Behind(Worth(observed'), worker[v]) /\ Behind(Clock(k), worker[v])
         /\ Behind(Worth(time'), worker[v]) \/ Refused(w, k)
<1>1. /\ Clock(k) = Reckoned(worker[w]) /\ Clock(k) \in Int
      /\ Worth(observed) \in Int /\ Reckoned(worker[v]) \in Int /\ Gone(Poll) \in Int
  BY HorizonType, Clocks, WorthIs, GoneIs, Parts DEF Polled, Typed
<1>2. Behind(Worth(observed), worker[v]) /\ Behind(Clock(k), worker[v])
  BY <1>1 DEF Delay
<1>3. CASE Refused(w, k)
  BY <1>2, <1>3, RefusedIs
<1>4. CASE Granted(w, k)
  <2>1. Worth(observed') \in Int /\ Worth(time') \in Int
    BY <1>4, GrantedIs, WorthIs
  <2>2. /\ observed' = observed \/ Worth(observed') <= Clock(k)
        /\ Worth(time') <= Clock(k)
    BY <1>4, GrantedIs
  <2>3. QED
    BY <1>1, <1>2, <2>1, <2>2 DEF Behind
<1>5. QED
  BY <1>3, <1>4

LEMMA StepDelay ==
  ASSUME Typed, Common, Delay, NEW w \in Workers, NEW k \in WorkerType, Polled(w, k),
         Refused(w, k) \/ Granted(w, k)
  PROVE  Delay'
<1>1. /\ Up' = Workers /\ \A v \in Workers \ {w} : worker'[v] = worker[v]
      /\ Typed'
  BY StepTyped DEF Delay
<1>2. pending' \subseteq pending /\ Workers # {}
  BY RefusedIs, GrantedIs
<1>3. /\ Worth(time') \in Int /\ Worth(observed') \in Int /\ Gone(Poll) \in Nat
      /\ \A v \in Workers : worker[v] \in WorkerType /\ Reckoned(worker[v]) \in Int
  BY <1>1, Clocks, WorthIs, GoneIs, Parts DEF Typed
<1>4. CASE Refused(w, k) \/ pending' # {}
  <2>1. worker'[w].idle = None /\ LastClock(worker'[w]) = Clock(k)
    <3>1. ASSUME Refused(w, k), Granted(w, k) PROVE FALSE
      <4>1. Clock(k) < Worth(time) /\ Worth(time) <= Clock(k)
        BY <3>1, RefusedIs, GrantedIs
      <4>2. Clock(k) \in Int /\ Worth(time) \in Int
        BY HorizonType, WorthIs DEF Typed
      <4>3. QED
        BY <4>1, <4>2
    <3>2. QED
      BY <1>4, <3>1, StepTyped
  <2>2. \A v \in Workers : Reckoned(worker'[v]) = Reckoned(worker[v])
    BY <1>1, <2>1, StepTyped
  <2>3. ASSUME NEW v \in Workers
        PROVE  /\ Behind(Worth(observed'), worker'[v])
               /\ \A u \in Workers : Behind(Reckoned(worker'[u]), worker'[v])
               /\ \A p \in pending' : Behind(Worth(Stamped(p)) + Gone(p.age), worker'[v])
    BY <1>2, <2>2, StepObserved DEF Delay, Behind
  <2>4. ASSUME pending' = {} PROVE AtRest'
    <3>1. Refused(w, k)
      BY <1>4, <2>4
    <3>2. AtRest /\ UNCHANGED <<time, observed>> /\ Clock(k) < Worth(time)
      BY <2>4, <3>1, RefusedIs DEF Delay
    <3>3. \A v \in Workers : worker'[v].idle = None => LastClock(worker'[v]) < Worth(time)
      BY <1>1, <2>1, <3>2 DEF AtRest
    <3>4. QED
      BY <3>2, <3>3 DEF AtRest
  <2>5. QED
    BY <1>1, <1>2, <2>3, <2>4 DEF Delay, Behind, Stamped
<1>5. CASE Granted(w, k) /\ pending' = {}
  <2>1. worker'[w].idle # None /\ Reckoned(worker'[w]) = Worth(time') - Gone(Poll)
    BY <1>5, StepTyped
  <2>2. /\ \A v \in Workers : worker[v].idle = None => LastClock(worker[v]) < Worth(time')
        /\ Worth(observed') <= Worth(time') + Gone(Poll)
    BY <1>5, ComesToRest
  <2>3. AtRest'
    BY <1>1, <2>1, <2>2 DEF AtRest
  <2>4. ASSUME NEW v \in Workers \ {w}
        PROVE  Reckoned(worker[v]) <= Worth(time') + Gone(Poll)
    <3>1. CASE worker[v].idle = None
      <4>1. /\ Reckoned(worker[v]) <= LastClock(worker[v]) + Gone(Poll)
            /\ LastClock(worker[v]) \in Int
        BY <1>3, <3>1, Clocks
      <4>2. LastClock(worker[v]) < Worth(time')
        BY <2>2, <3>1
      <4>3. QED
        BY <1>3, <4>1, <4>2
    <3>2. CASE worker[v].idle # None
      <4>1. /\ worker[v].idle \in Nat /\ Reckoned(worker[v]) <= Worth(worker[v].idle)
            /\ Worth(worker[v].idle) \in Nat
        BY <1>3, <3>2, Clocks
      <4>2. worker[v].idle <= time'
        <5>1. worker[v].idle <= time /\ time <= time' /\ time \in Nat /\ time' \in Nat
          BY <1>5, <3>2, GrantedIs DEF Common, Granting, Typed
        <5>2. QED
          BY <4>1, <5>1
      <4>3. worker[v].idle \in Int /\ time' \in Int
        BY <1>1, <4>1 DEF Typed
      <4>4. Worth(worker[v].idle) <= Worth(time')
        BY <4>2, <4>3, WorthOf
      <4>5. QED
        BY <1>3, <4>1, <4>4
    <3>3. QED
      BY <3>1, <3>2
  <2>5. ASSUME NEW v \in Workers
        PROVE  /\ Behind(Worth(observed'), worker'[v])
               /\ \A u \in Workers : Behind(Reckoned(worker'[u]), worker'[v])
    <3>1. CASE v = w
      <4>1. Behind(Worth(observed'), worker'[v])
        BY <1>3, <2>1, <2>2, <3>1 DEF Behind
      <4>2. ASSUME NEW u \in Workers PROVE Behind(Reckoned(worker'[u]), worker'[v])
        <5>1. CASE u = w
          BY <1>3, <2>1, <3>1, <5>1 DEF Behind
        <5>2. CASE u # w
          BY <1>1, <1>3, <2>1, <2>4, <3>1, <5>2 DEF Behind
        <5>3. QED
          BY <5>1, <5>2
      <4>3. QED
        BY <4>1, <4>2
    <3>2. CASE v # w
      <4>1. worker'[v] = worker[v]
        BY <1>1, <3>2
      <4>2. ASSUME NEW u \in Workers PROVE Behind(Reckoned(worker'[u]), worker[v])
        <5>1. CASE u = w
          <6>1. Behind(Worth(time'), worker[v]) \/ Refused(w, k)
            BY StepObserved
          <6>2. ~Refused(w, k)
            <7>1. Worth(time') <= Clock(k) /\ Clock(k) \in Int
              BY <1>5, GrantedIs, HorizonType
            <7>2. Refused(w, k) => Clock(k) < Worth(time')
              BY RefusedIs
            <7>3. QED
              BY <1>3, <7>1, <7>2
          <6>3. QED
            BY <1>3, <2>1, <5>1, <6>1, <6>2 DEF Behind
        <5>2. CASE u # w
          BY <1>1, <5>2 DEF Delay
        <5>3. QED
          BY <5>1, <5>2
      <4>3. QED
        BY <4>1, <4>2, StepObserved
    <3>3. QED
      BY <3>1, <3>2
  <2>6. QED
    BY <1>1, <1>2, <1>5, <2>3, <2>5 DEF Delay, Behind
<1>6. QED
  BY <1>4, <1>5

-----------------------------------------------------------------------------
(* An order.                                                               *)
NewAction(length) ==
  [due |-> Stamp + length, length |-> length, age |-> 0,
   quiet |-> pending = {} /\ Up \subseteq rested]

LEMMA OrderTyped ==
  ASSUME Typed, NEW length \in Lengths, Order(length)
  PROVE  /\ Typed' /\ NewAction(length) \in ActionType
         /\ pending' = pending \cup {NewAction(length)} /\ time' = Stamp
         /\ UNCHANGED <<observed, worker, rested, Up>>
<1>1. /\ pending' = pending \cup {NewAction(length)} /\ time' = Stamp
      /\ UNCHANGED <<observed, worker, rested>>
  BY Zenon DEF Order, NewAction
<1>2. Stamp \in Nat /\ length \in Nat /\ 0 \in 0 .. MaxElapsed
  BY TempoAssumption DEF Stamp, Later, Typed
<1>3. NewAction(length) \in ActionType
  <2>1. PICK q \in BOOLEAN : q = (pending = {} /\ Up \subseteq rested)
    OBVIOUS
  <2>2. PICK d \in Nat : d = Stamp + length
    BY <1>2
  <2>3. NewAction(length) = [due |-> d, length |-> length, age |-> 0, quiet |-> q]
    BY <2>1, <2>2, Zenon DEF NewAction
  <2>4. QED
    BY <1>2, <2>3 DEF ActionType
<1>4. UNCHANGED Up
  BY <1>1 DEF Up
<1>5. QED
  BY <1>1, <1>2, <1>3, <1>4 DEF Typed

LEMMA NewActionIs ==
  ASSUME Typed, Common, NEW length \in Lengths
  PROVE  LET n == NewAction(length)
         IN /\ Stamp = observed /\ n.due = observed + length /\ n.length = length /\ n.age = 0
            /\ Stamped(n) = observed /\ Gone(n.age) = 0 /\ Waiting(n)
            /\ n.quiet <=> (pending = {} /\ Up \subseteq rested)
<1>1. /\ Stamp = observed /\ observed \in Nat /\ length \in Nat \ {0}
  BY TempoAssumption DEF Stamp, Later, Typed, Common
<1>2. PICK n : n = NewAction(length)
  OBVIOUS
<1>3. /\ n.due = observed + length /\ n.length = length /\ n.age = 0
      /\ n.quiet <=> (pending = {} /\ Up \subseteq rested)
  BY <1>1, <1>2 DEF NewAction
<1>4. Stamped(n) = observed /\ Waiting(n)
  BY <1>1, <1>3 DEF Stamped, Waiting
<1>5. Gone(n.age) = 0
  BY <1>3, GoneIs
<1>6. QED
  BY <1>1, <1>2, <1>3, <1>4, <1>5, Zenon

LEMMA OrderCommon ==
  ASSUME Typed, Common, NEW length \in Lengths, Order(length)
  PROVE  Common'
<1>1. /\ pending' = pending \cup {NewAction(length)} /\ time' = observed
      /\ UNCHANGED <<observed, worker, rested>> /\ Waiting(NewAction(length))
  BY OrderTyped, NewActionIs, Zenon
<1>2. time \in Nat /\ observed \in Nat /\ time <= observed
  BY DEF Typed, Common
<1>3. \A p \in pending' : Waiting(p)'
  BY <1>1 DEF Common, Waiting
<1>4. ASSUME NEW w \in Workers PROVE Granting(worker[w])'
  <2>1. worker[w] \in WorkerType /\ Granting(worker[w])
    BY DEF Typed, Common
  <2>2. QED
    BY <1>1, <1>2, <2>1 DEF Granting, WorkerType
<1>5. QED
  BY <1>1, <1>2, <1>3, <1>4 DEF Common

LEMMA OrderDelay ==
  ASSUME Typed, Common, Delay, NEW length \in Lengths, Order(length)
  PROVE  Delay'
<1>1. PICK n : n = NewAction(length)
  OBVIOUS
<1>2. /\ pending' = pending \cup {n} /\ n.age = 0
      /\ UNCHANGED <<observed, worker, rested>> /\ Up' = Up
      /\ Worth(Stamped(n)) = Worth(observed) /\ Gone(n.age) = 0
  BY <1>1, OrderTyped, NewActionIs, Zenon
<1>3. Worth(observed) \in Int
  BY WorthIs DEF Typed
<1>4. ASSUME NEW w \in Workers, NEW p \in pending'
      PROVE  Behind(Worth(Stamped(p)) + Gone(p.age), worker[w])
  <2>1. CASE p \in pending
    BY <2>1 DEF Delay
  <2>2. CASE p = n
    <3>1. Behind(Worth(observed), worker[w])
      BY DEF Delay
    <3>2. Worth(Stamped(p)) + Gone(p.age) = Worth(observed)
      BY <1>2, <1>3, <2>2
    <3>3. QED
      BY <3>1, <3>2
  <2>3. QED
    BY <1>2, <2>1, <2>2
<1>5. pending' # {}
  BY <1>2
<1>6. Workers = {} => \A p \in pending' : p.age = 0
  BY <1>2 DEF Delay
<1>7. QED
  BY <1>2, <1>4, <1>5, <1>6 DEF Delay, Behind, Stamped

LEMMA OrderEarly ==
  ASSUME Typed, Common, Early, NEW length \in Lengths, Order(length)
  PROVE  Early'
<1>1. PICK n : n = NewAction(length)
  OBVIOUS
<1>2. /\ pending' = pending \cup {n} /\ n \in ActionType
      /\ UNCHANGED <<observed, worker, rested>> /\ Up' = Up
      /\ Worth(Stamped(n)) = Worth(observed) /\ Gone(n.age) = 0
      /\ n.quiet <=> (pending = {} /\ Up \subseteq rested)
  BY <1>1, OrderTyped, NewActionIs, Zenon
<1>3. /\ Worth(observed) \in Int /\ Beats \in Nat /\ Gone(Poll) \in Nat
      /\ observed \in Nat /\ time \in Nat /\ time <= observed
  BY WorthIs, GoneIs, Parts DEF Typed, Common
<1>4. Earned(n) = Worth(observed) + (IF n.quiet THEN 0 ELSE Beats + Gone(Poll))
  BY <1>2, <1>3, EarnedIs
<1>5. ASSUME NEW w \in Up PROVE Reckoned(worker[w]) <= Earned(n)
  <2>1. worker[w] \in WorkerType /\ Granting(worker[w]) /\ w \in Workers
    BY DEF Typed, Up, Common
  <2>2. CASE worker[w].idle # None
    <3>1. /\ worker[w].idle \in Nat /\ Reckoned(worker[w]) <= Worth(worker[w].idle)
          /\ worker[w].idle <= observed /\ Reckoned(worker[w]) \in Int
      BY <1>3, <2>1, <2>2, Clocks DEF Granting
    <3>2. worker[w].idle \in Int /\ observed \in Int
      BY <1>3, <3>1
    <3>3. Worth(worker[w].idle) <= Worth(observed)
      BY <3>1, <3>2, WorthOf
    <3>4. Worth(worker[w].idle) \in Int
      BY <3>2, WorthIs
    <3>5. QED
      BY <1>2, <1>3, <1>4, <3>1, <3>3, <3>4
  <2>3. CASE worker[w].idle = None
    <3>1. ~n.quiet
      BY <1>2, <2>3 DEF Common
    <3>2. /\ Reckoned(worker[w]) <= LastClock(worker[w]) + Gone(Poll)
          /\ Reckoned(worker[w]) \in Int /\ LastClock(worker[w]) \in Int
          /\ LastClock(worker[w]) < Worth(observed) + Beats
      BY <2>1, <2>3, Clocks DEF Granting
    <3>3. QED
      BY <1>3, <1>4, <3>1, <3>2
  <2>4. QED
    BY <2>2, <2>3
<1>6. Worth(observed) <= Earned(n)
  BY <1>2, <1>3, <1>4
<1>7. QED
  BY <1>2, <1>5, <1>6 DEF Early, Earned, Stamped

-----------------------------------------------------------------------------
(* A worker stops, and starts again with the moment of the world.          *)
Anew(k, l) ==
  /\ l \in WorkerType /\ l.elapsed = 0 /\ l.idle = None /\ l.sleep = 0
  /\ IF k.up THEN ~l.up /\ l.anchor = 0 ELSE l.up /\ l.anchor = time

LEMMA AnewIs ==
  ASSUME Typed, NEW w \in Workers, Stop(w) \/ Start(w)
  PROVE  /\ Typed' /\ UNCHANGED <<time, observed, pending>>
         /\ \A v \in Workers \ {w} : worker'[v] = worker[v]
         /\ Anew(worker[w], worker'[w]) /\ rested' \subseteq rested
<1>1. PICK l : /\ worker' = [worker EXCEPT ![w] = l] /\ Anew(worker[w], l)
               /\ UNCHANGED <<time, observed, pending>>
               /\ rested' = rested \ {w} \/ (~worker[w].up /\ rested' = rested)
  <2>1. time \in Nat /\ 0 \in 0 .. Poll
    BY Parts DEF Typed
  <2>2. CASE Stop(w)
    <3>1. PICK l : l = [Fresh EXCEPT !.up = FALSE, !.anchor = 0]
      OBVIOUS
    <3>2. l = [up |-> FALSE, anchor |-> 0, elapsed |-> 0, idle |-> None, sleep |-> 0]
      BY <3>1 DEF Fresh
    <3>3. worker' = [worker EXCEPT ![w] = l]
      BY <2>2, <3>1, Zenon DEF Stop
    <3>4. Anew(worker[w], l)
      BY <2>1, <2>2, <3>2 DEF Anew, WorkerType, Stop
    <3>5. QED
      BY <2>2, <3>3, <3>4 DEF Stop, world
  <2>3. CASE Start(w)
    <3>1. Anew(worker[w], Fresh)
      BY <2>1, <2>3 DEF Anew, WorkerType, Fresh, Start
    <3>2. QED
      BY <2>3, <3>1 DEF Start, world
  <2>4. QED
    BY <2>2, <2>3
<1>2. /\ worker' \in [Workers -> WorkerType] /\ worker'[w] = l
      /\ \A v \in Workers \ {w} : worker'[v] = worker[v]
  BY <1>1 DEF Typed, Anew
<1>3. QED
  BY <1>1, <1>2 DEF Typed

LEMMA AnewClocks ==
  ASSUME Typed, time <= observed, NEW k \in WorkerType, NEW l, Anew(k, l)
  PROVE  /\ LastClock(l) < Worth(observed) + Beats
         /\ ~k.up => Reckoned(l) <= Worth(observed)
<1>1. /\ l \in WorkerType /\ l.idle = None /\ l.sleep = 0 /\ l.elapsed = 0
      /\ l.anchor \in {0, time} /\ time \in Nat /\ observed \in Nat
      /\ 0 \in Int /\ time \in Int /\ observed \in Int
  BY DEF Anew, Typed
<1>2. Worth(0) = 0 /\ Worth(time) \in Int /\ Worth(observed) \in Int /\ Gone(0) = 0
      /\ Beats \in Nat \ {0} /\ Gone(Poll) \in Nat
  BY <1>1, WorthIs, GoneIs, Parts
<1>3. Worth(0) <= Worth(observed) /\ Worth(time) <= Worth(observed)
  BY <1>1, WorthOf
<1>4. Clock(l) = Worth(l.anchor)
  BY <1>1, <1>2 DEF Clock
<1>5. LastClock(l) = Clock(l) - Gone(Poll) /\ Reckoned(l) = Clock(l)
  BY <1>1, Clocks
<1>6. Worth(l.anchor) \in Int /\ Worth(l.anchor) <= Worth(observed)
  BY <1>1, <1>2, <1>3
<1>7. QED
  BY <1>2, <1>4, <1>5, <1>6

LEMMA AnewCommon ==
  ASSUME Typed, Common, NEW w \in Workers, Stop(w) \/ Start(w)
  PROVE  Common'
<1>1. /\ UNCHANGED <<time, observed, pending>> /\ Anew(worker[w], worker'[w])
      /\ \A v \in Workers \ {w} : worker'[v] = worker[v]
  BY AnewIs
<1>2. ASSUME NEW v \in Workers PROVE Granting(worker[v])'
  <2>1. CASE v = w
    <3>1. LastClock(worker'[w]) < Worth(observed) + Beats
      BY <1>1, AnewClocks DEF Typed, Common
    <3>2. QED
      BY <1>1, <2>1, <3>1 DEF Granting, Anew
  <2>2. CASE v # w
    BY <1>1, <2>2 DEF Common, Granting
  <2>3. QED
    BY <2>1, <2>2
<1>3. ASSUME NEW v \in rested' PROVE worker'[v].up /\ worker'[v].idle # None
  <2>1. v \in rested
    BY AnewIs
  <2>2. v # w
    <3>1. CASE Stop(w)
      BY <3>1 DEF Stop
    <3>2. CASE Start(w)
      BY <2>1, <3>2 DEF Start, Common
    <3>3. QED
      BY <3>1, <3>2
  <2>3. QED
    BY <1>1, <2>1, <2>2 DEF Common, Typed
<1>4. QED
  BY <1>1, <1>2, <1>3 DEF Common, Waiting

LEMMA AnewEarly ==
  ASSUME Typed, Common, Early, NEW w \in Workers, Stop(w) \/ Start(w)
  PROVE  Early'
<1>1. /\ UNCHANGED <<time, observed, pending>> /\ Anew(worker[w], worker'[w])
      /\ \A v \in Workers \ {w} : worker'[v] = worker[v]
  BY AnewIs
<1>2. ASSUME NEW p \in pending, p.age < MaxElapsed, NEW v \in Up'
      PROVE  Reckoned(worker'[v]) <= Earned(p)
  <2>1. CASE v = w
    <3>1. ~worker[w].up
      BY <1>1, <2>1 DEF Up, Anew
    <3>2. Reckoned(worker'[w]) <= Worth(observed)
      BY <1>1, <3>1, AnewClocks DEF Typed, Common
    <3>3. Worth(observed) <= Earned(p)
      BY <1>2 DEF Early
    <3>4. Reckoned(worker'[w]) \in Int /\ Worth(observed) \in Int /\ Earned(p) \in Int
      BY <1>1, Clocks, WorthIs, EarnedIs DEF Anew, Typed
    <3>5. QED
      BY <2>1, <3>2, <3>3, <3>4
  <2>2. CASE v # w
    <3>1. v \in Up /\ worker'[v] = worker[v]
      BY <1>1, <2>2 DEF Up
    <3>2. QED
      BY <1>2, <3>1 DEF Early
  <2>3. QED
    BY <2>1, <2>2
<1>3. QED
  BY <1>1, <1>2 DEF Early, Earned, Stamped

-----------------------------------------------------------------------------
(* The invariant.                                                          *)
LEMMA InitInv == Init => Inv
<1>1. SUFFICES ASSUME Init PROVE Inv
  OBVIOUS
<1>2. PICK k : k = [up |-> TRUE, anchor |-> 0, elapsed |-> 0, idle |-> None, sleep |-> 0]
  OBVIOUS
<1>3. /\ time = 0 /\ observed = 0 /\ rested = {} /\ worker = [w \in Workers |-> k]
      /\ pending = {[due |-> t, length |-> t, age |-> 0, quiet |-> FALSE] : t \in Planned}
  BY <1>1, <1>2, Zenon DEF Init
<1>4. k \in WorkerType /\ k.up /\ k.idle = None /\ k.sleep = 0 /\ k.anchor = 0 /\ k.elapsed = 0
  <2>1. 0 \in 0 .. Poll
    BY Parts
  <2>2. QED
    BY <1>2, <2>1 DEF WorkerType
<1>5. \A p \in pending : /\ p \in ActionType /\ p.due = p.length /\ p.age = 0 /\ ~p.quiet
                         /\ p.length \in Planned /\ p.due > 0
  <2>1. 0 \in 0 .. MaxElapsed /\ Planned \subseteq Nat \ {0}
    BY TempoAssumption
  <2>2. SUFFICES ASSUME NEW t \in Planned, NEW p,
                        p = [due |-> t, length |-> t, age |-> 0, quiet |-> FALSE]
                 PROVE  /\ p \in ActionType /\ p.due = p.length /\ p.age = 0 /\ ~p.quiet
                        /\ p.length \in Planned /\ p.due > 0
    BY <1>3
  <2>3. t \in Nat /\ t # 0
    BY <2>1
  <2>4. QED
    BY <2>1, <2>2, <2>3 DEF ActionType
<1>6. Typed
  BY <1>3, <1>4, <1>5 DEF Typed
<1>7. /\ Worth(0) = 0 /\ Gone(0) = 0 /\ Beats \in Nat \ {0} /\ Gone(Poll) \in Nat /\ Poll \in Nat
      /\ Worth(observed) = 0 /\ Worth(time) = 0
  BY <1>3, WorthIs, GoneIs, Parts
<1>8. Clock(k) = 0
  BY <1>4, <1>7 DEF Clock
<1>9. LastClock(k) = 0 - Gone(Poll) /\ Reckoned(k) = 0
  BY <1>4, <1>8, Clocks
<1>10. Poll * Minutes # 0 /\ Gone(Poll) = Poll * Minutes
  BY Parts DEF Gone
<1>11. Common
  <2>1. \A p \in pending : Waiting(p)
    BY <1>3, <1>5 DEF Waiting, ActionType
  <2>2. \A w \in Workers : Granting(worker[w])
    BY <1>3, <1>4, <1>7, <1>9 DEF Granting
  <2>3. QED
    BY <1>3, <2>1, <2>2 DEF Common
<1>12. \A p \in pending : Worth(Stamped(p)) = 0 /\ Gone(p.age) = 0
  BY <1>5, <1>7 DEF Stamped, ActionType
<1>13. Early
  BY <1>3, <1>5, <1>7, <1>9, <1>12 DEF Early, Earned, Up
<1>14. Up = Workers
  BY <1>3, <1>4 DEF Up
<1>15. AtRest
  BY <1>3, <1>7, <1>9, <1>10 DEF AtRest
<1>16. Delay
  BY <1>3, <1>5, <1>7, <1>9, <1>12, <1>14, <1>15 DEF Delay, Behind
<1>17. QED
  BY <1>6, <1>11, <1>13, <1>16 DEF Inv

LEMMA WrongTyped ==
  ASSUME Typed, \/ PassLate
                \/ \E w \in Workers : StepUnheard(w)
                \/ \E stride \in Strides : TickByHand(stride)
  PROVE  Typed' /\ ~Restarts' /\ troubles' # {}
<1>1. CASE PassLate
  BY <1>1, BeatTyped DEF PassLate, Wrong, Restarts
<1>2. ASSUME NEW w \in Workers, StepUnheard(w) PROVE Typed' /\ ~Restarts' /\ troubles' # {}
  <2>1. PICK k : k = Anchored(worker[w])
    OBVIOUS
  <2>2. k \in WorkerType
    BY <1>2, <2>1, AnchoredPolled DEF StepUnheard, Polled
  <2>3. PICK l : l = [k EXCEPT !.sleep = Poll]
    OBVIOUS
  <2>4. l \in WorkerType
    <3>1. Poll \in 0 .. Poll
      BY Parts
    <3>2. QED
      BY <2>2, <2>3, <3>1 DEF WorkerType
  <2>5. worker' = [worker EXCEPT ![w] = l]
    BY <1>2, <2>1, <2>3, Zenon DEF StepUnheard
  <2>6. QED
    BY <1>2, <2>4, <2>5 DEF StepUnheard, Wrong, world, Typed, Restarts
<1>3. ASSUME NEW stride \in Strides, TickByHand(stride)
      PROVE  Typed' /\ ~Restarts' /\ troubles' # {}
  <2>1. time + stride \in Nat
    BY TempoAssumption DEF Typed
  <2>2. time' \in Nat /\ observed' \in Nat /\ pending' \subseteq pending
    BY <1>3, <2>1, Served DEF TickByHand
  <2>3. QED
    BY <1>3, <2>2 DEF TickByHand, Wrong, Typed, Restarts
<1>4. QED
  BY <1>1, <1>2, <1>3

LEMMA NextInv == Inv /\ [Next]_vars => Inv'
<1>1. SUFFICES ASSUME Inv, [Next]_vars PROVE Inv'
  OBVIOUS
<1>2. Typed /\ (Restarts => Common /\ Early) /\ (troubles = {} => Restarts /\ Delay)
  BY <1>1 DEF Inv, Restarts
<1>3. CASE Pass
  <2>1. Typed' /\ troubles' = troubles
    BY <1>2, <1>3, BeatTyped DEF Pass
  <2>2. QED
    BY <1>2, <1>3, <2>1, PassCommon, PassEarly, PassDelay DEF Inv, Restarts
<1>4. ASSUME NEW w \in Workers, Step(w) PROVE Inv'
  <2>1. PICK k \in WorkerType : /\ Polled(w, k) /\ (Refused(w, k) \/ Granted(w, k))
                                /\ troubles' = troubles
    BY <1>2, <1>4, StepIs
  <2>2. Typed'
    BY <1>2, <2>1, StepTyped
  <2>3. Restarts => Common' /\ Early'
    BY <1>2, <2>1, StepCommon, StepEarly
  <2>4. troubles = {} => Delay'
    BY <1>2, <2>1, StepDelay
  <2>5. QED
    BY <2>1, <2>2, <2>3, <2>4 DEF Inv, Restarts
<1>5. ASSUME NEW w \in Workers, Stop(w) \/ Start(w) PROVE Inv'
  <2>1. Typed' /\ (Restarts => Common' /\ Early')
    BY <1>2, <1>5, AnewIs, AnewCommon, AnewEarly
  <2>2. Restarts' => Restarts
    BY <1>5 DEF Stop, Start, Wrong, Restarts
  <2>3. troubles' # {}
    <3>1. CASE Stop(w)
      BY <3>1 DEF Stop, Wrong
    <3>2. CASE Start(w)
      <4>1. w \in Workers \ Up /\ troubles' = troubles
        BY <3>2 DEF Start, Up
      <4>2. QED
        BY <1>2, <4>1 DEF Delay
    <3>3. QED
      BY <1>5, <3>1, <3>2
  <2>4. QED
    BY <2>1, <2>2, <2>3 DEF Inv
<1>6. ASSUME NEW length \in Lengths, Order(length) PROVE Inv'
  <2>1. Typed' /\ troubles' = troubles
    BY <1>2, <1>6, OrderTyped DEF Order
  <2>2. QED
    BY <1>2, <1>6, <2>1, OrderCommon, OrderEarly, OrderDelay DEF Inv, Restarts
<1>7. CASE \/ PassLate
           \/ \E w \in Workers : StepUnheard(w)
           \/ \E stride \in Strides : TickByHand(stride)
  BY <1>2, <1>7, WrongTyped DEF Inv
<1>8. CASE UNCHANGED vars
  BY <1>2, <1>8 DEF vars, Inv, Typed, Restarts, Common, Waiting, Granting, Early, Earned,
     Stamped, Up, Delay, AtRest, Behind
<1>9. QED
  BY <1>1, <1>3, <1>4, <1>5, <1>6, <1>7, <1>8 DEF Next

LEMMA Invariance == Spec => []Inv
BY InitInv, NextInv, PTL DEF Spec

(* The delay of a journey does not add up: as long as nothing went wrong,  *)
(* none waits for more than three polls longer than it lasts, however many *)
(* were ordered before it and however often the world was quiet in between.*)
THEOREM DelayDoesNotAddUp == Spec => []DelayIsBounded
<1>1. ASSUME Inv, troubles = {}, NEW p \in pending
      PROVE  (p.age - 3 * Poll) * Minutes < p.length * Beats
  <2>1. Typed /\ Common /\ Delay /\ p \in ActionType
    BY <1>1 DEF Inv, Restarts, Typed
  <2>2. /\ Worth(Stamped(p)) = Worth(p.due) - Worth(p.length) /\ Worth(p.due) \in Int
        /\ Worth(p.length) \in Int /\ Gone(p.age) \in Int
        /\ Worth(observed) \in Int /\ Beats \in Nat \ {0} /\ Gone(Poll) \in Nat
    BY <2>1, EarnedIs, WorthIs, GoneIs, Parts DEF Typed
  <2>3. Worth(observed) + Beats <= Worth(p.due)
    <3>1. observed \in Int /\ p.due \in Int /\ observed < p.due
      BY <2>1 DEF Typed, ActionType, Common, Waiting
    <3>2. QED
      BY <3>1, WorthOf
  <2>4. Gone(p.age) < Worth(p.length) + 3 * Gone(Poll)
    <3>1. CASE Workers = {}
      <4>1. Gone(p.age) = 0
        BY <2>1, <3>1, GoneIs DEF Delay
      <4>2. p.length \in Nat \ {0}
        BY <2>1, TempoAssumption DEF Common, Waiting
      <4>3. PICK l \in Int : l = p.length /\ 0 < l /\ 0 \in Int
        BY <4>2
      <4>4. Worth(0) + Beats <= Worth(l)
        BY <4>3, WorthOf
      <4>5. QED
        BY <2>2, <4>1, <4>3, <4>4, WorthIs
    <3>2. CASE Workers # {}
      <4>1. PICK w \in Workers : TRUE
        BY <3>2
      <4>2. worker[w] \in WorkerType /\ Granting(worker[w]) /\ Reckoned(worker[w]) \in Int
        BY <2>1, Clocks DEF Typed, Common
      <4>3. Worth(Stamped(p)) + Gone(p.age) <= Reckoned(worker[w]) + 2 * Gone(Poll)
        BY <2>1 DEF Delay, Behind
      <4>4. Reckoned(worker[w]) < Worth(p.due) + Gone(Poll)
        <5>1. CASE worker[w].idle = None
          BY <2>2, <2>3, <4>2, <5>1, Clocks DEF Granting
        <5>2. CASE worker[w].idle # None
          <6>1. /\ worker[w].idle \in Nat /\ Reckoned(worker[w]) <= Worth(worker[w].idle)
                /\ Worth(worker[w].idle) \in Nat
            BY <4>2, <5>2, Clocks
          <6>2. worker[w].idle <= observed
            BY <2>1, <4>2, <5>2, <6>1 DEF Granting, Common, Typed
          <6>3. worker[w].idle \in Int /\ observed \in Int
            BY <2>1, <6>1 DEF Typed
          <6>4. Worth(worker[w].idle) <= Worth(observed)
            BY <6>2, <6>3, WorthOf
          <6>5. QED
            BY <2>2, <2>3, <4>2, <6>1, <6>4
        <5>3. QED
          BY <5>1, <5>2
      <4>5. QED
        BY <2>2, <4>2, <4>3, <4>4
    <3>3. QED
      BY <3>1, <3>2
  <2>5. PICK a \in Int, l \in Int : a = p.age /\ l = p.length
    BY <2>1 DEF ActionType
  <2>6. Poll \in Int /\ 2 \in Int /\ 3 * Poll \in Int /\ a - 3 * Poll \in Int /\ 2 * Poll \in Int
    BY Parts
  <2>7. Gone(a - 3 * Poll) = Gone(a) - Gone(3 * Poll)
    BY <2>6, GoneOf
  <2>8. Gone(3 * Poll) = 3 * Gone(Poll)
    <3>1. Gone(Poll + Poll) = Gone(Poll) + Gone(Poll)
      BY <2>6, GoneOf
    <3>2. Gone((Poll + Poll) + Poll) = Gone(Poll + Poll) + Gone(Poll)
      <4>1. Poll + Poll \in Int
        BY <2>6
      <4>2. QED
        BY <2>6, <4>1, GoneOf
    <3>3. (Poll + Poll) + Poll = 3 * Poll
      BY <2>6
    <3>4. QED
      BY <2>2, <3>1, <3>2, <3>3
  <2>9. Gone(a - 3 * Poll) < Worth(l)
    BY <2>2, <2>4, <2>5, <2>7, <2>8
  <2>10. QED
    BY <2>5, <2>9 DEF Gone, Worth
<1>2. Inv => DelayIsBounded
  BY <1>1 DEF DelayIsBounded
<1>3. QED
  BY <1>2, Invariance, PTL

(* A journey that was ordered in a quiet world never ends before it has    *)
(* lasted as long as the tempo says, and any other at most a minute and a  *)
(* poll before, also with workers that are restarted.                      *)
THEOREM NoJourneyIsEarly == Spec => NeverEarly
<1>1. ASSUME Inv, Restarts, NEW w \in Workers, NEW p \in pending,
             Step(w), p \notin pending'
      PROVE  IF p.quiet THEN p.age * Minutes >= p.length * Beats
             ELSE (p.age + Poll) * Minutes >= (p.length - 1) * Beats
  <2>1. Typed /\ Common /\ Early /\ p \in ActionType
    BY <1>1 DEF Inv, Typed
  <2>2. PICK k \in WorkerType : Polled(w, k) /\ (Refused(w, k) \/ Granted(w, k))
    BY <1>1, <2>1, StepIs
  <2>3. Worth(p.due) <= Clock(k)
    BY <1>1, <2>1, <2>2, RefusedIs, GrantedIs
  <2>4. /\ Clock(k) = Reckoned(worker[w]) /\ w \in Up /\ Clock(k) \in Int
    BY <2>2, HorizonType DEF Polled, Up
  <2>5. PICK a \in Nat, l \in Int : a = p.age /\ l = p.length /\ a <= MaxElapsed
                                    /\ l \in Lengths \cup Planned
    BY <2>1, TempoAssumption DEF ActionType, Common, Waiting
  <2>6. PICK lag \in Nat : lag = IF p.quiet THEN 0 ELSE Beats + Gone(Poll)
    BY GoneIs, Parts
  <2>7. /\ Earned(p) = Worth(p.due) - Worth(l) + Gone(a) + lag
        /\ Worth(p.due) \in Int /\ Worth(l) \in Int /\ Gone(a) \in Int
    BY <2>1, <2>5, <2>6, EarnedIs
  <2>8. Worth(l) <= Gone(a) + lag
    <3>1. CASE a < MaxElapsed
      <4>1. Reckoned(worker[w]) <= Earned(p)
        BY <2>1, <2>4, <2>5, <3>1 DEF Early
      <4>2. QED
        BY <2>3, <2>4, <2>7, <4>1
    <3>2. CASE a = MaxElapsed
      <4>1. Worth(l) <= Gone(a)
        BY <2>5, <3>2, LongEnough DEF Worth, Gone
      <4>2. QED
        BY <2>7, <4>1
    <3>3. QED
      BY <2>5, <3>1, <3>2, TempoAssumption
  <2>9. CASE p.quiet
    <3>1. Worth(l) <= Gone(a)
      BY <2>6, <2>7, <2>8, <2>9
    <3>2. QED
      BY <2>5, <2>7, <2>9, <3>1 DEF Worth, Gone
  <2>10. CASE ~p.quiet
    <3>1. a \in Int /\ Poll \in Int /\ 1 \in Int
      BY Parts
    <3>2. Gone(a + Poll) = Gone(a) + Gone(Poll)
      BY <3>1, GoneOf
    <3>3. Worth(l - 1) = Worth(l) - Worth(1)
      BY <3>1, WorthOf
    <3>4. Worth(1) = Beats /\ Beats \in Int /\ Gone(Poll) \in Int
      <4>1. Beats \in Nat \ {0}
        BY Parts
      <4>2. Worth(1) = Beats
        BY <4>1, Products DEF Worth
      <4>3. QED
        BY <3>1, <4>1, <4>2, GoneIs
    <3>5. Worth(l - 1) <= Gone(a + Poll)
      BY <2>6, <2>7, <2>8, <2>10, <3>2, <3>3, <3>4
    <3>6. (l - 1) * Beats <= (a + Poll) * Minutes
      BY <3>5 DEF Worth, Gone
    <3>7. (l - 1) * Beats \in Int /\ (a + Poll) * Minutes \in Int
      BY <2>5, <3>1, Parts
    <3>8. QED
      BY <2>5, <2>10, <3>6, <3>7
  <2>11. QED
    BY <2>9, <2>10
<1>2. ASSUME Inv
      PROVE  [troubles \subseteq {"restart"} =>
                \A w \in Workers, p \in pending :
                  Step(w) /\ p \notin pending' =>
                    IF p.quiet THEN p.age * Minutes >= p.length * Beats
                    ELSE (p.age + Poll) * Minutes >= (p.length - 1) * Beats]_vars
  BY <1>1, <1>2 DEF Restarts
<1>3. QED
  BY <1>2, Invariance, PTL DEF NeverEarly
=============================================================================
