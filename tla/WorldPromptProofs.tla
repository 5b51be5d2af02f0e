--------------------------- MODULE WorldPromptProofs ---------------------------
(***************************************************************************)
(* Proofs about a world that is served promptly and whose weights are sober*)
(* (Prompt, Sober): whatever its map, whoever lives there and whatever an  *)
(* operator orders, nothing on its schedule is ever refused.               *)
(*                                                                         *)
(* Crossings are exact there (Exact), since nobody answers a need that he  *)
(* does not feel (Orderly); they are served before the next level of the   *)
(* need is reached (InTime); and a step is served before its agent arrives *)
(* from a journey he was sent on meanwhile (StepsFirst).                   *)
(*                                                                         *)
(* Where they care besides (Caring), every need is met: whoever is free and*)
(* is not going to think will be told before he feels anything he could    *)
(* answer (Wakeful), and news comes before whatever is due later           *)
(* (BatchFirst).                                                           *)
(***************************************************************************)
EXTENDS WorldProofs

-----------------------------------------------------------------------------
(* Steps in order. A goal has one step on the schedule at most, and that   *)
(* until it is taken; only who has a goal has a step; who has set out has  *)
(* taken it long before he arrives, who rests has none; who is about to    *)
(* think has no goal; who is about to eat, or to rest, is hungry, or tired.*)
Hungry(a, at) == Level("hunger", a.baseline["hunger"], at) # "normal"
Tired(a, at) == Level("fatigue", a.baseline["fatigue"], at) # "normal"

Orderly(a, X, at) ==
  /\ \A x \in X : x.kind \in Steps => a.goal # "idle" /\ x.due <= at
  /\ \A x, y \in X : x.kind \in Steps /\ y.kind \in Steps => x = y
  /\ \A x, y \in X : x.kind = "rest.complete" => y.kind \notin Steps
  /\ \A x, y \in X : x.kind = "journey.complete" /\ y.kind \in Steps => y.due < x.due
  /\ \A x \in X : x.kind = "agent.decide" => a.goal = "idle"
  /\ \A x \in X : x.kind = "agent.eat" => Hungry(a, at)
  /\ \A x \in X : x.kind \in {"agent.rest", "rest.complete"} => Tired(a, at)

AllOrderly(s) == \A ag \in Agents : Orderly(s.agents[ag], Of(s.schedule, ag), s.time)

(* What is felt is felt for good, if nothing is done about it.             *)
LEMMA LevelStays ==
  ASSUME NEW n \in Needs, NEW B \in Nat, NEW at \in Nat, NEW later \in Nat, at <= later,
         Level(n, B, at) # "normal"
  PROVE  Level(n, B, later) # "normal"
<1>1. ASSUME NEW l \in {"warning", "critical"}, Reached(n, B, at, l)
      PROVE  Reached(n, B, later, l)
  <2>1. PICK much \in Nat : much = ReachedAt[l] * Full[n]
    BY NeedsHaveRates, Thresholds
  <2>2. at > B /\ (at - B) * 1000 >= much
    BY <1>1, <2>1 DEF Reached
  <2>3. later > B /\ (later - B) * 1000 >= much
    BY <2>2
  <2>4. QED
    BY <2>1, <2>3 DEF Reached
<1>2. Reached(n, B, at, "warning") \/ Reached(n, B, at, "critical")
  BY DEF Level
<1>3. Reached(n, B, later, "warning") \/ Reached(n, B, later, "critical")
  BY <1>1, <1>2
<1>4. QED
  BY <1>3 DEF Level

LEMMA OrderlyLater ==
  ASSUME NEW a \in Stored, NEW X \in SUBSET Planned, NEW at \in Nat, NEW later \in Nat,
         at <= later, Orderly(a, X, at)
  PROVE  Orderly(a, X, later)
<1>1. a.baseline["hunger"] \in Nat /\ a.baseline["fatigue"] \in Nat
  BY DEF Stored, Needs
<1>2. (Hungry(a, at) => Hungry(a, later)) /\ (Tired(a, at) => Tired(a, later))
  BY <1>1, LevelStays DEF Hungry, Tired, Needs
<1>3. \A x \in X : x.due <= at => x.due <= later
  <2>1. \A x \in X : x.due \in Nat
    BY DEF Planned
  <2>2. \A d \in Nat : d <= at => d <= later
    OBVIOUS
  <2>3. QED
    BY <2>1, <2>2
<1>4. QED
  BY <1>2, <1>3 DEF Orderly

(* Kinds of actions that order has to do with.                             *)
Ordered == Steps \cup NamedByEvent

(* Who keeps goal and needs can lose any action; what comes is in order.   *)
LEMMA OrderlySame ==
  ASSUME NEW a, NEW b, NEW X, NEW at, Orderly(a, X, at),
         b.goal = a.goal, b.baseline = a.baseline, NEW Gone,
         NEW New,
         \A x \in New : x.kind \notin Ordered /\ (x.kind = "agent.decide" => b.goal = "idle")
  PROVE  Orderly(b, (X \ Gone) \cup New, at)
<1> DEFINE Y == (X \ Gone) \cup New
<1>1. \A x \in Y : x.kind \in Ordered => x \in X
  OBVIOUS
<1>2. \A x \in Y : x.kind = "agent.decide" => b.goal = "idle"
  BY DEF Orderly
<1>3. (Hungry(a, at) <=> Hungry(b, at)) /\ (Tired(a, at) <=> Tired(b, at))
  BY DEF Hungry, Tired
<1> HIDE DEF Y
<1>4. Orderly(b, Y, at)
  BY <1>1, <1>2, <1>3 DEF Orderly, Ordered, Steps, NamedByEvent
<1>5. QED
  BY <1>4 DEF Y

(* Who has no goal any more has no step and no rest to end.                *)
LEMMA OrderlyFree ==
  ASSUME NEW b, b.goal = "idle", NEW at,
         NEW Y, \A x \in Y : x.kind \notin Steps /\ x.kind # "rest.complete"
  PROVE  Orderly(b, Y, at)
  BY DEF Orderly, Steps

(* Who sets out arrives after every step that is due.                      *)
LEMMA OrderlyLeaving ==
  ASSUME NEW a, NEW b, NEW X \in SUBSET Planned, NEW at \in Nat, Orderly(a, X, at),
         b.goal = a.goal, b.baseline = a.baseline, NEW Gone,
         NEW x \in Planned, x.kind = "journey.complete", at < x.due
  PROVE  Orderly(b, (X \ Gone) \cup {x}, at)
<1> DEFINE Y == (X \ Gone) \cup {x}
<1>1. \A y \in Y : y.kind # "journey.complete" => y \in X
  OBVIOUS
<1>2. \A y, z \in Y : y.kind = "journey.complete" /\ z.kind \in Steps => z.due < y.due
  <2> SUFFICES ASSUME NEW y \in Y, NEW z \in Y, y.kind = "journey.complete", z.kind \in Steps
               PROVE  z.due < y.due
    OBVIOUS
  <2>1. z \in X /\ z.due <= at
    BY <1>1 DEF Orderly, Steps
  <2>2. y \in X \/ y = x
    OBVIOUS
  <2>3. z.due \in Nat /\ x.due \in Nat
    BY <2>1 DEF Planned
  <2>4. QED
    BY <2>1, <2>2, <2>3 DEF Orderly
<1>3. (Hungry(a, at) <=> Hungry(b, at)) /\ (Tired(a, at) <=> Tired(b, at))
  BY DEF Hungry, Tired
<1> HIDE DEF Y
<1>4. Orderly(b, Y, at)
  BY <1>1, <1>2, <1>3 DEF Orderly, Steps
<1>5. QED
  BY <1>4 DEF Y

(* Who lies down has taken his step.                                       *)
LEMMA OrderlyLying ==
  ASSUME NEW a, NEW b, NEW X, NEW at, Orderly(a, X, at),
         b.goal = a.goal, b.baseline = a.baseline,
         NEW Gone, NEW step \in X, step \in Gone, step.kind = "agent.rest",
         NEW x, x.kind = "rest.complete"
  PROVE  Orderly(b, (X \ Gone) \cup {x}, at)
<1> DEFINE Y == (X \ Gone) \cup {x}
<1>1. \A y \in Y : y.kind \notin Steps
  BY DEF Orderly, Steps
<1>2. Tired(b, at)
  BY DEF Orderly, Tired
<1>3. \A y \in Y : y.kind = "agent.decide" => b.goal = "idle"
  BY DEF Orderly
<1> HIDE DEF Y
<1>4. Orderly(b, Y, at)
  BY <1>1, <1>2, <1>3 DEF Orderly, Steps
<1>5. QED
  BY <1>4 DEF Y

(* Who chooses a goal had none, and is given one step at most.             *)
LEMMA OrderlyChosen ==
  ASSUME NEW a, NEW b, NEW X, NEW at \in Nat, Orderly(a, X, at), a.goal = "idle", b.goal # "idle",
         \A x \in X : x.kind \notin NamedByEvent,
         NEW Gone, \A x \in X : x.kind = "agent.decide" => x \in Gone,
         NEW step, step.kind \in Steps, step.due = at,
         step.kind = "agent.eat" => Hungry(b, at), step.kind = "agent.rest" => Tired(b, at)
  PROVE  Orderly(b, (X \ Gone) \cup {step}, at)
<1> DEFINE Y == (X \ Gone) \cup {step}
<1>1. \A y \in Y : y.kind \in Steps => y = step
  BY DEF Orderly
<1>2. \A y \in Y : y.kind \notin NamedByEvent /\ y.kind # "agent.decide"
  BY DEF Steps, NamedByEvent
<1> HIDE DEF Y
<1>3. Orderly(b, Y, at)
  BY <1>1, <1>2 DEF Orderly, Steps, NamedByEvent
<1>4. QED
  BY <1>3 DEF Y

-----------------------------------------------------------------------------
(* What evolve leaves of the order, and what it adds to the schedule.      *)

(* What is new is not before the event, and a new step is one of somebody  *)
(* who stands about and has chosen it.                                     *)
Ahead(s, e, y) ==
  /\ y.due >= e.at
  /\ y.kind \in Steps => e.type = "goal.chosen" /\ s.agents[y.agent].status = "idle"

Follows(s, e, t) ==
  /\ AllOrderly(t)
  /\ \A y \in t.schedule : y \in s.schedule \/ Ahead(s, e, y)

(* A decision that is scheduled is in order.                               *)
LEMMA WithDecisionFollows ==
  ASSUME NEW s, NEW u \in States, NEW e, e.agent \in Agents, e.at \in Nat, Follows(s, e, u)
  PROVE  Follows(s, e, WithDecision(u, e))
<1>1. CASE ~Free(u.agents[e.agent])
  <2>1. WithDecision(u, e) = u
    BY <1>1 DEF WithDecision
  <2>2. QED
    BY <2>1
<1>2. CASE Free(u.agents[e.agent])
  <2>1. PICK g \in Agents : g = e.agent
    OBVIOUS
  <2>2. PICK x : x = Action("agent.decide", e.agent, e.at, u.sequence)
    OBVIOUS
  <2>3. x.kind = "agent.decide" /\ x.agent = g /\ x.due = e.at
    BY <2>1, <2>2 DEF Action
  <2>4. PICK Gone : Gone = {y \in Of(u.schedule, e.agent) : y.kind \in {"agent.decide"}}
    OBVIOUS
  <2>5. PICK Y : Y = (u.schedule \ Gone) \cup {x}
    OBVIOUS
  <2>6. PICK t : t = [u EXCEPT !.schedule = Y]
    OBVIOUS
  <2>7. t.agents = u.agents /\ t.schedule = Y /\ t.time = u.time
    BY <2>6 DEF States
  <2>8. WithDecision(u, e) = t
    BY <1>2, <2>2, <2>4, <2>5, <2>6 DEF WithDecision, Without
  <2>9. ASSUME NEW ag \in Agents PROVE Orderly(t.agents[ag], Of(t.schedule, ag), t.time)
    <3>1. PICK a : a = u.agents[ag]
      OBVIOUS
    <3>2. PICK X : X = Of(u.schedule, ag)
      OBVIOUS
    <3>3. Orderly(a, X, u.time)
      BY <3>1, <3>2 DEF Follows, AllOrderly
    <3>4. CASE ag = g
      <4>1. Of(t.schedule, ag) = (X \ Gone) \cup {x}
        BY <2>3, <2>5, <2>7, <3>2, <3>4 DEF Of
      <4>2. a.goal = "idle"
        BY <1>2, <2>1, <3>1, <3>4 DEF Free
      <4>3. \A y \in {x} : y.kind \notin Ordered /\ (y.kind = "agent.decide" => a.goal = "idle")
        BY <2>3, <4>2 DEF Ordered, Steps, NamedByEvent
      <4>4. Orderly(a, (X \ Gone) \cup {x}, u.time)
        BY <3>3, <4>3, OrderlySame
      <4>5. QED
        BY <2>7, <3>1, <4>1, <4>4
    <3>5. CASE ag # g
      <4>1. Of(t.schedule, ag) = X
        BY <2>1, <2>3, <2>4, <2>5, <2>7, <3>2, <3>5 DEF Of
      <4>2. QED
        BY <2>7, <3>1, <3>3, <4>1
    <3>6. QED
      BY <3>4, <3>5
  <2>10. \A y \in t.schedule : y \in s.schedule \/ Ahead(s, e, y)
    <3>1. Ahead(s, e, x)
      BY <2>3 DEF Ahead, Steps
    <3>2. QED
      BY <2>5, <2>7, <3>1 DEF Follows
  <2>11. QED
    BY <2>8, <2>9, <2>10 DEF Follows, AllOrderly
<1>3. QED
  BY <1>1, <1>2

(* Order is kept if it is by the agent of the event.                       *)
Keeps(s, e, g, b, Gone, New) ==
  /\ \A y \in New : y.agent = g /\ Ahead(s, e, y)
  /\ \A y \in Gone : y.agent = g
  /\ Orderly(b, (Of(s.schedule, g) \ Gone) \cup New, s.time)

Becomes(s, g, b, Gone, New, u) ==
  /\ u.time = s.time /\ u.agents = [s.agents EXCEPT ![g] = b]
  /\ u.schedule = (s.schedule \ Gone) \cup New

LEMMA MoveFollows ==
  ASSUME NEW s \in States, AllOrderly(s), NEW e, NEW g \in Agents, g = e.agent, e.at \in Nat,
         NEW b, NEW Gone, NEW New, Keeps(s, e, g, b, Gone, New),
         NEW u \in States, Becomes(s, g, b, Gone, New, u)
  PROVE  Follows(s, e, u) /\ Follows(s, e, WithDecision(u, e))
<1> USE DEF Becomes
<1>1. ASSUME NEW ag \in Agents PROVE Orderly(u.agents[ag], Of(u.schedule, ag), u.time)
  <2>1. CASE ag = g
    <3>1. u.agents[ag] = b
      BY <2>1 DEF States
    <3>2. Of(u.schedule, ag) = (Of(s.schedule, g) \ Gone) \cup New
      BY <2>1 DEF Of, Keeps
    <3>3. QED
      BY <3>1, <3>2 DEF Keeps
  <2>2. CASE ag # g
    <3>1. u.agents[ag] = s.agents[ag]
      BY <2>2 DEF States
    <3>2. Of(u.schedule, ag) = Of(s.schedule, ag)
      BY <2>2 DEF Of, Keeps
    <3>3. QED
      BY <3>1, <3>2 DEF AllOrderly
  <2>3. QED
    BY <2>1, <2>2
<1>2. \A y \in u.schedule : y \in s.schedule \/ Ahead(s, e, y)
  BY DEF Keeps
<1>3. Follows(s, e, u)
  BY <1>1, <1>2 DEF Follows, AllOrderly
<1>4. QED
  BY <1>3, WithDecisionFollows

LEMMA FollowsMoved ==
  ASSUME NEW s \in States, AllOrderly(s), NEW e, NEW g \in Agents, g = e.agent, e.at \in Nat,
         NEW b \in Stored, NEW Gone, NEW New \in SUBSET Planned, Keeps(s, e, g, b, Gone, New),
         NEW u, u = Moved(s, g, b, Gone, New)
  PROVE  Follows(s, e, u) /\ Follows(s, e, WithDecision(u, e))
<1>1. u \in States /\ Becomes(s, g, b, Gone, New, u)
  BY MovedIsState DEF Becomes
<1>2. QED
  BY <1>1, MoveFollows

-----------------------------------------------------------------------------
(* The order after each event. Here s has the time of the event already.   *)

LEMMA StartFollows ==
  ASSUME NEW s \in States, AllOrderly(s), NEW e, Decodable(e), e.type = "journey.started",
         s.time = e.at, e.payload.arrival > e.at
  PROVE  Follows(s, e, JourneyStarted(s, e))
<1>1. PICK g \in Agents : g = e.agent
  BY DecodedIs
<1>2. PICK r \in Routes : r = e.payload.route
  BY DecodedIs
<1>3. PICK a \in Stored : a = s.agents[g]
  BY DEF States
<1>4. PICK b : b = OffTo(a, r)
  OBVIOUS
<1>5. b \in Stored /\ b.goal = a.goal
  BY <1>4, OffToIsStored
<1>6. b.baseline = a.baseline
  BY <1>4 DEF OffTo, Stored
<1>7. PICK x : x = Arrival(g, e.payload.arrival, s.sequence, r)
  OBVIOUS
<1>8. e.payload.arrival \in Nat /\ e.at \in Nat /\ s.sequence \in Nat
  BY DecodedIs DEF States
<1>9. x \in Planned /\ x.kind = "journey.complete" /\ x.agent = g
  BY <1>7, <1>8, NewArrival
<1>10. x.due = e.payload.arrival
  BY <1>7 DEF Arrival, Action
<1>11. PICK Gone : Gone = {y \in Of(s.schedule, g) : y.kind \in {"agent.travel"}}
  OBVIOUS
<1>12. PICK New : New = {x}
  OBVIOUS
<1>13. PICK t : t = Moved(s, g, b, Gone, New)
  OBVIOUS
<1>14. JourneyStarted(s, e) = t
  BY <1>1, <1>2, <1>3, <1>4, <1>7, <1>11, <1>12, <1>13, JourneyStartedIsMove
<1>15. \A y \in Gone : y.agent = g
  BY <1>11 DEF Of
<1>16. New \in SUBSET Planned /\ \A y \in New : y.agent = g /\ Ahead(s, e, y)
  BY <1>8, <1>9, <1>10, <1>12 DEF Ahead, Steps
<1>17. Orderly(b, (Of(s.schedule, g) \ Gone) \cup New, s.time)
  <2>1. PICK X : X = Of(s.schedule, g)
    OBVIOUS
  <2>2. X \in SUBSET Planned /\ Orderly(a, X, s.time) /\ s.time \in Nat
    BY <1>3, <1>8, <2>1 DEF AllOrderly, Of, States
  <2>3. s.time < x.due
    BY <1>8, <1>10
  <2>4. QED
    BY <1>5, <1>6, <1>9, <1>12, <2>1, <2>2, <2>3, OrderlyLeaving
<1>18. Follows(s, e, t)
  <2>1. Keeps(s, e, g, b, Gone, New)
    BY <1>15, <1>16, <1>17 DEF Keeps
  <2>2. QED
    BY <1>1, <1>5, <1>8, <1>13, <1>16, <2>1, FollowsMoved
<1>19. QED
  BY <1>14, <1>18

LEMMA RestFollows ==
  ASSUME NEW s \in States, AllOrderly(s), NEW e, Decodable(e), e.type = "rest.started",
         s.time = e.at, e.payload.ending >= e.at,
         NEW step \in Of(s.schedule, e.agent), step.kind = "agent.rest"
  PROVE  Follows(s, e, RestStarted(s, e))
<1>1. PICK g \in Agents : g = e.agent
  BY DecodedIs
<1>2. PICK a \in Stored : a = s.agents[g]
  BY DEF States
<1>3. PICK b : b = LyingDown(a)
  OBVIOUS
<1>4. b \in Stored /\ b.goal = a.goal
  BY <1>3, LyingDownIsStored
<1>5. b.baseline = a.baseline
  BY <1>3 DEF LyingDown, Stored
<1>6. PICK x : x = Action("rest.complete", g, e.payload.ending, s.sequence)
  OBVIOUS
<1>7. e.payload.ending \in Nat /\ e.at \in Nat /\ s.sequence \in Nat
  BY DecodedIs DEF States
<1>8. x \in Planned /\ x.kind = "rest.complete" /\ x.agent = g
  BY <1>6, <1>7, NewAction DEF Plain
<1>9. x.due = e.payload.ending
  BY <1>6 DEF Action
<1>10. PICK Gone : Gone = {y \in Of(s.schedule, g) : y.kind \in {"agent.rest"}}
  OBVIOUS
<1>11. PICK New : New = {x}
  OBVIOUS
<1>12. PICK t : t = Moved(s, g, b, Gone, New)
  OBVIOUS
<1>13. RestStarted(s, e) = t
  BY <1>1, <1>2, <1>3, <1>6, <1>10, <1>11, <1>12, RestStartedIsMove
<1>14. \A y \in Gone : y.agent = g
  BY <1>10 DEF Of
<1>15. New \in SUBSET Planned /\ \A y \in New : y.agent = g /\ Ahead(s, e, y)
  BY <1>8, <1>9, <1>11 DEF Ahead, Steps
<1>16. Orderly(b, (Of(s.schedule, g) \ Gone) \cup New, s.time)
  <2>1. PICK X : X = Of(s.schedule, g)
    OBVIOUS
  <2>2. Orderly(a, X, s.time)
    BY <1>2, <2>1 DEF AllOrderly
  <2>3. step \in X /\ step \in Gone
    BY <1>1, <1>10, <2>1
  <2>4. QED
    BY <1>4, <1>5, <1>8, <1>11, <2>1, <2>2, <2>3, OrderlyLying
<1>17. Follows(s, e, t)
  <2>1. Keeps(s, e, g, b, Gone, New)
    BY <1>14, <1>15, <1>16 DEF Keeps
  <2>2. QED
    BY <1>1, <1>4, <1>7, <1>12, <1>15, <2>1, FollowsMoved
<1>18. QED
  BY <1>13, <1>17

LEMMA RiskFollows ==
  ASSUME NEW s \in States, AllOrderly(s), NEW e, Decodable(e), e.type = "risk.observed"
  PROVE  Follows(s, e, RiskObserved(s, e))
<1>1. PICK g \in Agents : g = e.agent
  BY DecodedIs
<1>2. PICK r \in Routes : r = e.payload.route
  BY DecodedIs
<1>3. PICK a \in Stored : a = s.agents[g]
  BY DEF States
<1>4. PICK b : b = Learning(a, r)
  OBVIOUS
<1>5. b \in Stored
  BY <1>4, LearningIsStored
<1>6. b.baseline = a.baseline /\ b.goal = a.goal
  BY <1>4 DEF Learning, Stored
<1>7. PICK None : None = {}
  OBVIOUS
<1>8. PICK t : t = Moved(s, g, b, None, None)
  OBVIOUS
<1>9. RiskObserved(s, e) = t
  BY <1>1, <1>2, <1>3, <1>4, <1>7, <1>8, RiskObservedIsMove
<1>10. /\ None \in SUBSET Planned /\ \A y \in None : y.agent = g
       /\ \A y \in None : y.agent = g /\ Ahead(s, e, y)
  BY <1>7
<1>11. Orderly(b, (Of(s.schedule, g) \ None) \cup None, s.time)
  <2>1. Orderly(a, Of(s.schedule, g), s.time)
    BY <1>3 DEF AllOrderly
  <2>2. \A y \in None : y.kind \notin Ordered /\ (y.kind = "agent.decide" => b.goal = "idle")
    BY <1>7
  <2>3. QED
    BY <1>6, <2>1, <2>2, OrderlySame
<1>12. e.at \in Nat
  BY DecodedIs
<1>13. Follows(s, e, t)
  <2>1. Keeps(s, e, g, b, None, None)
    BY <1>10, <1>11 DEF Keeps
  <2>2. QED
    BY <1>1, <1>5, <1>8, <1>10, <1>12, <2>1, FollowsMoved
<1>14. QED
  BY <1>9, <1>13

LEMMA FailureFollows ==
  ASSUME NEW s \in States, AllOrderly(s), NEW e, Decodable(e), e.type = "plan.invalidated"
  PROVE  Follows(s, e, PlanInvalidated(s, e))
<1>1. PICK g \in Agents : g = e.agent
  BY DecodedIs
<1>2. PICK a \in Stored : a = s.agents[g]
  BY DEF States
<1>3. PICK b : b = GivingUp(a)
  OBVIOUS
<1>4. b \in Stored /\ b.goal = "idle"
  BY <1>3, GivingUpIsStored
<1>5. PICK Gone : Gone = {y \in Of(s.schedule, g) : y.kind \in OfPlan}
  OBVIOUS
<1>6. PICK None : None = {}
  OBVIOUS
<1>7. PICK u : u = Moved(s, g, b, Gone, None)
  OBVIOUS
<1>8. PlanInvalidated(s, e) = WithDecision(u, e)
  BY <1>1, <1>2, <1>3, <1>5, <1>6, <1>7, PlanInvalidatedIsMove
<1>9. /\ None \in SUBSET Planned /\ \A y \in None : y.agent = g /\ Ahead(s, e, y)
      /\ \A y \in Gone : y.agent = g
  BY <1>5, <1>6 DEF Of
<1>10. Orderly(b, (Of(s.schedule, g) \ Gone) \cup None, s.time)
  <2>1. \A y \in (Of(s.schedule, g) \ Gone) \cup None :
          y.kind \notin Steps /\ y.kind # "rest.complete"
    BY <1>5, <1>6 DEF OfPlan, Steps
  <2>2. QED
    BY <1>4, <2>1, OrderlyFree
<1>11. e.at \in Nat
  BY DecodedIs
<1>12. Follows(s, e, WithDecision(u, e))
  <2>1. Keeps(s, e, g, b, Gone, None)
    BY <1>9, <1>10 DEF Keeps
  <2>2. QED
    BY <1>1, <1>4, <1>7, <1>9, <1>11, <2>1, FollowsMoved
<1>13. QED
  BY <1>8, <1>12

LEMMA ArrivalFollows ==
  ASSUME NEW s, NEW F, Good(s, F), AllOrderly(s), NEW e, Decodable(e),
         e.type = "journey.completed",
         NEW x \in s.schedule, x.kind = "journey.complete", x.agent = e.agent, e.caused = {Id(x)},
         \A y \in Of(s.schedule, e.agent) : y.kind \notin Steps
  PROVE  Follows(s, e, JourneyCompleted(s, e))
<1>1. PICK g \in Agents : g = e.agent
  BY DecodedIs
<1>2. PICK r \in Routes : r = e.payload.route
  BY DecodedIs
<1>3. s \in States
  BY DEF Good
<1>4. PICK a \in Stored : a = s.agents[g]
  BY <1>3 DEF States
<1>5. PICK place \in Places : place = RouteTo[r]
  BY RulesAssumption DEF ValidMap
<1>6. PICK b : b = Arrived(a, place)
  OBVIOUS
<1>7. b \in Stored /\ b.goal = "idle"
  BY <1>6, ArrivedIsStored
<1>8. PICK Gone : Gone = {y \in s.schedule : Id(y) \in e.caused}
  OBVIOUS
<1>9. Gone = {x}
  BY <1>1, <1>8, OnlyOne DEF NamedByEvent
<1>10. PICK None : None = {}
  OBVIOUS
<1>11. PICK u : u = Moved(s, g, b, Gone, None)
  OBVIOUS
<1>12. JourneyCompleted(s, e) = WithDecision(u, e)
  BY <1>1, <1>2, <1>3, <1>4, <1>5, <1>6, <1>8, <1>10, <1>11, JourneyCompletedIsMove
<1>13. /\ None \in SUBSET Planned /\ \A y \in None : y.agent = g /\ Ahead(s, e, y)
       /\ \A y \in Gone : y.agent = g
  BY <1>1, <1>9, <1>10
<1>14. Orderly(b, (Of(s.schedule, g) \ Gone) \cup None, s.time)
  <2>1. PICK X : X = Of(s.schedule, g)
    OBVIOUS
  <2>2. Fine(a, X, F) /\ x \in X /\ a.status \in Statuses
    BY <1>1, <1>4, <2>1 DEF Good, Of, Stored
  <2>3. \A y \in X : y.kind # "rest.complete"
    BY <2>2 DEF Fine
  <2>4. \A y \in (X \ Gone) \cup None : y.kind \notin Steps /\ y.kind # "rest.complete"
    BY <1>1, <1>10, <2>1, <2>3
  <2>5. QED
    BY <1>7, <2>1, <2>4, OrderlyFree
<1>15. e.at \in Nat
  BY DecodedIs
<1>16. Follows(s, e, WithDecision(u, e))
  <2>1. Keeps(s, e, g, b, Gone, None)
    BY <1>13, <1>14 DEF Keeps
  <2>2. QED
    BY <1>1, <1>3, <1>7, <1>11, <1>13, <1>15, <2>1, FollowsMoved
<1>17. QED
  BY <1>12, <1>16

LEMMA CrossingFollows ==
  ASSUME NEW s \in States, AllOrderly(s), NEW e, Decodable(e),
         e.type = "need.threshold.crossed", \A due \in e.payload.next : due >= e.at
  PROVE  Follows(s, e, NeedThresholdCrossed(s, e))
<1>1. PICK g \in Agents : g = e.agent
  BY DecodedIs
<1>2. PICK need \in Needs : need = e.payload.need
  BY DecodedIs
<1>3. PICK level \in NeedLevels : level = e.payload.level
  BY DecodedIs
<1>4. PICK dues \in SUBSET Nat : dues = e.payload.next
  BY DecodedIs
<1>5. PICK a \in Stored : a = s.agents[g]
  BY DEF States
<1>6. PICK Gone : Gone = {x \in Of(s.schedule, g) : x.kind = "need.threshold" /\ x.need = need}
  OBVIOUS
<1>7. PICK New : New = {Crossing(g, need, due, Worse(level)) : due \in dues}
  OBVIOUS
<1>8. New \in SUBSET Planned
  BY <1>7, NewCrossing DEF Worse
<1>9. \A x \in New : x.agent = g /\ x.kind = "need.threshold" /\ x.due \in dues
  BY <1>7 DEF Crossing, Action
<1>10. PICK u : u = Moved(s, g, a, Gone, New)
  OBVIOUS
<1>11. NeedThresholdCrossed(s, e) = WithDecision(u, e)
  BY <1>1, <1>2, <1>3, <1>4, <1>5, <1>6, <1>7, <1>10, NeedThresholdCrossedIsMove
<1>12. \A x \in New : x.agent = g /\ Ahead(s, e, x)
  BY <1>4, <1>9 DEF Ahead, Steps
<1>13. \A x \in Gone : x.agent = g
  BY <1>6 DEF Of
<1>14. Orderly(a, (Of(s.schedule, g) \ Gone) \cup New, s.time)
  <2>1. Orderly(a, Of(s.schedule, g), s.time)
    BY <1>5 DEF AllOrderly
  <2>2. \A x \in New : x.kind \notin Ordered /\ (x.kind = "agent.decide" => a.goal = "idle")
    BY <1>9 DEF Ordered, Steps, NamedByEvent
  <2>3. QED
    BY <2>1, <2>2, OrderlySame
<1>15. e.at \in Nat
  BY DecodedIs
<1>16. Follows(s, e, WithDecision(u, e))
  <2>1. Keeps(s, e, g, a, Gone, New)
    BY <1>12, <1>13, <1>14 DEF Keeps
  <2>2. QED
    BY <1>1, <1>5, <1>8, <1>10, <1>15, <2>1, FollowsMoved
<1>17. QED
  BY <1>11, <1>16

LEMMA WakingFollows ==
  ASSUME NEW s, NEW F, Good(s, F), AllOrderly(s), NEW e, Decodable(e), e.type = "agent.rested",
         NEW x \in s.schedule, x.kind = "rest.complete", x.agent = e.agent, e.caused = {Id(x)}
  PROVE  Follows(s, e, AgentRested(s, e))
<1>1. PICK g \in Agents : g = e.agent
  BY DecodedIs
<1>2. s \in States
  BY DEF Good
<1>3. PICK a \in Stored : a = s.agents[g]
  BY <1>2 DEF States
<1>4. PICK at \in Nat : at = e.at
  BY DecodedIs
<1>5. PICK b : b = Risen(a, at)
  OBVIOUS
<1>6. b \in Stored /\ b.goal = "idle"
  BY <1>5, RisenIsStored
<1>7. PICK Gone : Gone = {y \in s.schedule : Id(y) \in e.caused}
  OBVIOUS
<1>8. Gone = {x}
  BY <1>1, <1>7, OnlyOne DEF NamedByEvent
<1>9. PICK None : None = {}
  OBVIOUS
<1>10. PICK u : u = Moved(s, g, b, Gone, None)
  OBVIOUS
<1>11. AgentRested(s, e) = WithDecision(u, e)
  BY <1>1, <1>2, <1>3, <1>4, <1>5, <1>7, <1>9, <1>10, AgentRestedIsMove
<1>12. /\ None \in SUBSET Planned /\ \A y \in None : y.agent = g /\ Ahead(s, e, y)
       /\ \A y \in Gone : y.agent = g
  BY <1>1, <1>8, <1>9
<1>13. Orderly(b, (Of(s.schedule, g) \ Gone) \cup None, s.time)
  <2>1. PICK X : X = Of(s.schedule, g)
    OBVIOUS
  <2>2. Fine(a, X, F) /\ x \in X /\ Orderly(a, X, s.time)
    BY <1>1, <1>3, <2>1 DEF Good, Of, AllOrderly
  <2>3. \A y \in X : y.kind \notin Steps /\ (y.kind = "rest.complete" => y = x)
    BY <2>2 DEF Fine, Orderly, NamedByEvent
  <2>4. \A y \in (X \ Gone) \cup None : y.kind \notin Steps /\ y.kind # "rest.complete"
    BY <1>8, <1>9, <2>3
  <2>5. QED
    BY <1>6, <2>1, <2>4, OrderlyFree
<1>14. e.at \in Nat
  BY DecodedIs
<1>15. Follows(s, e, WithDecision(u, e))
  <2>1. Keeps(s, e, g, b, Gone, None)
    BY <1>12, <1>13 DEF Keeps
  <2>2. QED
    BY <1>1, <1>2, <1>6, <1>10, <1>12, <1>14, <2>1, FollowsMoved
<1>16. QED
  BY <1>11, <1>15

LEMMA MealFollows ==
  ASSUME NEW s \in States, AllOrderly(s), NEW e, Decodable(e), e.type = "agent.ate",
         NEW x \in Of(s.schedule, e.agent), x.kind = "agent.eat", x.item = e.payload.item
  PROVE  Follows(s, e, AgentAte(s, e))
<1>1. PICK g \in Agents : g = e.agent
  BY DecodedIs
<1>2. PICK a \in Stored : a = s.agents[g]
  BY DEF States
<1>3. PICK at \in Nat : at = e.at
  BY DecodedIs
<1>4. PICK b : b = Fed(a, at)
  OBVIOUS
<1>5. b \in Stored /\ b.goal = "idle"
  BY <1>4, FedIsStored
<1>6. PICK Gone : Gone = {y \in Of(s.schedule, g) : y.kind = "agent.eat" /\ y.item = e.payload.item}
  OBVIOUS
<1>7. PICK None : None = {}
  OBVIOUS
<1>8. PICK m : m = Moved(s, g, b, Gone, None)
  OBVIOUS
<1>9. /\ m \in States /\ m.time = s.time /\ m.agents = [s.agents EXCEPT ![g] = b]
      /\ m.schedule = (s.schedule \ Gone) \cup None
  BY <1>5, <1>7, <1>8, MovedIsState
<1>10. PICK f : f = Eaten(s.items, e.payload.item)
  OBVIOUS
<1>11. f \in ItemMaps
  BY <1>10, EatenIsMap DEF States
<1>12. PICK u : u = Keeping(m, f)
  OBVIOUS
<1>13. u \in States /\ Becomes(s, g, b, Gone, None, u)
  BY <1>9, <1>11, <1>12 DEF Keeping, States, Becomes
<1>14. AgentAte(s, e) = WithDecision(u, e)
  BY <1>1, <1>2, <1>3, <1>4, <1>6, <1>7, <1>8, <1>10, <1>12, AgentAteIsMove
<1>15. /\ \A y \in None : y.agent = g /\ Ahead(s, e, y)
       /\ \A y \in Gone : y.agent = g
  BY <1>6, <1>7 DEF Of
<1>16. Orderly(b, (Of(s.schedule, g) \ Gone) \cup None, s.time)
  <2>1. PICK X : X = Of(s.schedule, g)
    OBVIOUS
  <2>2. Orderly(a, X, s.time) /\ x \in X /\ x \in Gone
    BY <1>1, <1>2, <1>6, <2>1 DEF AllOrderly
  <2>3. \A y \in X : (y.kind \in Steps => y = x) /\ y.kind # "rest.complete"
    BY <2>2 DEF Orderly, Steps
  <2>4. \A y \in (X \ Gone) \cup None : y.kind \notin Steps /\ y.kind # "rest.complete"
    BY <1>7, <2>2, <2>3
  <2>5. QED
    BY <1>5, <2>1, <2>4, OrderlyFree
<1>17. e.at \in Nat
  BY <1>3
<1>18. Follows(s, e, WithDecision(u, e))
  <2>1. Keeps(s, e, g, b, Gone, None)
    BY <1>15, <1>16 DEF Keeps
  <2>2. QED
    BY <1>1, <1>13, <1>17, <2>1, MoveFollows
<1>19. QED
  BY <1>14, <1>18

(* The one step of a choice.                                               *)
LEMMA StepIsFirst ==
  ASSUME NEW s, NEW e, e.payload.goal \in GoalNames
  PROVE  \/ e.payload.goal = "idle" /\ StepFor(s, e) = {}
         \/ \E x : /\ StepFor(s, e) = {x} /\ x.due = e.at /\ x.agent = e.agent
                   /\ x.kind \in Steps /\ e.payload.goal # "idle"
                   /\ x.kind = "agent.eat" => e.payload.goal = "eat"
                   /\ x.kind = "agent.rest" => e.payload.goal = "rest"
<1>1. CASE e.payload.goal = "flee"
  <2>1. PICK x : x = Action("agent.travel", e.agent, e.at, s.sequence)
    OBVIOUS
  <2>2. StepFor(s, e) = {x}
    BY <1>1, <2>1 DEF StepFor
  <2>3. x.kind = "agent.travel" /\ x.due = e.at /\ x.agent = e.agent
    BY <2>1 DEF Action
  <2>4. QED
    BY <1>1, <2>2, <2>3 DEF Steps
<1>2. CASE e.payload.goal = "rest"
  <2>1. PICK x : x = Action("agent.rest", e.agent, e.at, s.sequence)
    OBVIOUS
  <2>2. StepFor(s, e) = {x}
    BY <1>2, <2>1 DEF StepFor
  <2>3. x.kind = "agent.rest" /\ x.due = e.at /\ x.agent = e.agent
    BY <2>1 DEF Action
  <2>4. QED
    BY <1>2, <2>2, <2>3 DEF Steps
<1>3. CASE e.payload.goal = "eat"
  <2>1. PICK x : x = Meal(e.agent, e.at, s.sequence, FirstFood(s, e.agent))
    OBVIOUS
  <2>2. StepFor(s, e) = {x}
    BY <1>3, <2>1 DEF StepFor
  <2>3. x.kind = "agent.eat" /\ x.due = e.at /\ x.agent = e.agent
    BY <2>1 DEF Meal, Action
  <2>4. QED
    BY <1>3, <2>2, <2>3 DEF Steps
<1>4. CASE e.payload.goal = "idle"
  BY <1>4 DEF StepFor
<1>5. QED
  BY <1>1, <1>2, <1>3, <1>4 DEF GoalNames

LEMMA ChoiceFollows ==
  ASSUME NEW s, NEW F, Good(s, F), AllOrderly(s), NEW e, Decodable(e), e.type = "goal.chosen",
         e.payload.goal = "eat" => FoodOf(s, e.agent) # {}, s.time = e.at,
         s.agents[e.agent].goal = "idle",
         e.payload.goal # "idle" => s.agents[e.agent].status = "idle",
         e.payload.goal = "eat" => Hungry(s.agents[e.agent], e.at),
         e.payload.goal = "rest" => Tired(s.agents[e.agent], e.at)
  PROVE  Follows(s, e, GoalChosen(s, e))
<1>1. PICK g \in Agents : g = e.agent
  BY DecodedIs
<1>2. PICK goal \in GoalNames : goal = e.payload.goal
  BY DecodedIs
<1>3. s \in States /\ s.sequence \in Nat
  BY DEF Good, States
<1>4. PICK a \in Stored : a = s.agents[g]
  BY <1>3 DEF States
<1>5. PICK plan \in Nat : plan = IF goal = "idle" THEN 0 ELSE s.sequence
  BY <1>3
<1>6. PICK b : b = Choosing(a, goal, plan)
  OBVIOUS
<1>7. b \in Stored
  BY <1>2, <1>4, <1>5, <1>6, ChoosingIsStored
<1>8. b.baseline = a.baseline /\ b.goal = goal
  BY <1>6 DEF Choosing, Stored
<1>9. e.at \in Nat
  BY DecodedIs
<1>10. PICK New : New = StepFor(s, e)
  OBVIOUS
<1>11. New \in SUBSET Planned
  BY <1>1, <1>2, <1>3, <1>9, <1>10, StepIsNew
<1>12. PICK Gone : Gone = {y \in Of(s.schedule, g) : y.kind \in {"agent.decide"}}
  OBVIOUS
<1>13. PICK t : t = Moved(s, g, b, Gone, New)
  OBVIOUS
<1>14. GoalChosen(s, e) = t
  BY <1>1, <1>2, <1>3, <1>4, <1>5, <1>6, <1>10, <1>12, <1>13, GoalChosenIsMove
<1>15. PICK X : X = Of(s.schedule, g)
  OBVIOUS
<1>16. Orderly(a, X, s.time) /\ Fine(a, X, F)
  BY <1>4, <1>15 DEF AllOrderly, Good
<1>17. ASSUME goal = "idle", New = {}
       PROVE  /\ Orderly(b, (X \ Gone) \cup New, s.time)
              /\ \A y \in New : y.agent = g /\ Ahead(s, e, y)
  <2>1. \A y \in New : y.kind \notin Ordered /\ (y.kind = "agent.decide" => b.goal = "idle")
    BY <1>17
  <2>2. a.goal = "idle"
    BY <1>1, <1>4
  <2>3. Orderly(b, (X \ Gone) \cup New, s.time)
    BY <1>8, <1>16, <1>17, <2>1, <2>2, OrderlySame
  <2>4. \A y \in New : y.agent = g /\ Ahead(s, e, y)
    BY <1>17
  <2>5. QED
    BY <2>3, <2>4
<1>18. ASSUME NEW x, New = {x}, x.due = e.at, x.agent = e.agent, x.kind \in Steps, goal # "idle",
              x.kind = "agent.eat" => goal = "eat", x.kind = "agent.rest" => goal = "rest"
       PROVE  /\ Orderly(b, (X \ Gone) \cup New, s.time)
              /\ \A y \in New : y.agent = g /\ Ahead(s, e, y)
  <2>1. a.goal = "idle" /\ a.status = "idle"
    BY <1>1, <1>2, <1>4, <1>18
  <2>2. \A y \in X : y.kind \notin NamedByEvent
    BY <1>16, <2>1 DEF Fine, NamedByEvent
  <2>3. \A y \in X : y.kind = "agent.decide" => y \in Gone
    BY <1>12, <1>15
  <2>4. goal = "eat" => Hungry(b, s.time)
    BY <1>1, <1>2, <1>4, <1>8 DEF Hungry
  <2>5. goal = "rest" => Tired(b, s.time)
    BY <1>1, <1>2, <1>4, <1>8 DEF Tired
  <2>6. s.time \in Nat /\ x.due = s.time
    BY <1>9, <1>18
  <2>7. Orderly(b, (X \ Gone) \cup {x}, s.time)
    BY <1>8, <1>16, <1>18, <2>1, <2>2, <2>3, <2>4, <2>5, <2>6, OrderlyChosen
  <2>8. Ahead(s, e, x) /\ x.agent = g
    BY <1>1, <1>4, <1>9, <1>18, <2>1 DEF Ahead
  <2>9. QED
    BY <1>18, <2>7, <2>8
<1>19. /\ Orderly(b, (X \ Gone) \cup New, s.time)
       /\ \A y \in New : y.agent = g /\ Ahead(s, e, y)
  <2>1. \/ goal = "idle" /\ New = {}
        \/ \E x : /\ New = {x} /\ x.due = e.at /\ x.agent = e.agent
                  /\ x.kind \in Steps /\ goal # "idle"
                  /\ x.kind = "agent.eat" => goal = "eat"
                  /\ x.kind = "agent.rest" => goal = "rest"
    BY <1>2, <1>10, StepIsFirst
  <2>2. QED
    BY <1>17, <1>18, <2>1
<1>20. \A y \in Gone : y.agent = g
  BY <1>12 DEF Of
<1>21. Follows(s, e, t)
  <2>1. Keeps(s, e, g, b, Gone, New)
    BY <1>15, <1>19, <1>20 DEF Keeps
  <2>2. QED
    BY <1>1, <1>3, <1>7, <1>9, <1>11, <1>13, <2>1, FollowsMoved
<1>22. QED
  BY <1>14, <1>21

-----------------------------------------------------------------------------
(* What an event has to see to, for the order to be kept.                  *)

(* What comes next of a need is still to come.                             *)
Upcoming(e) == e.type = "need.threshold.crossed" => \A due \in e.payload.next : due >= e.at

(* Who arrives has no step left; who eats, or lies down, takes the step of *)
(* his goal; who chooses had none, stands about and feels what he answers. *)
Apt(s, e) ==
  LET a == s.agents[e.agent]
      X == Of(s.schedule, e.agent)
  IN /\ Upcoming(e)
     /\ e.type = "journey.started" => e.payload.arrival > e.at
     /\ e.type = "journey.completed" => \A y \in X : y.kind \notin Steps
     /\ e.type = "agent.ate" => \E x \in X : x.kind = "agent.eat" /\ x.item = e.payload.item
     /\ e.type = "rest.started" => e.payload.ending >= e.at /\ \E x \in X : x.kind = "agent.rest"
     /\ e.type = "goal.chosen" =>
          /\ a.goal = "idle"
          /\ e.payload.goal # "idle" => a.status = "idle"
          /\ e.payload.goal = "eat" => Hungry(a, e.at)
          /\ e.payload.goal = "rest" => Tired(a, e.at)

LEMMA EvolveFollows ==
  ASSUME NEW s0, NEW F, Good(s0, F), AllOrderly(s0), NEW e, Legal(s0, e), Apt(s0, e),
         s0.time <= e.at, NEW t, t = Evolve(s0, e)
  PROVE  Follows(s0, e, t)
<1>1. Decodable(e) /\ e.at \in Nat
  <2>1. Decodable(e)
    BY DEF Legal
  <2>2. QED
    BY <2>1, DecodedIs
<1>2. PICK s : s = Stamp(s0, e.at)
  OBVIOUS
<1>3. /\ Good(s, F) /\ s.time = e.at
      /\ s.agents = s0.agents /\ s.schedule = s0.schedule /\ s.items = s0.items
  BY <1>1, <1>2, StampIsGood
<1>4. s \in States
  BY <1>3 DEF Good
<1>5. AllOrderly(s)
  <2> SUFFICES ASSUME NEW ag \in Agents PROVE Orderly(s.agents[ag], Of(s.schedule, ag), s.time)
    BY DEF AllOrderly
  <2>1. PICK a \in Stored : a = s0.agents[ag]
    BY <1>3, <1>4 DEF States
  <2>2. PICK X \in SUBSET Planned : X = Of(s0.schedule, ag)
    BY <1>3, <1>4 DEF States, Of
  <2>3. PICK at \in Nat : at = s0.time
    BY DEF Good, States
  <2>4. Orderly(a, X, at)
    BY <2>1, <2>2, <2>3 DEF AllOrderly
  <2>5. Orderly(a, X, e.at)
    BY <1>1, <2>3, <2>4, OrderlyLater
  <2>6. QED
    BY <1>3, <2>1, <2>2, <2>5
<1>6. \A ag : FoodOf(s, ag) = FoodOf(s0, ag)
  BY <1>3 DEF FoodOf
<1>7. \A ag : Of(s.schedule, ag) = Of(s0.schedule, ag)
  BY <1>3
<1>8. Apt(s, e)
  BY <1>3, <1>7, Zenon DEF Apt
<1>9. Follows(s, e, t)
  <2>1. CASE e.type = "journey.started"
    <3>1. e.payload.arrival > e.at
      BY <1>8, <2>1 DEF Apt
    <3>2. Follows(s, e, JourneyStarted(s, e))
      BY <1>1, <1>3, <1>4, <1>5, <2>1, <3>1, StartFollows
    <3>3. QED
      BY <1>2, <2>1, <3>2, EvolveIs
  <2>2. CASE e.type = "journey.completed"
    <3>1. PICK x \in s.schedule :
            x.kind = "journey.complete" /\ x.agent = e.agent /\ e.caused = {Id(x)}
      BY <1>3, <2>2 DEF Legal
    <3>2. \A y \in Of(s.schedule, e.agent) : y.kind \notin Steps
      BY <1>8, <2>2 DEF Apt
    <3>3. Follows(s, e, JourneyCompleted(s, e))
      BY <1>1, <1>3, <1>5, <2>2, <3>1, <3>2, ArrivalFollows
    <3>4. QED
      BY <1>2, <2>2, <3>3, EvolveIs
  <2>3. CASE e.type = "need.threshold.crossed"
    <3>1. \A due \in e.payload.next : due >= e.at
      BY <1>8, <2>3 DEF Apt, Upcoming
    <3>2. Follows(s, e, NeedThresholdCrossed(s, e))
      BY <1>1, <1>4, <1>5, <2>3, <3>1, CrossingFollows
    <3>3. QED
      BY <1>2, <2>3, <3>2, EvolveIs
  <2>4. CASE e.type = "agent.ate"
    <3>1. PICK x \in Of(s.schedule, e.agent) : x.kind = "agent.eat" /\ x.item = e.payload.item
      BY <1>8, <2>4 DEF Apt
    <3>2. Follows(s, e, AgentAte(s, e))
      BY <1>1, <1>4, <1>5, <2>4, <3>1, MealFollows
    <3>3. QED
      BY <1>2, <2>4, <3>2, EvolveIs
  <2>5. CASE e.type = "rest.started"
    <3>1. PICK x \in Of(s.schedule, e.agent) : x.kind = "agent.rest"
      BY <1>8, <2>5 DEF Apt
    <3>2. e.payload.ending >= e.at
      BY <1>8, <2>5 DEF Apt
    <3>3. Follows(s, e, RestStarted(s, e))
      BY <1>1, <1>3, <1>4, <1>5, <2>5, <3>1, <3>2, RestFollows
    <3>4. QED
      BY <1>2, <2>5, <3>3, EvolveIs
  <2>6. CASE e.type = "agent.rested"
    <3>1. PICK x \in s.schedule :
            x.kind = "rest.complete" /\ x.agent = e.agent /\ e.caused = {Id(x)}
      BY <1>3, <2>6 DEF Legal
    <3>2. Follows(s, e, AgentRested(s, e))
      BY <1>1, <1>3, <1>5, <2>6, <3>1, WakingFollows
    <3>3. QED
      BY <1>2, <2>6, <3>2, EvolveIs
  <2>7. CASE e.type = "goal.chosen"
    <3>1. e.payload.goal = "eat" => FoodOf(s, e.agent) # {}
      BY <1>6, <2>7 DEF Legal
    <3>2. /\ s.agents[e.agent].goal = "idle"
          /\ e.payload.goal # "idle" => s.agents[e.agent].status = "idle"
          /\ e.payload.goal = "eat" => Hungry(s.agents[e.agent], e.at)
          /\ e.payload.goal = "rest" => Tired(s.agents[e.agent], e.at)
      BY <1>8, <2>7 DEF Apt
    <3>3. Follows(s, e, GoalChosen(s, e))
      BY <1>1, <1>3, <1>5, <2>7, <3>1, <3>2, ChoiceFollows
    <3>4. QED
      BY <1>2, <2>7, <3>3, EvolveIs
  <2>8. CASE e.type = "plan.invalidated"
    <3>1. Follows(s, e, PlanInvalidated(s, e))
      BY <1>1, <1>4, <1>5, <2>8, FailureFollows
    <3>2. QED
      BY <1>2, <2>8, <3>1, EvolveIs
  <2>9. CASE e.type = "risk.observed"
    <3>1. Follows(s, e, RiskObserved(s, e))
      BY <1>1, <1>4, <1>5, <2>9, RiskFollows
    <3>2. QED
      BY <1>2, <2>9, <3>1, EvolveIs
  <2>10. QED
    BY <2>1, <2>2, <2>3, <2>4, <2>5, <2>6, <2>7, <2>8, <2>9 DEF Legal
<1>10. \A y : Ahead(s, e, y) => Ahead(s0, e, y)
  BY <1>3 DEF Ahead
<1>11. QED
  BY <1>3, <1>9, <1>10 DEF Follows

(* A command that is accepted.                                             *)
Suits(s, events) ==
  \/ \E e : events = <<e>> /\ Apt(s, e)
  \/ \E e, f : events = <<e, f>> /\ Apt(s, e) /\ Upcoming(f)

(* What an event that may follow any other has to see to is that.          *)
LEMMA HarmlessIsApt ==
  ASSUME NEW s, NEW f, Harmless(f), Upcoming(f)
  PROVE  Apt(s, f)
  BY DEF Harmless, Apt

LEMMA AfterFollows ==
  ASSUME NEW s, NEW F, Good(s, F), Old(F, s.sequence), AllOrderly(s),
         NEW c, NEW events, Proper(s, c, events), Suits(s, events), c.at \in Nat, s.time <= c.at,
         NEW t, t = After(s, events)
  PROVE  /\ AllOrderly(t)
         /\ \A y \in t.schedule :
              y \in s.schedule \/ (y.due >= c.at /\ (y.kind \in Steps =>
                                                       s.agents[y.agent].status = "idle"))
<1>1. PICK n \in Nat : n = s.sequence
  BY DEF Good, States
<1>2. Old(F, n) /\ n <= s.sequence
  BY <1>1
<1>3. CASE \E e : events = <<e>> /\ Apt(s, e)
  <2>1. PICK e : events = <<e>> /\ Apt(s, e)
    BY <1>3
  <2>2. Legal(s, e) /\ e.at = c.at
    BY <2>1 DEF Proper
  <2>3. t = Evolve(s, e)
    BY <2>1, AfterOne
  <2>4. s.time <= e.at
    BY <2>2
  <2>5. Follows(s, e, t)
    BY <2>1, <2>2, <2>3, <2>4, EvolveFollows
  <2>6. QED
    BY <2>2, <2>5 DEF Follows, Ahead
<1>4. CASE \E e, f : events = <<e, f>> /\ Apt(s, e) /\ Upcoming(f)
  <2>1. PICK e, f : events = <<e, f>> /\ Apt(s, e) /\ Upcoming(f)
    BY <1>4
  <2>2. Legal(s, e) /\ e.at = c.at /\ Harmless(f) /\ f.at = c.at
    BY <2>1 DEF Proper
  <2>3. PICK u : u = Evolve(s, e)
    OBVIOUS
  <2>4. t = Evolve(u, f)
    BY <2>1, <2>3, AfterTwo
  <2>5. s.time <= e.at
    BY <2>2
  <2>6. Follows(s, e, u)
    BY <2>1, <2>2, <2>3, <2>5, EvolveFollows
  <2>7. Good(u, F) /\ u.time = e.at
    BY <1>2, <2>2, <2>3, EvolveIsGood
  <2>8. Legal(u, f) /\ Apt(u, f)
    BY <2>1, <2>2, HarmlessIsLegal, HarmlessIsApt
  <2>9. u.time <= f.at /\ AllOrderly(u)
    BY <2>2, <2>6, <2>7 DEF Follows
  <2>10. Follows(u, f, t)
    BY <2>4, <2>7, <2>8, <2>9, EvolveFollows
  <2>11. ASSUME NEW y \in t.schedule, y \notin u.schedule
         PROVE  y.due >= c.at /\ y.kind \notin Steps
    <3>1. Ahead(u, f, y)
      BY <2>10, <2>11 DEF Follows
    <3>2. f.type # "goal.chosen"
      BY <2>2 DEF Harmless
    <3>3. QED
      BY <2>2, <3>1, <3>2 DEF Ahead
  <2>12. ASSUME NEW y \in u.schedule, y \notin s.schedule
         PROVE  y.due >= c.at /\ (y.kind \in Steps => s.agents[y.agent].status = "idle")
    <3>1. Ahead(s, e, y)
      BY <2>6, <2>12 DEF Follows
    <3>2. QED
      BY <2>2, <3>1 DEF Ahead
  <2>13. AllOrderly(t)
    BY <2>10 DEF Follows
  <2>14. QED
    BY <2>11, <2>12, <2>13
<1>5. QED
  BY <1>3, <1>4 DEF Suits

-----------------------------------------------------------------------------
(* The crossings that are awaited are exact, as long as whoever answers a  *)
(* need feels it: a need nobody felt would grow from another moment, and   *)
(* the crossing on the schedule would come too early.                      *)

(* A crossing on the schedule is the next one.                             *)
ExactOf(s, ag, n) ==
  \A x \in Awaited(s, ag, n) :
    x.due \in NextCrossing(n, s.agents[ag].baseline[n], Better(x.level))

Exact(s) == \A ag \in Agents, n \in Needs : ExactOf(s, ag, n)

(* The need that an event answers is felt.                                 *)
Felt(s, e) ==
  \A n \in Needs : Renewed(e, e.agent, n) =>
    Level(n, s.agents[e.agent].baseline[n], e.at) # "normal"

LEMMA NextIsExact ==
  ASSUME NEW ag \in Agents, NEW n \in Needs, NEW B, NEW L \in NeedLevels,
         NEW x \in {Crossing(ag, n, due, Worse(L)) : due \in NextCrossing(n, B, L)}
  PROVE  x.due \in NextCrossing(n, B, Better(x.level))
<1>1. PICK due \in NextCrossing(n, B, L) : x = Crossing(ag, n, due, Worse(L))
  OBVIOUS
<1>2. x.due = due /\ x.level = Worse(L)
  BY <1>1 DEF Crossing, Action
<1>3. L # "critical"
  BY <1>1 DEF NextCrossing
<1>4. Better(x.level) = L
  BY <1>2, <1>3 DEF Better, Worse, NeedLevels
<1>5. QED
  BY <1>1, <1>2, <1>4

LEMMA ExactAfter ==
  ASSUME NEW s, NEW F, Good(s, F), NEW e, Legal(s, e), NEW t, t = Evolve(s, e),
         NEW ag \in Agents, NEW n \in Needs,
         \/ ~Renewed(e, ag, n) /\ ~Announced(e, ag, n) /\ ExactOf(s, ag, n)
         \/ Announced(e, ag, n) /\ True(e, s.agents[ag].baseline[n])
  PROVE  ExactOf(t, ag, n)
<1>1. NeedsFollow(s, e, t)
  BY EvolveNeeds
<1>2. PICK B : B = s.agents[ag].baseline[n]
  OBVIOUS
<1>3. CASE ~Renewed(e, ag, n) /\ ~Announced(e, ag, n) /\ ExactOf(s, ag, n)
  <2>1. t.agents[ag].baseline[n] = B /\ Awaited(t, ag, n) = Awaited(s, ag, n)
    BY <1>1, <1>2, <1>3 DEF NeedsFollow
  <2>2. QED
    BY <1>2, <1>3, <2>1 DEF ExactOf
<1>4. CASE Announced(e, ag, n) /\ True(e, s.agents[ag].baseline[n])
  <2>1. e.payload.need = n /\ e.type = "need.threshold.crossed"
    BY <1>4 DEF Announced
  <2>2. PICK L \in NeedLevels : L = e.payload.level
    BY <2>1, DecodedIs DEF Legal
  <2>3. ~Renewed(e, ag, n)
    BY <2>1 DEF Renewed
  <2>4. t.agents[ag].baseline[n] = B
    BY <1>1, <1>2, <2>3 DEF NeedsFollow
  <2>5. e.payload.next = NextCrossing(n, B, L)
    BY <1>2, <1>4, <2>1, <2>2 DEF True
  <2>6. Awaited(t, ag, n) = {Crossing(ag, n, due, Worse(L)) : due \in NextCrossing(n, B, L)}
    BY <1>1, <1>4, <2>2, <2>5 DEF NeedsFollow
  <2>7. \A x \in Awaited(t, ag, n) : x.due \in NextCrossing(n, B, Better(x.level))
    BY <2>6, NextIsExact
  <2>8. QED
    BY <2>4, <2>7 DEF ExactOf
<1>5. QED
  BY <1>3, <1>4

LEMMA ExactHeard ==
  ASSUME NEW s, NEW F, Good(s, F), NEW e, Legal(s, e), Heard(s, e), Felt(s, e),
         NEW t, t = Evolve(s, e), Exact(s)
  PROVE  Exact(t)
<1> SUFFICES ASSUME NEW ag \in Agents, NEW n \in Needs PROVE ExactOf(t, ag, n)
  BY DEF Exact
<1>1. ExactOf(s, ag, n)
  BY DEF Exact
<1>2. ~Renewed(e, ag, n)
  <2> SUFFICES ASSUME Renewed(e, ag, n) PROVE FALSE
    OBVIOUS
  <2>1. ag = e.agent /\ e.type \in {"agent.ate", "agent.rested"}
    BY DEF Renewed
  <2>2. Level(n, s.agents[e.agent].baseline[n], e.at) = "normal"
    BY <2>1 DEF Heard, Quiet
  <2>3. QED
    BY <2>1, <2>2 DEF Felt
<1>3. CASE ~Announced(e, ag, n)
  BY <1>1, <1>2, <1>3, ExactAfter
<1>4. CASE Announced(e, ag, n)
  <2>1. ag = e.agent /\ e.type = "need.threshold.crossed" /\ n = e.payload.need
    BY <1>4 DEF Announced
  <2>2. True(e, s.agents[ag].baseline[n])
    BY <2>1 DEF Heard, Quiet
  <2>3. QED
    BY <1>4, <2>2, ExactAfter
<1>5. QED
  BY <1>3, <1>4

LEMMA ExactRelieved ==
  ASSUME NEW s, NEW F, Good(s, F), NEW e, Legal(s, e), NEW u, u = Evolve(s, e), Good(u, F),
         NEW f, Legal(u, f), f.at = e.at, Relief(e, f), NEW t, t = Evolve(u, f), Exact(s)
  PROVE  Exact(t)
<1> SUFFICES ASSUME NEW ag \in Agents, NEW n \in Needs PROVE ExactOf(t, ag, n)
  BY DEF Exact
<1>1. ExactOf(s, ag, n)
  BY DEF Exact
<1>2. e.type \in {"agent.ate", "agent.rested"} /\ f.type = "need.threshold.crossed"
  BY DEF Relief, Renewed
<1>3. Announced(f, ag, n) <=> Renewed(e, ag, n)
  BY <1>2 DEF Relief, Renewed, Announced
<1>4. CASE Announced(f, ag, n)
  <2>1. NeedsFollow(s, e, u)
    BY EvolveNeeds
  <2>2. u.agents[ag].baseline[n] = e.at
    BY <1>3, <1>4, <2>1 DEF NeedsFollow
  <2>3. True(f, u.agents[ag].baseline[n])
    BY <2>2 DEF Relief
  <2>4. QED
    BY <1>4, <2>3, ExactAfter
<1>5. CASE ~Announced(f, ag, n)
  <2>1. ~Renewed(e, ag, n) /\ ~Announced(e, ag, n)
    BY <1>2, <1>3, <1>5 DEF Announced
  <2>2. ExactOf(u, ag, n)
    BY <1>1, <2>1, ExactAfter
  <2>3. ~Renewed(f, ag, n)
    BY <1>2 DEF Renewed
  <2>4. QED
    BY <1>5, <2>2, <2>3, ExactAfter
<1>6. QED
  BY <1>4, <1>5

(* Where steps are in order, whoever eats or has rested has felt it.       *)
LEMMA AptIsFelt ==
  ASSUME NEW s, NEW F, Good(s, F), AllOrderly(s), NEW e, Legal(s, e), Apt(s, e), s.time <= e.at
  PROVE  Felt(s, e)
<1>1. PICK g \in Agents : g = e.agent
  BY DecodedIs DEF Legal
<1>2. PICK a \in Stored : a = s.agents[g]
  BY DEF Good, States
<1>3. PICK X : X = Of(s.schedule, g)
  OBVIOUS
<1>4. PICK at \in Nat : at = e.at
  BY DecodedIs DEF Legal
<1>5. s.time \in Nat /\ X \in SUBSET Planned
  BY <1>3 DEF Good, States, Of
<1>6. Orderly(a, X, s.time)
  BY <1>2, <1>3 DEF AllOrderly
<1>7. Orderly(a, X, at)
  BY <1>4, <1>5, <1>6, OrderlyLater
<1>8. CASE e.type = "agent.ate"
  <2>1. \E x \in X : x.kind = "agent.eat"
    BY <1>1, <1>3, <1>8 DEF Apt
  <2>2. Hungry(a, at)
    BY <1>7, <2>1 DEF Orderly
  <2>3. QED
    BY <1>1, <1>2, <1>4, <1>8, <2>2 DEF Felt, Renewed, Hungry
<1>9. CASE e.type = "agent.rested"
  <2>1. \E x \in X : x.kind = "rest.complete"
    BY <1>1, <1>3, <1>9 DEF Legal, Of
  <2>2. Tired(a, at)
    BY <1>7, <2>1 DEF Orderly
  <2>3. QED
    BY <1>1, <1>2, <1>4, <1>9, <2>2 DEF Felt, Renewed, Tired
<1>10. CASE e.type \notin {"agent.ate", "agent.rested"}
  BY <1>10 DEF Felt, Renewed
<1>11. QED
  BY <1>8, <1>9, <1>10

(* The crossings stay exact when a command is accepted.                    *)
LEMMA AfterExact ==
  ASSUME NEW s, NEW F, Good(s, F), Old(F, s.sequence), AllOrderly(s), Exact(s),
         NEW c, NEW events, Proper(s, c, events), Heeding(s, events), Suits(s, events),
         s.time <= c.at, NEW t, t = After(s, events)
  PROVE  Exact(t)
<1>1. PICK n \in Nat : n = s.sequence
  BY DEF Good, States
<1>2. Old(F, n) /\ n <= s.sequence
  BY <1>1
<1>3. ASSUME NEW e, events = <<e>> PROVE Legal(s, e) /\ e.at = c.at /\ Apt(s, e)
  <2>1. Legal(s, e) /\ e.at = c.at
    BY <1>3 DEF Proper
  <2>2. Apt(s, e)
    BY <1>3 DEF Suits
  <2>3. QED
    BY <2>1, <2>2
<1>4. ASSUME NEW e, NEW f, events = <<e, f>>
      PROVE  Legal(s, e) /\ e.at = c.at /\ Harmless(f) /\ f.at = c.at /\ Apt(s, e)
  <2>1. Legal(s, e) /\ e.at = c.at /\ Harmless(f) /\ f.at = c.at
    BY <1>4 DEF Proper
  <2>2. Apt(s, e)
    BY <1>4 DEF Suits
  <2>3. QED
    BY <2>1, <2>2
<1>5. ASSUME NEW e, events = <<e>>, Heard(s, e) PROVE Exact(t)
  <2>1. t = Evolve(s, e)
    BY <1>5, AfterOne
  <2>2. Legal(s, e) /\ Apt(s, e) /\ s.time <= e.at
    BY <1>3, <1>5
  <2>3. Felt(s, e)
    BY <2>2, AptIsFelt
  <2>4. QED
    BY <1>5, <2>1, <2>2, <2>3, ExactHeard
<1>6. ASSUME NEW e, NEW f, events = <<e, f>>, (Heard(s, e) /\ Quiet(f)) \/ Relief(e, f)
      PROVE  Exact(t)
  <2>1. Legal(s, e) /\ e.at = c.at /\ Harmless(f) /\ f.at = c.at /\ Apt(s, e)
    BY <1>4, <1>6
  <2>2. PICK u : u = Evolve(s, e)
    OBVIOUS
  <2>3. t = Evolve(u, f)
    BY <1>6, <2>2, AfterTwo
  <2>4. Good(u, F)
    BY <1>2, <2>1, <2>2, EvolveIsGood
  <2>5. Legal(u, f)
    BY <2>1, HarmlessIsLegal
  <2>6. s.time <= e.at /\ f.at = e.at
    BY <2>1
  <2>7. CASE Heard(s, e) /\ Quiet(f)
    <3>1. Felt(s, e)
      BY <2>1, <2>6, AptIsFelt
    <3>2. Exact(u)
      BY <2>1, <2>2, <2>7, <3>1, ExactHeard
    <3>3. Heard(u, f)
      BY <2>7 DEF Heard
    <3>4. Felt(u, f)
      BY <2>7 DEF Quiet, Felt, Renewed
    <3>5. QED
      BY <2>3, <2>4, <2>5, <3>2, <3>3, <3>4, ExactHeard
  <2>8. CASE Relief(e, f)
    BY <2>1, <2>2, <2>3, <2>4, <2>5, <2>6, <2>8, ExactRelieved
  <2>9. QED
    BY <1>6, <2>7, <2>8
<1>7. QED
  BY <1>5, <1>6 DEF Heeding

-----------------------------------------------------------------------------
(* Whoever is sober answers no need that he does not feel.                 *)

(* There is a best goal, and it is the one that is chosen.                 *)
LEMMA ChosenGoalIsBest ==
  ASSUME NEW s \in States, NEW ag \in Agents, NEW at,
         NEW goal, goal = ChooseGoal(s, ag, at)
  PROVE  \E g \in 1 .. 4 :
           /\ goal = Goals[g] /\ Feasible(s, ag, goal)
           /\ \A h \in 1 .. 4 : Feasible(s, ag, Goals[h]) =>
                \/ Score(s.agents[ag], goal, at) > Score(s.agents[ag], Goals[h], at)
                \/ (Score(s.agents[ag], goal, at) = Score(s.agents[ag], Goals[h], at) /\ g <= h)
<1>1. PICK C : C = {g \in DOMAIN Goals : Feasible(s, ag, Goals[g])}
  OBVIOUS
<1>2. C \in SUBSET (1 .. 4) /\ C # {}
  <2>1. 1 \in C
    BY <1>1, GoalsAre DEF Feasible
  <2>2. QED
    BY <1>1, <2>1, GoalsAre
<1>3. PICK f : f = [g \in 1 .. 4 |-> Score(s.agents[ag], Goals[g], at)]
  OBVIOUS
<1>4. f \in [1 .. 4 -> Int]
  <2>1. s.agents[ag] \in Stored
    BY DEF States
  <2>2. \A g \in 1 .. 4 : Score(s.agents[ag], Goals[g], at) \in Int
    BY <2>1, GoalsAre, ScoreInt
  <2>3. QED
    BY <1>3, <2>2
<1>5. \E g \in C : \A h \in C : f[g] > f[h] \/ (f[g] = f[h] /\ g <= h)
  BY <1>2, <1>4, FirstGreatest
<1>6. \E g \in C : \A h \in C :
        \/ Score(s.agents[ag], Goals[g], at) > Score(s.agents[ag], Goals[h], at)
        \/ (Score(s.agents[ag], Goals[g], at) = Score(s.agents[ag], Goals[h], at) /\ g <= h)
  BY <1>2, <1>3, <1>5
<1>7. PICK first : first = CHOOSE g \in C : \A h \in C :
        \/ Score(s.agents[ag], Goals[g], at) > Score(s.agents[ag], Goals[h], at)
        \/ (Score(s.agents[ag], Goals[g], at) = Score(s.agents[ag], Goals[h], at) /\ g <= h)
  OBVIOUS
<1>8. /\ first \in C
      /\ \A h \in C :
           \/ Score(s.agents[ag], Goals[first], at) > Score(s.agents[ag], Goals[h], at)
           \/ /\ Score(s.agents[ag], Goals[first], at) = Score(s.agents[ag], Goals[h], at)
              /\ first <= h
  BY <1>6, <1>7
<1>9. goal = Goals[first]
  BY <1>1, <1>7, Zenon DEF ChooseGoal
<1>10. first \in 1 .. 4 /\ Feasible(s, ag, goal)
  BY <1>1, <1>2, <1>8, <1>9
<1>11. \A h \in 1 .. 4 : Feasible(s, ag, Goals[h]) => h \in C
  BY <1>1, GoalsAre
<1>12. QED
  BY <1>8, <1>9, <1>10, <1>11

(* What it is worth to idle, to eat and to rest to who has no goal.        *)
LEMMA ScoresAre ==
  ASSUME NEW agent \in Stored, agent.goal = "idle", NEW at
  PROVE  /\ Score(agent, "idle", at) = 0
         /\ Score(agent, "eat", at) = Urgency[Level("hunger", agent.baseline["hunger"], at)] - 0
                                        - SwitchMargin
         /\ Score(agent, "rest", at) = Urgency[Level("fatigue", agent.baseline["fatigue"], at)]
                                        - TimeCost(RestMinutes) - SwitchMargin
<1>1. Treats["eat"] = "hunger" /\ Treats["rest"] = "fatigue"
  BY DEF Treats
<1>2. Score(agent, "idle", at) = 0 - 0 - 0
  BY Zenon DEF Score
<1>3. Score(agent, "eat", at) = Urgency[Level("hunger", agent.baseline["hunger"], at)] - 0
                                  - SwitchMargin
  BY <1>1 DEF Score
<1>4. Score(agent, "rest", at) = Urgency[Level("fatigue", agent.baseline["fatigue"], at)]
                                  - TimeCost(RestMinutes) - SwitchMargin
  BY <1>1 DEF Score
<1>5. QED
  BY <1>2, <1>3, <1>4

LEMMA SoberChoice ==
  ASSUME Sober, NEW s \in States, NEW ag \in Agents, NEW at, s.agents[ag].goal = "idle",
         NEW goal, goal = ChooseGoal(s, ag, at)
  PROVE  /\ goal = "eat" => Hungry(s.agents[ag], at)
         /\ goal = "rest" => Tired(s.agents[ag], at)
<1>1. PICK a \in Stored : a = s.agents[ag]
  BY DEF States
<1>2. PICK g \in 1 .. 4 :
        /\ goal = Goals[g] /\ Feasible(s, ag, goal)
        /\ \A h \in 1 .. 4 : Feasible(s, ag, Goals[h]) =>
             \/ Score(a, goal, at) > Score(a, Goals[h], at)
             \/ (Score(a, goal, at) = Score(a, Goals[h], at) /\ g <= h)
  BY <1>1, ChosenGoalIsBest
<1>3. Feasible(s, ag, Goals[1])
  BY GoalsAre DEF Feasible
<1>4. Score(a, goal, at) > Score(a, "idle", at) \/ g <= 1
  BY <1>2, <1>3, GoalsAre
<1>5. goal # "idle" => g # 1
  BY <1>2, GoalsAre
<1>6. Score(a, "idle", at) = 0
  BY <1>1, ScoresAre
<1>7. SwitchMargin \in Nat /\ Urgency["normal"] \in Nat /\ TimeCost(RestMinutes) \in Nat
  BY Weights, TimeCostNat
<1>8. Urgency["normal"] <= SwitchMargin
  BY DEF Sober
<1>9. ASSUME goal = "eat" PROVE Hungry(a, at)
  <2> SUFFICES ASSUME Level("hunger", a.baseline["hunger"], at) = "normal" PROVE FALSE
    BY DEF Hungry
  <2>1. Score(a, "eat", at) = Urgency["normal"] - 0 - SwitchMargin
    BY <1>1, ScoresAre
  <2>2. ~(Score(a, goal, at) > 0)
    BY <1>7, <1>8, <1>9, <2>1
  <2>3. QED
    BY <1>4, <1>5, <1>6, <1>9, <2>2
<1>10. ASSUME goal = "rest" PROVE Tired(a, at)
  <2> SUFFICES ASSUME Level("fatigue", a.baseline["fatigue"], at) = "normal" PROVE FALSE
    BY DEF Tired
  <2>1. Score(a, "rest", at) = Urgency["normal"] - TimeCost(RestMinutes) - SwitchMargin
    BY <1>1, ScoresAre
  <2>2. ~(Score(a, goal, at) > 0)
    BY <1>7, <1>8, <1>10, <2>1
  <2>3. QED
    BY <1>4, <1>5, <1>6, <1>10, <2>2
<1>11. QED
  BY <1>1, <1>9, <1>10

-----------------------------------------------------------------------------
(* Crossings and the time that is left until the next.                     *)
LEMMA ReachedStays ==
  ASSUME NEW n \in Needs, NEW B \in Nat, NEW at \in Nat, NEW later \in Nat, at <= later,
         NEW l \in {"warning", "critical"}, Reached(n, B, at, l)
  PROVE  Reached(n, B, later, l)
<1>1. PICK much \in Nat : much = ReachedAt[l] * Full[n]
  BY NeedsHaveRates, Thresholds
<1>2. at > B /\ (at - B) * 1000 >= much
  BY <1>1 DEF Reached
<1>3. later > B /\ (later - B) * 1000 >= much
  BY <1>2
<1>4. QED
  BY <1>1, <1>3 DEF Reached

(* A level that has not been reached is reached later.                     *)
LEMMA NextIsLater ==
  ASSUME NEW n \in Needs, NEW B \in Nat, NEW L \in {"normal", "warning"}, NEW at \in Nat,
         ~Reached(n, B, at, Worse(L)), NEW due \in NextCrossing(n, B, L)
  PROVE  due >= at
<1>1. due \in Int /\ due > B /\ Reached(n, B, due, Worse(L))
  BY NeedsHaveRates, CrossingIsTheFirstMinute
<1>2. SUFFICES ASSUME due < at PROVE FALSE
  BY <1>1
<1>3. due \in Nat /\ Worse(L) \in {"warning", "critical"}
  BY <1>1 DEF Worse
<1>4. due <= at
  BY <1>2, <1>3
<1>5. QED
  BY <1>1, <1>3, <1>4, ReachedStays

(* If it is served before the next level is reached, the level is still    *)
(* the one that the schedule says.                                         *)
LEMMA LevelInTime ==
  ASSUME NEW n \in Needs, NEW B \in Nat, NEW L \in {"normal", "warning"},
         NEW due \in NextCrossing(n, B, L), NEW at \in Nat, due <= at,
         (at - due + 1) * 1000 <= Span(n)
  PROVE  Level(n, B, at) = Worse(L)
<1>1. due \in Int /\ due > B /\ Reached(n, B, due, Worse(L))
  BY NeedsHaveRates, CrossingIsTheFirstMinute
<1>2. Reached(n, B, at, Worse(L))
  <2>1. due \in Nat /\ Worse(L) \in {"warning", "critical"}
    BY <1>1 DEF Worse
  <2>2. QED
    BY <1>1, <2>1, ReachedStays
<1>3. CASE L = "warning"
  BY <1>2, <1>3 DEF Level, Worse
<1>4. CASE L = "normal"
  <2> DEFINE much == ReachedAt["warning"] * Full[n]
             most == ReachedAt["critical"] * Full[n]
  <2>1. much \in Nat \ {0} /\ most \in Nat \ {0}
    BY NeedsHaveRates, Thresholds
  <2>2. ReachedAt["critical"] \in Int /\ ReachedAt["warning"] \in Int /\ Full[n] \in Int
    BY NeedsHaveRates, Rates
  <2>3. (at - due + 1) * 1000 <= most - much
    BY <2>2, ProductOfDifference DEF Span
  <2>4. due = B + CeilDiv(much, 1000)
    BY <1>4 DEF NextCrossing, Worse
  <2> HIDE DEF much, most
  <2>5. (due - B) * 1000 < much + 1000
    BY <2>1, <2>4 DEF CeilDiv
  <2>6. ~((at - B) * 1000 >= most)
    BY <1>1, <2>1, <2>3, <2>5
  <2>7. ~Reached(n, B, at, "critical")
    BY <2>6 DEF Reached, most
  <2>8. QED
    BY <1>2, <1>4, <2>7 DEF Level, Worse
<1>5. QED
  BY <1>3, <1>4

(* News of the level of the moment does not come after the next news.      *)
LEMMA NewsIsUpcoming ==
  ASSUME NEW c, c.at \in Nat, NEW n \in Needs, NEW from, NEW L \in NeedLevels, NEW B \in Nat,
         L # "critical" => ~Reached(n, B, c.at, Worse(L)),
         NEW e, e = Crossed(c, n, from, L, B)
  PROVE  Upcoming(e)
<1>1. PICK at \in Nat : at = c.at
  OBVIOUS
<1>2. PICK next : next = NextCrossing(n, B, L)
  OBVIOUS
<1>3. PICK p : p = [need |-> n, from |-> from, level |-> L, next |-> next]
  OBVIOUS
<1>4. e = Event("need.threshold.crossed", c, p)
  BY <1>2, <1>3 DEF Crossed
<1>5. e.at = at /\ e.payload = p /\ p.next = next
  BY <1>1, <1>3, <1>4, EventIs
<1>6. ASSUME NEW due \in next PROVE due >= at
  <2>1. L # "critical"
    BY <1>2, <1>6 DEF NextCrossing
  <2>2. L \in {"normal", "warning"}
    BY <2>1 DEF NeedLevels
  <2>3. ~Reached(n, B, at, Worse(L))
    BY <1>1, <2>1
  <2>4. QED
    BY <1>2, <1>6, <2>2, <2>3, NextIsLater
<1>7. QED
  BY <1>5, <1>6 DEF Upcoming

-----------------------------------------------------------------------------
(* What decide answers suits a schedule that is in order.                  *)
LEMMA SuitsOnce ==
  ASSUME NEW s, NEW e, Apt(s, e)
  PROVE  Suits(s, <<e>>)
  BY Zenon DEF Suits

LEMMA SuitsFirst ==
  ASSUME NEW s, NEW e, Apt(s, e), NEW more,
         more = <<>> \/ \E f : more = <<f>> /\ Upcoming(f)
  PROVE  Suits(s, <<e>> \o more)
<1>1. CASE more = <<>>
  <2>1. <<e>> \o more = <<e>>
    BY <1>1
  <2>2. QED
    BY <2>1, SuitsOnce
<1>2. ASSUME NEW f, more = <<f>>, Upcoming(f)
      PROVE  Suits(s, <<e>> \o more)
  <2>1. <<e>> \o more = <<e, f>>
    <3>1. <<e>> \o <<f>> = <<e, f>>
      BY PairIs
    <3>2. QED
      BY <1>2, <3>1
  <2>2. Suits(s, <<e, f>>)
    BY <1>2, Zenon DEF Suits
  <2>3. QED
    BY <2>1, <2>2
<1>3. QED
  BY <1>1, <1>2

(* A plan that fails suits anything.                                       *)
LEMMA FailureIs ==
  ASSUME NEW agent, NEW c, NEW precondition, NEW events,
         events = PlanFailure(agent, c, precondition), events # <<>>
  PROVE  \E e : events = <<e>> /\ e.type = "plan.invalidated"
<1>1. PICK e : e = Event("plan.invalidated", c,
                         [plan |-> agent.plan, precondition |-> precondition])
  OBVIOUS
<1>2. events = <<e>>
  BY <1>1, Zenon DEF PlanFailure
<1>3. e.type = "plan.invalidated"
  BY <1>1, EventIs
<1>4. QED
  BY <1>2, <1>3

LEMMA FailureSuits ==
  ASSUME NEW s, NEW agent, NEW c, NEW precondition, NEW events,
         events = PlanFailure(agent, c, precondition), events # <<>>
  PROVE  Suits(s, events)
<1>1. PICK e : events = <<e>> /\ e.type = "plan.invalidated"
  BY FailureIs
<1>2. Apt(s, e)
  BY <1>1 DEF Apt, Upcoming
<1>3. QED
  BY <1>1, <1>2, SuitsOnce

(* Nor does the end of a need come after its next crossing.                *)
LEMMA RecoveredSuits ==
  ASSUME NEW agent, NEW c, c.at \in Nat, NEW n \in Needs, NEW more, more = Recovered(agent, c, n)
  PROVE  more = <<>> \/ \E f : more = <<f>> /\ Upcoming(f)
<1>1. PICK at \in Nat : at = c.at
  OBVIOUS
<1>2. PICK from : from = Level(n, agent.baseline[n], c.at)
  OBVIOUS
<1>3. PICK f : f = Crossed(c, n, from, "normal", c.at)
  OBVIOUS
<1>4. Upcoming(f)
  <2>1. PICK L \in NeedLevels : L = "normal"
    BY DEF NeedLevels
  <2>2. ~Reached(n, at, at, Worse(L))
    BY DEF Reached
  <2>3. QED
    BY <1>1, <1>3, <2>1, <2>2, NewsIsUpcoming
<1>5. more \in {<<>>, <<f>>}
  BY <1>2, <1>3 DEF Recovered
<1>6. QED
  BY <1>4, <1>5

LEMMA StartSuits ==
  ASSUME NEW s, NEW c, c.at \in Nat, NEW r \in Routes
  PROVE  Suits(s, <<Started(c, r)>>)
<1>1. PICK at \in Nat : at = c.at
  OBVIOUS
<1>2. PICK e : e = Started(c, r)
  OBVIOUS
<1>3. PICK p : p = [route |-> r, arrival |-> c.at + RouteMinutes[r]]
  OBVIOUS
<1>4. e = Event("journey.started", c, p)
  BY <1>2, <1>3 DEF Started
<1>5. e.type = "journey.started" /\ e.at = at /\ e.payload.arrival = at + RouteMinutes[r]
  BY <1>1, <1>3, <1>4, EventIs
<1>6. RouteMinutes[r] \in Nat /\ RouteMinutes[r] > 0
  BY RulesAssumption DEF ValidMap
<1>7. Apt(s, e)
  BY <1>5, <1>6 DEF Apt, Upcoming
<1>8. QED
  BY <1>2, <1>7, SuitsOnce

(* What the schedule has to see to before a command of each kind.          *)
Fitting(s, c) ==
  LET X == Of(s.schedule, c.agent)
  IN /\ c.kind = "journey.complete" => \A y \in X : y.kind \notin Steps
     /\ c.kind = "agent.eat" => \E x \in X : x.kind = "agent.eat" /\ x.item = c.item
     /\ c.kind = "agent.rest" => \E x \in X : x.kind = "agent.rest"
     /\ c.kind = "agent.decide" => \E x \in X : x.kind = "agent.decide"

LEMMA CompleteSuits ==
  ASSUME NEW s, NEW c, c.kind = "journey.complete", Fitting(s, c),
         NEW events, events = Decide(s, c), events # <<>>
  PROVE  Suits(s, events)
<1>1. events = DecideJourneyComplete(s, c)
  BY DecideIs
<1>2. PICK e : e = Event("journey.completed", c, [route |-> c.route])
  OBVIOUS
<1>3. PICK f : f = Event("risk.observed", c, [route |-> c.route, risk |-> RouteRisk[c.route]])
  OBVIOUS
<1>4. PICK more : more = IF c.route \in s.agents[c.agent].known THEN <<>> ELSE <<f>>
  OBVIOUS
<1>5. events = <<e>> \o more
  BY <1>1, <1>2, <1>3, <1>4, Zenon DEF DecideJourneyComplete
<1>6. e.type = "journey.completed" /\ e.agent = c.agent /\ f.type = "risk.observed"
  BY <1>2, <1>3, EventIs
<1>7. Apt(s, e)
  BY <1>6 DEF Apt, Upcoming, Fitting
<1>8. Upcoming(f)
  BY <1>6 DEF Upcoming
<1>9. more = <<>> \/ more = <<f>>
  BY <1>4
<1>10. QED
  BY <1>5, <1>7, <1>8, <1>9, SuitsFirst

LEMMA ThresholdSuits ==
  ASSUME NEW s \in States, NEW c, Command(c), Known(c), c.kind = "need.threshold",
         NEW events, events = Decide(s, c), events # <<>>
  PROVE  Suits(s, events)
<1>1. PICK agent \in Stored : agent = s.agents[c.agent]
  BY DEF Command, States
<1>2. PICK n \in Needs : n = c.need
  BY DEF Known
<1>3. PICK B \in Nat : B = agent.baseline[n]
  BY DEF Stored
<1>4. events = DecideNeedThresholdCross(s, c)
  BY DecideIs
<1>5. Level(n, B, c.at) = c.level /\ c.level # "normal"
  BY <1>1, <1>2, <1>3, <1>4, Zenon DEF DecideNeedThresholdCross
<1>6. PICK e : e = Crossed(c, n, Better(c.level), c.level, B)
  OBVIOUS
<1>7. PICK more : more = EmergencyInterrupt(agent, c)
  OBVIOUS
<1>8. events = <<e>> \o more
  BY <1>1, <1>2, <1>3, <1>4, <1>5, <1>6, <1>7, Zenon DEF DecideNeedThresholdCross
<1>9. PICK L \in NeedLevels : L = c.level
  BY DEF Known, NeedLevels
<1>10. L # "critical" => ~Reached(n, B, c.at, Worse(L))
  <2> SUFFICES ASSUME L # "critical" PROVE ~Reached(n, B, c.at, Worse(L))
    OBVIOUS
  <2>1. Worse(L) = "critical"
    BY <1>5, <1>9 DEF Worse
  <2>2. ~Reached(n, B, c.at, "critical")
    BY <1>5, <1>9 DEF Level
  <2>3. QED
    BY <2>1, <2>2
<1>11. Upcoming(e)
  <2>1. c.at \in Nat
    BY DEF Command
  <2>2. QED
    BY <1>6, <1>9, <1>10, <2>1, NewsIsUpcoming
<1>12. e.type = "need.threshold.crossed"
  BY <1>6, EventIs DEF Crossed
<1>13. Apt(s, e)
  BY <1>11, <1>12 DEF Apt
<1>14. more = <<>> \/ \E f : more = <<f>> /\ Upcoming(f)
  <2>1. more = <<>> \/ more = PlanFailure(agent, c, "agent.not_in_emergency")
    BY <1>7 DEF EmergencyInterrupt
  <2>2. QED
    BY <2>1, FailureIs DEF Upcoming
<1>15. QED
  BY <1>8, <1>13, <1>14, SuitsFirst

LEMMA EatSuits ==
  ASSUME NEW s, NEW c, c.at \in Nat, c.kind = "agent.eat", Fitting(s, c),
         NEW events, events = Decide(s, c), events # <<>>
  PROVE  Suits(s, events)
<1>1. PICK agent : agent = s.agents[c.agent]
  OBVIOUS
<1>2. events = DecideAgentEat(s, c)
  BY DecideIs
<1>3. CASE c.item \notin FoodOf(s, c.agent)
  <2>1. events = PlanFailure(agent, c, "item.available_to_actor")
    BY <1>1, <1>2, <1>3, Zenon DEF DecideAgentEat
  <2>2. QED
    BY <2>1, FailureSuits
<1>4. CASE ~(c.item \notin FoodOf(s, c.agent))
  <2>1. PICK p : p = [item |-> c.item]
    OBVIOUS
  <2>2. PICK e : e = Event("agent.ate", c, p)
    OBVIOUS
  <2>3. PICK more : more = Recovered(agent, c, "hunger")
    OBVIOUS
  <2>4. events = <<e>> \o more
    BY <1>1, <1>2, <1>4, <2>1, <2>2, <2>3, Zenon DEF DecideAgentEat
  <2>5. e.type = "agent.ate" /\ e.agent = c.agent /\ e.payload.item = c.item
    BY <2>1, <2>2, EventIs
  <2>6. Apt(s, e)
    BY <2>5 DEF Apt, Upcoming, Fitting
  <2>7. more = <<>> \/ \E f : more = <<f>> /\ Upcoming(f)
    <3>1. "hunger" \in Needs
      BY DEF Needs
    <3>2. QED
      BY <2>3, <3>1, RecoveredSuits
  <2>8. QED
    BY <2>4, <2>6, <2>7, SuitsFirst
<1>5. QED
  BY <1>3, <1>4

LEMMA RestSuits ==
  ASSUME NEW s, NEW c, c.at \in Nat, c.kind = "agent.rest", Fitting(s, c),
         NEW events, events = Decide(s, c), events # <<>>
  PROVE  Suits(s, events)
<1>1. PICK agent : agent = s.agents[c.agent]
  OBVIOUS
<1>2. events = DecideAgentRest(s, c)
  BY DecideIs
<1>3. CASE agent.status # "idle"
  <2>1. events = PlanFailure(agent, c, "agent.is_idle")
    BY <1>1, <1>2, <1>3, Zenon DEF DecideAgentRest
  <2>2. QED
    BY <2>1, FailureSuits
<1>4. CASE agent.status = "idle"
  <2>1. PICK at \in Nat : at = c.at
    OBVIOUS
  <2>2. PICK p : p = [ending |-> c.at + RestMinutes]
    OBVIOUS
  <2>3. PICK e : e = Event("rest.started", c, p)
    OBVIOUS
  <2>4. events = <<e>>
    BY <1>1, <1>2, <1>4, <2>2, <2>3, Zenon DEF DecideAgentRest
  <2>5. /\ e.type = "rest.started" /\ e.agent = c.agent /\ e.at = at
        /\ e.payload.ending = at + RestMinutes
    BY <2>1, <2>2, <2>3, EventIs
  <2>6. e.payload.ending >= e.at
    BY <2>5, Weights
  <2>7. Apt(s, e)
    BY <2>5, <2>6 DEF Apt, Upcoming, Fitting
  <2>8. QED
    BY <2>4, <2>7, SuitsOnce
<1>5. QED
  BY <1>3, <1>4

LEMMA WakingSuits ==
  ASSUME NEW s, NEW c, c.at \in Nat, c.kind = "rest.complete",
         NEW events, events = Decide(s, c), events # <<>>
  PROVE  Suits(s, events)
<1>1. PICK agent : agent = s.agents[c.agent]
  OBVIOUS
<1>2. events = DecideRestComplete(s, c)
  BY DecideIs
<1>3. PICK e : e = Event("agent.rested", c, <<>>)
  OBVIOUS
<1>4. PICK more : more = Recovered(agent, c, "fatigue")
  OBVIOUS
<1>5. events = <<e>> \o more
  BY <1>1, <1>2, <1>3, <1>4, Zenon DEF DecideRestComplete
<1>6. e.type = "agent.rested"
  BY <1>3, EventIs
<1>7. Apt(s, e)
  BY <1>6 DEF Apt, Upcoming
<1>8. more = <<>> \/ \E f : more = <<f>> /\ Upcoming(f)
  <2>1. "fatigue" \in Needs
    BY DEF Needs
  <2>2. QED
    BY <1>4, <2>1, RecoveredSuits
<1>9. QED
  BY <1>5, <1>7, <1>8, SuitsFirst

LEMMA ChoiceSuits ==
  ASSUME Sober, NEW s \in States, AllOrderly(s), NEW c, Command(c), c.kind = "agent.decide",
         Fitting(s, c), NEW events, events = Decide(s, c), events # <<>>
  PROVE  Suits(s, events)
<1>1. events = DecideAgentDecide(s, c)
  BY DecideIs
<1>2. PICK g \in Agents : g = c.agent
  BY DEF Command
<1>3. PICK a : a = s.agents[g]
  OBVIOUS
<1>4. PICK goal : goal = ChooseGoal(s, c.agent, c.at)
  OBVIOUS
<1>5. PICK p : p = [goal |-> goal, previous |-> s.agents[c.agent].goal]
  OBVIOUS
<1>6. PICK e : e = Event("goal.chosen", c, p)
  OBVIOUS
<1>7. events = <<e>>
  BY <1>1, <1>4, <1>5, <1>6, Zenon DEF DecideAgentDecide
<1>8. e.type = "goal.chosen" /\ e.agent = g /\ e.at = c.at /\ e.payload.goal = goal
  BY <1>2, <1>5, <1>6, EventIs
<1>9. a.goal = "idle"
  <2>1. \E x \in Of(s.schedule, g) : x.kind = "agent.decide"
    BY <1>2 DEF Fitting
  <2>2. Orderly(a, Of(s.schedule, g), s.time)
    BY <1>3 DEF AllOrderly
  <2>3. QED
    BY <2>1, <2>2 DEF Orderly
<1>10. (goal = "eat" => Hungry(a, c.at)) /\ (goal = "rest" => Tired(a, c.at))
  BY <1>2, <1>3, <1>4, <1>9, SoberChoice
<1>11. goal # "idle" => a.status = "idle"
  <2>1. Feasible(s, g, goal)
    BY <1>2, <1>4, ChosenGoalIsFeasible
  <2>2. QED
    BY <1>3, <2>1 DEF Feasible
<1>12. Apt(s, e)
  BY <1>3, <1>8, <1>9, <1>10, <1>11 DEF Apt, Upcoming
<1>13. QED
  BY <1>7, <1>12, SuitsOnce

LEMMA TravelSuits ==
  ASSUME NEW s \in States, NEW c, Command(c), c.kind = "agent.travel",
         NEW events, events = Decide(s, c), events # <<>>
  PROVE  Suits(s, events)
<1>1. PICK agent \in Stored : agent = s.agents[c.agent]
  BY DEF Command, States
<1>2. events = DecideAgentTravel(s, c)
  BY DecideIs
<1>3. CASE agent.status # "idle"
  <2>1. events = PlanFailure(agent, c, "agent.is_idle")
    BY <1>1, <1>2, <1>3, Zenon DEF DecideAgentTravel
  <2>2. QED
    BY <2>1, FailureSuits
<1>4. CASE agent.status = "idle" /\ Options(agent) = {}
  <2>1. events = PlanFailure(agent, c, "route.available_from_location")
    BY <1>1, <1>2, <1>4, Zenon DEF DecideAgentTravel
  <2>2. QED
    BY <2>1, FailureSuits
<1>5. CASE agent.status = "idle" /\ Options(agent) # {}
  <2>1. PICK r : r = ChooseRoute(agent)
    OBVIOUS
  <2>2. events = <<Started(c, r)>>
    BY <1>1, <1>2, <1>5, <2>1, Zenon DEF DecideAgentTravel
  <2>3. r \in Routes
    BY <1>5, <2>1, ChooseRouteIsOption
  <2>4. c.at \in Nat
    BY DEF Command
  <2>5. QED
    BY <2>2, <2>3, <2>4, StartSuits
<1>6. QED
  BY <1>3, <1>4, <1>5

LEMMA JourneySuits ==
  ASSUME NEW s, NEW c, c.at \in Nat, c.kind = "journey.start", c.route \in Routes,
         NEW events, events = Decide(s, c), events # <<>>
  PROVE  Suits(s, events)
<1>1. events = DecideJourneyStart(s, c)
  BY DecideIs
<1>2. events = <<Started(c, c.route)>>
  BY <1>1, Zenon DEF DecideJourneyStart
<1>3. QED
  BY <1>2, StartSuits

(* Whatever the command, if it is accepted.                                *)
LEMMA DecideSuits ==
  ASSUME Sober, NEW s \in States, AllOrderly(s), NEW c, Command(c), Known(c), Fitting(s, c),
         c.kind = "journey.start" => c.route \in Routes,
         NEW events, events = Decide(s, c), events # <<>>
  PROVE  Suits(s, events)
<1>1. c.at \in Nat
  BY DEF Command
<1>2. CASE c.kind = "journey.start"
  BY <1>1, <1>2, JourneySuits
<1>3. CASE c.kind = "journey.complete"
  BY <1>3, CompleteSuits
<1>4. CASE c.kind = "need.threshold"
  BY <1>4, ThresholdSuits
<1>5. CASE c.kind = "agent.eat"
  BY <1>1, <1>5, EatSuits
<1>6. CASE c.kind = "agent.rest"
  BY <1>1, <1>6, RestSuits
<1>7. CASE c.kind = "rest.complete"
  BY <1>1, <1>7, WakingSuits
<1>8. CASE c.kind = "agent.decide"
  BY <1>8, ChoiceSuits
<1>9. CASE c.kind = "agent.travel"
  BY <1>9, TravelSuits
<1>10. QED
  BY <1>2, <1>3, <1>4, <1>5, <1>6, <1>7, <1>8, <1>9 DEF Known, KindNames

-----------------------------------------------------------------------------
(* A prompt and sober world. What is due is served before the time that is *)
(* left until the next level of a need has gone by, and whoever arrives has*)
(* no step left, since what is due earlier is served earlier.              *)
InTime ==
  \A x \in Loaded.schedule, n \in Needs :
    (observed - x.due + 1) * 1000 <= Span(n)

StepsFirst ==
  \A id \in batch, x \in Loaded.schedule :
    /\ Pending(id) /\ rows[id].action.kind = "journey.complete"
    /\ x.agent = rows[id].action.agent
    => x.kind \notin Steps

Unrefused == NothingFails /\ AllOrderly(Loaded) /\ Exact(Loaded) /\ InTime /\ StepsFirst

PromptInv == Prompt /\ Sober /\ WorldInv /\ Unrefused

(* The numbers of InTime are numbers.                                      *)
LEMMA SpanInt ==
  ASSUME NEW n \in Needs
  PROVE  Span(n) \in Int
<1>1. ReachedAt["critical"] \in Int /\ ReachedAt["warning"] \in Int /\ Full[n] \in Int
  BY NeedsHaveRates, Rates
<1>2. ReachedAt["critical"] - ReachedAt["warning"] \in Int
  BY <1>1
<1>3. \A a, b \in Int : a * b \in Int
  OBVIOUS
<1>4. QED
  BY <1>1, <1>2, <1>3 DEF Span

(* Where nothing fails, what is on the schedule is what is pending.        *)
LEMMA UnfinishedArePending ==
  ASSUME WorldInv, NothingFails, NEW x \in Loaded.schedule
  PROVE  \E id \in DOMAIN rows : Pending(id) /\ rows[id].action = x
<1>1. PICK id \in DOMAIN rows : rows[id].outcome # "completed" /\ x = rows[id].action
  BY LoadedIs DEF Unfinished
<1>2. rows[id].outcome = "pending"
  BY <1>1 DEF WorldInv, Healthy, RowsAreKnown, NothingFails
<1>3. QED
  BY <1>1, <1>2 DEF Pending

LEMMA ServedIs ==
  ASSUME WorldInv, NEW id, NEW c, Served(id, c)
  PROVE  /\ id \in DOMAIN rows /\ rows[id].action \in Loaded.schedule
         /\ rows[id].action \in Planned /\ Formed(rows[id].action)
         /\ c.kind = rows[id].action.kind /\ c.agent = rows[id].action.agent
         /\ c.item = rows[id].action.item /\ c.need = rows[id].action.need
         /\ c.level = rows[id].action.level
<1>1. PICK x : x = rows[id].action
  OBVIOUS
<1>2. id \in batch /\ Pending(id) /\ c = CommandFor(x, c.at)
  BY <1>1 DEF Served
<1>3. /\ c.kind = x.kind /\ c.agent = x.agent /\ c.item = x.item /\ c.need = x.need
      /\ c.level = x.level
  BY <1>2, CommandIs
<1>4. id \in DOMAIN rows
  BY <1>2 DEF WorldInv, Healthy, Timely
<1>5. x \in Planned /\ Formed(x)
  BY <1>1, <1>4 DEF WorldInv, Healthy, RowsAreKnown
<1>6. x \in Loaded.schedule
  BY <1>1, <1>2, <1>4, LoadedIs DEF Unfinished, Pending
<1>7. QED
  BY <1>1, <1>3, <1>4, <1>5, <1>6

(* A command that is served, or an order, fits the schedule.               *)
LEMMA ServedFits ==
  ASSUME WorldInv, StepsFirst, NEW id, NEW c, Served(id, c)
  PROVE  Fitting(Loaded, c) /\ c.kind # "journey.start"
<1>1. PICK x : x = rows[id].action
  OBVIOUS
<1>2. /\ x \in Loaded.schedule /\ c.kind = x.kind /\ c.agent = x.agent /\ c.item = x.item
      /\ x \in Planned
  BY <1>1, ServedIs
<1>3. x \in Of(Loaded.schedule, c.agent)
  BY <1>2 DEF Of
<1>4. c.kind = "journey.complete" => \A y \in Of(Loaded.schedule, c.agent) : y.kind \notin Steps
  BY <1>1, <1>2 DEF StepsFirst, Served, Of
<1>5. c.kind # "journey.start"
  BY <1>2 DEF Planned, KindNames
<1>6. QED
  BY <1>2, <1>3, <1>4, <1>5 DEF Fitting

LEMMA OrderFits ==
  ASSUME NEW s, NEW c, Ordering(c)
  PROVE  Fitting(s, c)
  BY DEF Ordering, Fitting

(* What is served in time is not refused: the end of a journey or a rest,  *)
(* or a decision, never; a step, since its agent has the plan it is for;   *)
(* news, since it comes before the next.                                   *)
LEMMA NothingIsRefused ==
  ASSUME PromptInv
  PROVE  ~Refused
<1> SUFFICES ASSUME Refused PROVE FALSE
  OBVIOUS
<1>1. PICK id \in DOMAIN rows : \E c :
        /\ Served(id, c) /\ Decide(Loaded, c) = <<>> /\ Answered(Loaded, c, <<>>)
        /\ c.at \in Nat /\ c.at <= observed
  BY DEF Refused
<1>2. PICK c :
        /\ Served(id, c) /\ Decide(Loaded, c) = <<>> /\ Answered(Loaded, c, <<>>)
        /\ c.at \in Nat /\ c.at <= observed
  BY <1>1
<1>3. PICK s : s = Loaded
  OBVIOUS
<1>4. PICK x \in Planned : x = rows[id].action
  BY <1>2, ServedIs DEF PromptInv
<1>5. /\ x \in s.schedule /\ Formed(x) /\ c.kind = x.kind /\ c.agent = x.agent
      /\ c.need = x.need /\ c.level = x.level
  BY <1>2, <1>3, <1>4, ServedIs DEF PromptInv
<1>6. PICK g \in Agents : g = x.agent
  BY DEF Planned
<1>7. x \in Of(s.schedule, g) /\ x.due \in Nat /\ x.due <= c.at
  BY <1>2, <1>4, <1>5, <1>6 DEF Of, Planned, Served
<1>8. Good(s, Failed)
  BY <1>3 DEF PromptInv, WorldInv, Healthy
<1>9. PICK a \in Stored : a = s.agents[g]
  BY <1>8 DEF Good, States
<1>10. x.kind \notin Sure
  BY <1>2, <1>5 DEF Answered
<1>11. CASE x.kind \in Steps
  <2>1. a.plan = 0
    BY <1>2, <1>3, <1>5, <1>6, <1>9, <1>11 DEF Answered
  <2>2. a.goal # "idle"
    <3>1. Orderly(a, Of(s.schedule, g), s.time)
      BY <1>3, <1>9 DEF PromptInv, Unrefused, AllOrderly
    <3>2. QED
      BY <1>7, <1>11, <3>1 DEF Orderly
  <2>3. a.goal = "idle" <=> a.plan = 0
    BY <1>8, <1>9 DEF Good, Fine
  <2>4. QED
    BY <2>1, <2>2, <2>3
<1>12. CASE x.kind = "need.threshold"
  <2>1. PICK n \in Needs : n = x.need
    BY <1>5, <1>12 DEF Formed
  <2>2. x.level \in {"warning", "critical"}
    BY <1>5, <1>12 DEF Formed
  <2>3. PICK B \in Nat : B = a.baseline[n]
    BY DEF Stored
  <2>4. PICK L \in {"normal", "warning"} : L = Better(x.level)
    BY DEF Better
  <2>5. Worse(L) = x.level
    BY <2>2, <2>4 DEF Better, Worse
  <2>6. x.due \in NextCrossing(n, B, L)
    <3>1. x \in Awaited(s, g, n)
      BY <1>7, <1>12, <2>1 DEF Awaited
    <3>2. ExactOf(s, g, n)
      BY <1>3 DEF PromptInv, Unrefused, Exact
    <3>3. QED
      BY <1>9, <2>3, <2>4, <3>1, <3>2 DEF ExactOf
  <2>7. (c.at - x.due + 1) * 1000 <= Span(n)
    <3>1. PICK much \in Int : much = Span(n)
      BY SpanInt
    <3>2. (observed - x.due + 1) * 1000 <= much
      BY <1>3, <1>5, <3>1 DEF PromptInv, Unrefused, InTime
    <3>3. observed \in Nat
      BY DEF PromptInv, WorldInv, Healthy, Timely
    <3>4. (c.at - x.due + 1) * 1000 <= much
      BY <1>2, <1>7, <3>1, <3>2, <3>3
    <3>5. QED
      BY <3>1, <3>4
  <2>8. Level(n, B, c.at) = x.level
    BY <1>2, <1>7, <2>5, <2>6, <2>7, LevelInTime
  <2>9. PICK e : e = Crossed(c, n, Better(c.level), c.level, B)
    OBVIOUS
  <2>10. PICK more : more = EmergencyInterrupt(a, c)
    OBVIOUS
  <2>11. Decide(s, c) = DecideNeedThresholdCross(s, c)
    BY <1>5, <1>12, DecideIs
  <2>12. ~(Level(n, B, c.at) # c.level \/ c.level = "normal")
    BY <1>5, <2>2, <2>8
  <2>13. DecideNeedThresholdCross(s, c) = <<e>> \o more
    BY <1>5, <1>6, <1>9, <2>1, <2>3, <2>9, <2>10, <2>12, Zenon DEF DecideNeedThresholdCross
  <2>14. more = <<>> \/ \E f : more = <<f>>
    BY <2>10 DEF EmergencyInterrupt, PlanFailure
  <2>15. <<e>> \o more # <<>>
    <3>1. CASE more = <<>>
      BY <3>1
    <3>2. CASE \E f : more = <<f>>
      BY <3>2
    <3>3. QED
      BY <2>14, <3>1, <3>2
  <2>16. QED
    BY <1>2, <1>3, <2>11, <2>13, <2>15
<1>13. QED
  BY <1>10, <1>11, <1>12 DEF Planned, KindNames, Sure, NamedByEvent, Steps

-----------------------------------------------------------------------------
(* The world can wait a minute.                                            *)
LEMMA AMinuteIsShort ==
  ASSUME Prompt, NEW n \in Needs
  PROVE  1000 <= Span(n)
<1>1. 1 * 1000 <= Span(n)
  BY DEF Prompt
<1>2. QED
  BY <1>1

(* A command that is accepted leaves everything as it should be.           *)
LEMMA AcceptedInTime ==
  ASSUME Prompt, WorldInv, InTime, NEW c, c.at \in Nat, c.at <= observed,
         Ordering(c) \/ \E id \in DOMAIN rows : Served(id, c),
         NEW x, x.due \in Nat, x \in Loaded.schedule \/ x.due >= c.at, NEW n \in Needs
  PROVE  (observed - x.due + 1) * 1000 <= Span(n)
<1>1. PICK much \in Int : much = Span(n)
  BY SpanInt
<1>2. observed \in Nat
  BY DEF WorldInv, Healthy, Timely
<1>3. (observed - x.due + 1) * 1000 <= much
  <2>1. CASE x \in Loaded.schedule
    BY <1>1, <2>1 DEF InTime
  <2>2. CASE x.due >= c.at /\ Ordering(c)
    <3>1. 1000 <= much
      BY <1>1, AMinuteIsShort
    <3>2. observed <= x.due
      BY <2>2 DEF Ordering
    <3>3. QED
      BY <1>1, <1>2, <3>1, <3>2
  <2>3. CASE x.due >= c.at /\ \E id \in DOMAIN rows : Served(id, c)
    <3>1. PICK id \in DOMAIN rows : Served(id, c)
      BY <2>3
    <3>2. PICK y : y = rows[id].action
      OBVIOUS
    <3>3. y \in Loaded.schedule /\ y.due \in Nat /\ y.due <= c.at
      BY <3>1, <3>2, ServedIs DEF Served, Planned
    <3>4. (observed - y.due + 1) * 1000 <= much
      BY <1>1, <3>3 DEF InTime
    <3>5. y.due <= x.due
      BY <2>3, <3>3
    <3>6. QED
      BY <1>1, <1>2, <3>3, <3>4, <3>5
  <2>4. QED
    BY <2>1, <2>2, <2>3
<1>4. QED
  BY <1>1, <1>3

LEMMA AcceptedFailsNothing ==
  ASSUME WorldInv, NothingFails, NEW after, NEW events, Accept(Loaded, after, events)
  PROVE  NothingFails'
<1>1. ASSUME NEW id \in DOMAIN rows' PROVE rows'[id].outcome # "failed"
  <2>1. CASE id \in DOMAIN rows
    BY <2>1, RowsStay DEF NothingFails
  <2>2. CASE id \notin DOMAIN rows
    BY <2>2, RowsCome
  <2>3. QED
    BY <2>1, <2>2
<1>2. QED
  BY <1>1 DEF NothingFails

(* Nobody who is still under way is given a step.                          *)
LEMMA AcceptedStepsFirst ==
  ASSUME WorldInv, StepsFirst, TickStays, NEW after, NEW events, Accept(Loaded, after, events),
         \A y \in after.schedule : y \in Loaded.schedule
           \/ (y.kind \in Steps => Loaded.agents[y.agent].status = "idle")
  PROVE  StepsFirst'
<1>1. Loaded' = after
  BY AcceptedIsLoaded
<1>2. ASSUME NEW id \in batch', NEW x \in after.schedule, Pending(id)',
             rows'[id].action.kind = "journey.complete", x.agent = rows'[id].action.agent,
             x.kind \in Steps
      PROVE  FALSE
  <2>1. id \in batch /\ id \in DOMAIN rows
    BY <1>2 DEF TickStays, WorldInv, Healthy, Timely
  <2>2. /\ rows'[id].action = rows[id].action
        /\ rows'[id].outcome = "pending" => rows[id].outcome = "pending"
    BY <2>1, RowsStay
  <2>3. Pending(id)
    BY <1>2, <2>2 DEF Pending
  <2>4. PICK y : y = rows[id].action
    OBVIOUS
  <2>5. y.kind = "journey.complete" /\ x.agent = y.agent
    BY <1>2, <2>2, <2>4
  <2>6. CASE x \in Loaded.schedule
    BY <1>2, <2>1, <2>3, <2>4, <2>5, <2>6 DEF StepsFirst
  <2>7. CASE Loaded.agents[x.agent].status = "idle"
    <3>1. Good(Loaded, Failed)
      BY DEF WorldInv, Healthy
    <3>2. y \in Loaded.schedule
      BY <2>1, <2>3, <2>4, LoadedIs DEF Unfinished, Pending
    <3>3. PICK g \in Agents : g = y.agent
      BY <3>1, <3>2, Scheduled
    <3>4. y \in Of(Loaded.schedule, g)
      BY <3>2, <3>3 DEF Of
    <3>5. Loaded.agents[g].status = "traveling"
      BY <2>5, <3>1, <3>4 DEF Good, Fine
    <3>6. QED
      BY <2>5, <2>7, <3>3, <3>5
  <2>8. QED
    BY <1>2, <2>6, <2>7
<1>3. QED
  BY <1>1, <1>2 DEF StepsFirst

LEMMA AdvancedPrompt ==
  ASSUME PromptInv, WorldInv', TickStays, Advanced
  PROVE  Unrefused'
<1>1. PICK s : s = Loaded
  OBVIOUS
<1>2. PICK c, events :
        /\ Proper(s, c, events) /\ events # <<>>
        /\ Command(c) /\ Known(c) /\ events = Decide(s, c)
        /\ Ordering(c) \/ \E id \in DOMAIN rows : Served(id, c)
        /\ c.at \in Nat /\ time <= c.at /\ c.at <= observed
        /\ Accept(s, After(s, events), events)
  BY <1>1 DEF Advanced
<1>3. PICK t : t = After(s, events)
  OBVIOUS
<1>4. Accept(Loaded, t, events) /\ Loaded' = t
  BY <1>1, <1>2, <1>3, AcceptedIsLoaded
<1>5. /\ Prompt /\ Sober /\ WorldInv
      /\ NothingFails /\ InTime /\ StepsFirst /\ AllOrderly(s) /\ Exact(s)
  BY <1>1 DEF PromptInv, Unrefused
<1>6. Good(s, Failed) /\ Old(Failed, s.sequence) /\ s.time <= c.at /\ s \in States
  BY <1>1, <1>2, <1>5, LoadedIs DEF WorldInv, Healthy, Good
<1>7. Fitting(s, c)
  BY <1>1, <1>2, <1>5, ServedFits, OrderFits
<1>8. c.kind = "journey.start" => c.route \in Routes
  BY <1>2, <1>5, ServedFits DEF Ordering
<1>9. Suits(s, events)
  BY <1>2, <1>5, <1>6, <1>7, <1>8, DecideSuits
<1>10. /\ AllOrderly(t)
       /\ \A y \in t.schedule :
            y \in s.schedule \/ (y.due >= c.at /\ (y.kind \in Steps =>
                                                     s.agents[y.agent].status = "idle"))
  BY <1>2, <1>3, <1>5, <1>6, <1>9, AfterFollows
<1>11. Exact(t)
  <2>1. Heeding(s, events)
    BY <1>2, DecideHeeds
  <2>2. QED
    BY <1>2, <1>3, <1>5, <1>6, <1>9, <2>1, AfterExact
<1>12. NothingFails'
  BY <1>4, <1>5, AcceptedFailsNothing
<1>13. StepsFirst'
  BY <1>1, <1>4, <1>5, <1>10, AcceptedStepsFirst
<1>14. InTime'
  <2>1. ASSUME NEW x \in t.schedule, NEW n \in Needs
        PROVE  (observed - x.due + 1) * 1000 <= Span(n)
    <3>1. x.due \in Nat
      <4>1. t \in States
        BY <1>4 DEF WorldInv, Healthy, Good
      <4>2. QED
        BY <4>1 DEF States, Planned
    <3>2. x \in Loaded.schedule \/ x.due >= c.at
      BY <1>1, <1>10
    <3>3. QED
      BY <1>2, <1>5, <3>1, <3>2, AcceptedInTime
  <2>2. observed' = observed
    BY DEF TickStays
  <2>3. QED
    BY <1>4, <2>1, <2>2 DEF InTime
<1>15. QED
  BY <1>4, <1>10, <1>11, <1>12, <1>13, <1>14 DEF Unrefused

(* The tables are as they were.                                            *)
LEMMA StillPrompt ==
  ASSUME Unrefused, UNCHANGED tables, InTime', StepsFirst'
  PROVE  Unrefused'
<1>1. Loaded' = Loaded /\ rows' = rows
  BY DEF tables, Loaded
<1>2. NothingFails'
  BY <1>1 DEF Unrefused, NothingFails
<1>3. AllOrderly(Loaded)' /\ Exact(Loaded)'
  BY <1>1 DEF Unrefused
<1>4. QED
  BY <1>2, <1>3 DEF Unrefused

LEMMA ServePrompt ==
  ASSUME PromptInv, WorldInv', TickStays, UNCHANGED tables \/ Advanced \/ Refused
  PROVE  Unrefused'
<1>1. CASE UNCHANGED tables
  <2>1. Loaded' = Loaded /\ rows' = rows
    BY <1>1 DEF tables, Loaded
  <2>2. InTime'
    BY <2>1 DEF PromptInv, Unrefused, InTime, TickStays
  <2>3. StepsFirst'
    BY <2>1 DEF PromptInv, Unrefused, StepsFirst, TickStays, Pending
  <2>4. QED
    BY <1>1, <2>2, <2>3, StillPrompt DEF PromptInv
<1>2. QED
  BY <1>1, NothingIsRefused, AdvancedPrompt

(* A further moment is announced when nothing is due.                      *)
LEMMA AnnouncePrompt ==
  ASSUME PromptInv, Announce
  PROVE  Unrefused'
<1>1. PICK stride \in Strides : observed' = observed + stride
  BY DEF Announce
<1>2. batch' = {} /\ UNCHANGED tables /\ Due(observed) = {}
  BY DEF Announce
<1>3. Loaded' = Loaded
  BY <1>2 DEF tables, Loaded
<1>4. stride \in Nat /\ observed \in Nat
  BY RunAssumption DEF PromptInv, WorldInv, Healthy, Timely
<1>5. ASSUME NEW x \in Loaded.schedule, NEW n \in Needs
      PROVE  (observed' - x.due + 1) * 1000 <= Span(n)
  <2>1. PICK id \in DOMAIN rows : Pending(id) /\ rows[id].action = x
    BY UnfinishedArePending DEF PromptInv, Unrefused
  <2>2. x.due \in Nat
    BY <2>1 DEF PromptInv, WorldInv, Healthy, RowsAreKnown, Planned
  <2>3. ~(x.due <= observed)
    BY <1>2, <2>1 DEF Due
  <2>4. PICK much \in Int : much = Span(n)
    BY SpanInt
  <2>5. stride * 1000 <= much
    BY <2>4 DEF PromptInv, Prompt
  <2>6. (observed + stride - x.due + 1) * 1000 <= much
    BY <1>4, <2>2, <2>3, <2>4, <2>5
  <2>7. QED
    BY <1>1, <1>4, <2>2, <2>4, <2>6
<1>6. InTime'
  BY <1>3, <1>5 DEF InTime
<1>7. StepsFirst'
  BY <1>2 DEF StepsFirst
<1>8. QED
  BY <1>2, <1>6, <1>7, StillPrompt DEF PromptInv

(* What is claimed is due at one moment, and nothing is due before.        *)
LEMMA ClaimPrompt ==
  ASSUME PromptInv, Claim
  PROVE  Unrefused'
<1> DEFINE dues == {rows[id].action.due : id \in Due(observed)}
<1>1. PICK moment : moment = CHOOSE t \in dues : \A id \in Due(observed) : t <= rows[id].action.due
  OBVIOUS
<1>2. batch' = Due(moment) /\ UNCHANGED <<tables, observed>>
  BY <1>1 DEF Claim
<1>3. \A id \in DOMAIN rows : rows[id].action.due \in Nat
  BY DEF PromptInv, WorldInv, Healthy, RowsAreKnown, Planned
<1>4. dues \subseteq Nat /\ dues # {}
  BY <1>3 DEF Claim, Due
<1>5. \E t \in dues : \A u \in dues : t <= u
  BY <1>4, LeastNat
<1>6. moment \in dues /\ \A id \in Due(observed) : moment <= rows[id].action.due
  BY <1>1, <1>5
<1>7. moment \in Nat /\ moment <= observed /\ observed \in Nat
  BY <1>4, <1>6 DEF Due, PromptInv, WorldInv, Healthy, Timely
<1>8. Loaded' = Loaded /\ rows' = rows
  BY <1>2 DEF tables, Loaded
<1>9. InTime'
  BY <1>2, <1>8 DEF PromptInv, Unrefused, InTime
<1>10. ASSUME NEW id \in Due(moment), NEW x \in Loaded.schedule,
              rows[id].action.kind = "journey.complete", x.agent = rows[id].action.agent,
              x.kind \in Steps
       PROVE  FALSE
  <2>1. PICK y : y = rows[id].action
    OBVIOUS
  <2>2. id \in DOMAIN rows /\ Pending(id) /\ y.due <= moment
    BY <2>1 DEF Due
  <2>3. y \in Loaded.schedule
    BY <2>1, <2>2, LoadedIs DEF Unfinished, Pending
  <2>4. PICK g \in Agents : g = y.agent
    BY <2>1, <2>2 DEF PromptInv, WorldInv, Healthy, RowsAreKnown, Planned
  <2>5. x \in Of(Loaded.schedule, g) /\ y \in Of(Loaded.schedule, g)
    BY <1>10, <2>1, <2>3, <2>4 DEF Of
  <2>6. Orderly(Loaded.agents[g], Of(Loaded.schedule, g), Loaded.time)
    BY DEF PromptInv, Unrefused, AllOrderly
  <2>7. x.due < y.due
    BY <1>10, <2>1, <2>5, <2>6 DEF Orderly
  <2>8. PICK j \in DOMAIN rows : Pending(j) /\ rows[j].action = x
    BY UnfinishedArePending DEF PromptInv, Unrefused
  <2>9. x.due \in Nat /\ y.due \in Nat
    BY <1>3, <2>1, <2>2, <2>8
  <2>10. x.due <= observed
    BY <1>7, <2>2, <2>7, <2>9
  <2>11. moment <= x.due
    BY <1>6, <2>8, <2>10 DEF Due
  <2>12. QED
    BY <1>7, <2>2, <2>7, <2>9, <2>11
<1>11. StepsFirst'
  BY <1>2, <1>8, <1>10 DEF StepsFirst
<1>12. QED
  BY <1>2, <1>9, <1>11, StillPrompt DEF PromptInv

(* A world begins so.                                                      *)
LEMMA InitPrompt ==
  ASSUME Init, Prompt, WorldInv
  PROVE  Unrefused
<1>1. rows = Enrolled /\ batch = {} /\ observed = 0
  BY DEF Init
<1>2. NothingFails
  <2>1. \A id \in DOMAIN Enrolled : Enrolled[id].outcome = "pending"
    BY DEF Enrolled
  <2>2. QED
    BY <1>1, <2>1 DEF NothingFails
<1>3. Loaded.schedule = InitialSchedule
  BY FirstUnfinished, LoadedIs
<1>4. AllOrderly(Loaded)
  <2>1. \A x \in Loaded.schedule : x.kind = "need.threshold"
    BY <1>3, FirstRows
  <2>2. ASSUME NEW ag \in Agents
        PROVE  Orderly(Loaded.agents[ag], Of(Loaded.schedule, ag), Loaded.time)
    <3>1. \A x \in Of(Loaded.schedule, ag) : x.kind = "need.threshold"
      BY <2>1 DEF Of
    <3>2. QED
      BY <3>1 DEF Orderly, Steps
  <2>3. QED
    BY <2>2 DEF AllOrderly
<1>5. ASSUME NEW ag \in Agents, NEW n \in Needs PROVE Loaded.agents[ag].baseline[n] = 0
  <2>1. PICK place \in [Agents -> StartPlaces], caution \in [Agents -> Cautions] :
          agents = [g \in Agents |-> Newborn(place[g], caution[g])]
    BY DEF Init
  <2>2. QED
    BY <2>1, LoadedIs DEF Newborn, Needs
<1>6. Exact(Loaded)
  <2> SUFFICES ASSUME NEW ag \in Agents, NEW n \in Needs PROVE ExactOf(Loaded, ag, n)
    BY DEF Exact
  <2>1. PICK L \in NeedLevels : L = "normal"
    BY DEF NeedLevels
  <2>2. Awaited(Loaded, ag, n) = {Crossing(ag, n, due, Worse(L)) : due \in NextCrossing(n, 0, L)}
    BY <2>1, FirstAwaited DEF Worse
  <2>3. \A x \in Awaited(Loaded, ag, n) : x.due \in NextCrossing(n, 0, Better(x.level))
    BY <2>2, NextIsExact
  <2>4. QED
    BY <1>5, <2>3 DEF ExactOf
<1>7. InTime
  <2> SUFFICES ASSUME NEW x \in Loaded.schedule, NEW n \in Needs
               PROVE  (observed - x.due + 1) * 1000 <= Span(n)
    BY DEF InTime
  <2>1. PICK g \in Agents, m \in Needs : \E due \in NextCrossing(m, 0, "normal") :
          x = Crossing(g, m, due, "warning")
    BY <1>3, FirstScheduleIs
  <2>2. PICK due \in NextCrossing(m, 0, "normal") : x = Crossing(g, m, due, "warning")
    BY <2>1
  <2>3. x.due = due
    BY <2>2, FirstCrossingIs
  <2>4. due \in Int /\ due > 0
    BY <2>2, NeedsHaveRates, CrossingIsTheFirstMinute
  <2>5. PICK much \in Int : much = Span(n)
    BY SpanInt
  <2>6. 1000 <= much
    BY <2>5, AMinuteIsShort
  <2>7. (observed - x.due + 1) * 1000 <= much
    BY <1>1, <2>3, <2>4, <2>5, <2>6
  <2>8. QED
    BY <2>5, <2>7
<1>8. StepsFirst
  BY <1>1 DEF StepsFirst
<1>9. QED
  BY <1>2, <1>4, <1>6, <1>7, <1>8 DEF Unrefused

LEMMA NextPromptInv == PromptInv /\ [Next]_vars => PromptInv'
<1> SUFFICES ASSUME PromptInv, [Next]_vars PROVE PromptInv'
  OBVIOUS
<1>1. WorldInv /\ WorldInv'
  BY NextWorldInv DEF PromptInv
<1>2. Prompt' /\ Sober'
  BY DEF PromptInv, Prompt, Sober
<1>3. Unrefused'
  <2>1. CASE UNCHANGED vars
    <3>1. UNCHANGED tables /\ TickStays
      BY <1>1, <2>1 DEF vars, tables, TickStays, WorldInv, Healthy, Timely
    <3>2. QED
      BY <1>1, <3>1, ServePrompt
  <2>2. CASE Announce
    BY <2>2, AnnouncePrompt
  <2>3. CASE Claim
    BY <2>3, ClaimPrompt
  <2>4. CASE Serve
    BY <1>1, <2>4, ServeIs, ServePrompt
  <2>5. CASE \E ag \in Agents, r \in Routes : Order(ag, r)
    BY <1>1, <2>5, OrderIs, ServePrompt
  <2>6. QED
    BY <2>1, <2>2, <2>3, <2>4, <2>5 DEF Next
<1>4. QED
  BY <1>1, <1>2, <1>3 DEF PromptInv

(* In a world that is served promptly and whose agents are sober, nothing  *)
(* on the schedule is ever refused, whatever the operator orders.          *)
THEOREM APromptWorldRefusesNothing == Spec /\ Prompt /\ Sober => []NothingFails
<1>1. Init /\ Prompt /\ Sober => PromptInv
  BY InitIInv, InitHealthy, InitPrompt DEF PromptInv, WorldInv
<1>2. PromptInv => NothingFails
  BY DEF PromptInv, Unrefused
<1>3. QED
  BY <1>1, <1>2, NextPromptInv, PTL DEF Spec

(* And so no need is ever forgotten there.                                 *)
THEOREM APromptWorldForgetsNoNeed == Spec /\ Prompt /\ Sober => []CrossingAwaited
  BY APromptWorldRefusesNothing, CrossingsAreAwaited, PTL

-----------------------------------------------------------------------------
(* Whose needs are seen to. Of the crossings C of a need that are awaited, *)
(* the one that tells of the first level says that it is not felt yet.     *)
Unfelt(C) == \E x \in C : x.level = "warning"

(* Who sleeps, or is about to lie down, does it to rest, and will be told  *)
(* of his hunger before it becomes critical, unless he has no food.        *)
Mindful(a, X, hunger, bare) ==
  /\ a.status = "resting" => a.goal = "rest" /\ (hunger # {} \/ bare)
  /\ \A x \in X : x.kind = "agent.rest" =>
       /\ a.goal = "rest"
       /\ \/ bare
          \/ hunger # {} /\ Level("hunger", a.baseline["hunger"], x.due) # "critical"

(* Who is free and is not going to think feels nothing he could answer.    *)
Content(a, X, hunger, fatigue, bare) ==
  Free(a) /\ (\A x \in X : x.kind # "agent.decide") =>
    Unfelt(fatigue) /\ (Unfelt(hunger) \/ bare)

(* Who is going to think does so at once.                                  *)
Alert(X, at) == \A x \in X : x.kind = "agent.decide" => x.due <= at

Bare(s, ag) == FoodOf(s, ag) = {}

Wakeful(s, ag) ==
  /\ Mindful(s.agents[ag], Of(s.schedule, ag), Awaited(s, ag, "hunger"), Bare(s, ag))
  /\ Content(s.agents[ag], Of(s.schedule, ag), Awaited(s, ag, "hunger"),
             Awaited(s, ag, "fatigue"), Bare(s, ag))
  /\ Alert(Of(s.schedule, ag), s.time)

AllWakeful(s) == \A ag \in Agents : Wakeful(s, ag)

(* Everybody but one is.                                                   *)
OthersWakeful(s, g) ==
  Alert(Of(s.schedule, g), s.time) /\ \A ag \in Agents : ag # g => Wakeful(s, ag)

LEMMA AllAreOthers ==
  ASSUME NEW s, AllWakeful(s), NEW g \in Agents
  PROVE  OthersWakeful(s, g)
  BY DEF AllWakeful, OthersWakeful, Wakeful

(* Who has another agent's event happen beside him stays as he was.        *)
LEMMA StaysWakeful ==
  ASSUME NEW s, NEW e, NEW t, NEW ag \in Agents, ag # e.agent, Wakeful(s, ag),
         t.agents[ag] = s.agents[ag], Of(t.schedule, ag) = Of(s.schedule, ag),
         FoodOf(t, ag) = FoodOf(s, ag), t.time = s.time
  PROVE  Wakeful(t, ag)
<1>1. \A n : Awaited(t, ag, n) = Awaited(s, ag, n)
  BY DEF Awaited
<1>2. QED
  BY <1>1 DEF Wakeful, Bare

(* What a decision that is scheduled adds.                                 *)
LEMMA DecisionAdds ==
  ASSUME NEW u \in States, NEW e, e.agent \in Agents, NEW t, t = WithDecision(u, e)
  PROVE  \A x \in t.schedule : x \in u.schedule \/ (x.kind = "agent.decide" /\ x.due = e.at)
<1>1. CASE ~Free(u.agents[e.agent])
  BY <1>1 DEF WithDecision
<1>2. CASE Free(u.agents[e.agent])
  <2>1. PICK x : x = Action("agent.decide", e.agent, e.at, u.sequence)
    OBVIOUS
  <2>2. x.kind = "agent.decide" /\ x.due = e.at
    BY <2>1 DEF Action
  <2>3. PICK Y : Y = (u.schedule \ {y \in Of(u.schedule, e.agent) : y.kind \in {"agent.decide"}})
                       \cup {x}
    OBVIOUS
  <2>4. t = [u EXCEPT !.schedule = Y]
    BY <1>2, <2>1, <2>3 DEF WithDecision, Without
  <2>5. t.schedule = Y
    BY <2>4 DEF States
  <2>6. QED
    BY <2>2, <2>3, <2>5
<1>3. QED
  BY <1>1, <1>2

(* The food of nobody else has changed.                                    *)
OthersKeep(s, g, u) == \A ag \in Agents : ag # g => FoodOf(u, ag) = FoodOf(s, ag)

(* What the agent of an event owes, for everybody to be wakeful after it.  *)
Owes(b, Y, t, g) ==
  /\ Mindful(b, Y, Awaited(t, g, "hunger"), Bare(t, g))
  /\ Content(b, Y, Awaited(t, g, "hunger"), Awaited(t, g, "fatigue"), Bare(t, g))

LEMMA MoveWakes ==
  ASSUME NEW s \in States, NEW e, NEW g \in Agents, g = e.agent, e.at = s.time,
         OthersWakeful(s, g),
         NEW b, NEW Gone, Owned(Gone, g), NEW New, Owned(New, g),
         \A x \in New : x.kind # "agent.decide",
         NEW u \in States, Becomes(s, g, b, Gone, New, u), OthersKeep(s, g, u),
         NEW Y, Y = (Of(s.schedule, g) \ Gone) \cup New
  PROVE  /\ OthersWakeful(u, g)
         /\ Owes(b, Y, u, g) => AllWakeful(u)
<1>1. u.time = s.time /\ u.agents = [s.agents EXCEPT ![g] = b] /\ Of(u.schedule, g) = Y
  BY DEF Becomes, Owned, Of
<1>2. u.agents[g] = b
  BY <1>1 DEF States
<1>3. Alert(Y, s.time)
  BY DEF OthersWakeful, Alert
<1>4. ASSUME NEW ag \in Agents, ag # g PROVE Wakeful(u, ag)
  <2>1. u.agents[ag] = s.agents[ag]
    BY <1>1, <1>4 DEF States
  <2>2. Of(u.schedule, ag) = Of(s.schedule, ag)
    BY <1>4 DEF Becomes, Owned, Of
  <2>3. FoodOf(u, ag) = FoodOf(s, ag)
    BY <1>4 DEF OthersKeep
  <2>4. Wakeful(s, ag)
    BY <1>4 DEF OthersWakeful
  <2>5. QED
    BY <1>1, <1>4, <2>1, <2>2, <2>3, <2>4, StaysWakeful
<1>5. OthersWakeful(u, g)
  BY <1>1, <1>3, <1>4 DEF OthersWakeful
<1>6. ASSUME Owes(b, Y, u, g) PROVE AllWakeful(u)
  <2>1. Wakeful(u, g)
    BY <1>1, <1>2, <1>3, <1>6 DEF Wakeful, Owes
  <2>2. QED
    BY <1>4, <2>1 DEF AllWakeful
<1>7. QED
  BY <1>5, <1>6

(* And if a decision is scheduled besides.                                 *)
LEMMA MoveAndDecisionWake ==
  ASSUME NEW s \in States, NEW e, NEW g \in Agents, g = e.agent, e.at = s.time,
         OthersWakeful(s, g),
         NEW b, NEW Gone, Owned(Gone, g), NEW New, Owned(New, g),
         \A x \in New : x.kind # "agent.decide",
         NEW u \in States, Becomes(s, g, b, Gone, New, u), OthersKeep(s, g, u),
         NEW Y, Y = (Of(s.schedule, g) \ Gone) \cup New,
         NEW t, t = WithDecision(u, e)
  PROVE  /\ OthersWakeful(t, g)
         /\ Mindful(b, Y, Awaited(u, g, "hunger"), Bare(u, g)) => AllWakeful(t)
<1>1. u.time = s.time /\ u.agents = [s.agents EXCEPT ![g] = b] /\ Of(u.schedule, g) = Y
  BY DEF Becomes, Owned, Of
<1>2. u.agents[g] = b
  BY <1>1 DEF States
<1>3. OthersWakeful(u, g)
  BY MoveWakes
<1>4. e.at \in Nat
  BY DEF States
<1>5. /\ t.time = u.time /\ t.agents = u.agents /\ t.items = u.items
      /\ OthersStay(u, t, e.agent)
      /\ Free(u.agents[e.agent]) => Deciding(Of(t.schedule, e.agent), e.at)
  BY <1>4, WithDecisionEffect
<1>6. \A x \in t.schedule : x \in u.schedule \/ (x.kind = "agent.decide" /\ x.due = e.at)
  BY DecisionAdds
<1>7. \A ag, n : Awaited(t, ag, n) = Awaited(u, ag, n)
  BY WithDecisionNeeds
<1>8. \A ag : FoodOf(t, ag) = FoodOf(u, ag)
  BY <1>5 DEF FoodOf
<1>9. \A x \in Of(t.schedule, g) : x \in Y \/ (x.kind = "agent.decide" /\ x.due = e.at)
  BY <1>1, <1>6 DEF Of
<1>10. Alert(Of(t.schedule, g), t.time)
  BY <1>1, <1>3, <1>4, <1>5, <1>9 DEF Alert, OthersWakeful
<1>11. ASSUME NEW ag \in Agents, ag # g PROVE Wakeful(t, ag)
  <2>1. Wakeful(u, ag)
    BY <1>3, <1>11 DEF OthersWakeful
  <2>2. Of(t.schedule, ag) = Of(u.schedule, ag)
    BY <1>5, <1>11 DEF OthersStay
  <2>3. QED
    BY <1>5, <1>8, <1>11, <2>1, <2>2, StaysWakeful
<1>12. ASSUME Mindful(b, Y, Awaited(u, g, "hunger"), Bare(u, g)) PROVE Wakeful(t, g)
  <2>1. Mindful(b, Of(t.schedule, g), Awaited(t, g, "hunger"), Bare(t, g))
    BY <1>7, <1>8, <1>9, <1>12 DEF Mindful, Bare
  <2>2. Free(b) => \E x \in Of(t.schedule, g) : x.kind = "agent.decide"
    BY <1>2, <1>5 DEF Deciding
  <2>3. Content(b, Of(t.schedule, g), Awaited(t, g, "hunger"), Awaited(t, g, "fatigue"), Bare(t, g))
    BY <2>2 DEF Content
  <2>4. QED
    BY <1>2, <1>5, <1>10, <2>1, <2>3 DEF Wakeful
<1>13. QED
  BY <1>10, <1>11, <1>12 DEF OthersWakeful, AllWakeful

(* If only the agent and his part of the schedule are other.               *)
News(Y, n) == {x \in Y : x.kind = "need.threshold" /\ x.need = n}

LEMMA MovedWakes ==
  ASSUME NEW s \in States, NEW e, NEW g \in Agents, g = e.agent, e.at = s.time,
         OthersWakeful(s, g),
         NEW b \in Stored, NEW Gone, Owned(Gone, g), NEW New \in SUBSET Planned, Owned(New, g),
         \A x \in New : x.kind # "agent.decide",
         NEW u, u = Moved(s, g, b, Gone, New),
         NEW Y, Y = (Of(s.schedule, g) \ Gone) \cup New
  PROVE  /\ Mindful(b, Y, News(Y, "hunger"), Bare(s, g)) =>
              /\ AllWakeful(WithDecision(u, e))
              /\ Content(b, Y, News(Y, "hunger"), News(Y, "fatigue"), Bare(s, g)) => AllWakeful(u)
         /\ OthersWakeful(WithDecision(u, e), g)
<1>1. /\ u \in States /\ Becomes(s, g, b, Gone, New, u) /\ u.items = s.items
      /\ Of(u.schedule, g) = Y
  <2>1. u \in States /\ Becomes(s, g, b, Gone, New, u)
    BY MovedIsState DEF Becomes
  <2>2. u.items = s.items
    BY DEF Moved, States
  <2>3. QED
    BY <2>1, <2>2 DEF Becomes, Owned, Of
<1>2. \A ag : FoodOf(u, ag) = FoodOf(s, ag)
  BY <1>1 DEF FoodOf
<1>3. OthersKeep(s, g, u) /\ (Bare(u, g) <=> Bare(s, g))
  BY <1>2 DEF OthersKeep, Bare
<1>4. Awaited(u, g, "hunger") = News(Y, "hunger") /\ Awaited(u, g, "fatigue") = News(Y, "fatigue")
  BY <1>1 DEF Awaited, News
<1>5. Owes(b, Y, u, g) => AllWakeful(u)
  BY <1>1, <1>3, MoveWakes
<1>6. PICK t : t = WithDecision(u, e)
  OBVIOUS
<1>7. /\ OthersWakeful(t, g)
      /\ Mindful(b, Y, Awaited(u, g, "hunger"), Bare(u, g)) => AllWakeful(t)
  BY <1>1, <1>3, <1>6, MoveAndDecisionWake
<1>8. ASSUME Mindful(b, Y, News(Y, "hunger"), Bare(s, g))
      PROVE  Mindful(b, Y, Awaited(u, g, "hunger"), Bare(u, g))
  BY <1>3, <1>4, <1>8 DEF Mindful
<1>9. ASSUME Content(b, Y, News(Y, "hunger"), News(Y, "fatigue"), Bare(s, g))
      PROVE  Content(b, Y, Awaited(u, g, "hunger"), Awaited(u, g, "fatigue"), Bare(u, g))
  BY <1>3, <1>4, <1>9 DEF Content
<1>10. QED
  BY <1>5, <1>6, <1>7, <1>8, <1>9 DEF Owes

(* Who neither sleeps nor is about to lie down.                            *)
LEMMA MindfulAwake ==
  ASSUME NEW b, b.status # "resting", NEW Y, \A y \in Y : y.kind # "agent.rest", NEW H, NEW bare
  PROVE  Mindful(b, Y, H, bare)
  BY DEF Mindful

(* Who is not free is not content, and need not be.                        *)
LEMMA ContentBusy ==
  ASSUME NEW b, ~Free(b), NEW Y, NEW H, NEW T, NEW bare
  PROVE  Content(b, Y, H, T, bare)
  BY DEF Content

(* What is awaited of a need, where no news goes or comes.                 *)
LEMMA NewsStays ==
  ASSUME NEW X, NEW Gone, NoNews(Gone), NEW New, NoNews(New), NEW n
  PROVE  News((X \ Gone) \cup New, n) = News(X, n)
  BY DEF News, NoNews

-----------------------------------------------------------------------------
(* After each event. Here s has the time of the event already.             *)
LEMMA StartWakes ==
  ASSUME NEW s \in States, AllWakeful(s), NEW e, Decodable(e), e.type = "journey.started",
         s.time = e.at
  PROVE  AllWakeful(JourneyStarted(s, e))
<1>1. PICK g \in Agents : g = e.agent
  BY DecodedIs
<1>2. PICK r \in Routes : r = e.payload.route
  BY DecodedIs
<1>3. PICK a \in Stored : a = s.agents[g]
  BY DEF States
<1>4. PICK b : b = OffTo(a, r)
  OBVIOUS
<1>5. b \in Stored /\ b.goal = a.goal /\ b.status = "traveling" /\ b.baseline = a.baseline
  <2>1. b \in Stored /\ b.goal = a.goal /\ b.status = "traveling"
    BY <1>4, OffToIsStored
  <2>2. QED
    BY <1>4, <2>1 DEF OffTo, Stored
<1>6. PICK x : x = Arrival(g, e.payload.arrival, s.sequence, r)
  OBVIOUS
<1>7. e.payload.arrival \in Nat /\ s.sequence \in Nat
  BY DecodedIs DEF States
<1>8. x \in Planned /\ x.kind = "journey.complete" /\ x.agent = g
  BY <1>6, <1>7, NewArrival
<1>9. PICK Gone : Gone = {y \in Of(s.schedule, g) : y.kind \in {"agent.travel"}}
  OBVIOUS
<1>10. PICK New : New = {x}
  OBVIOUS
<1>11. PICK t : t = Moved(s, g, b, Gone, New)
  OBVIOUS
<1>12. JourneyStarted(s, e) = t
  BY <1>1, <1>2, <1>3, <1>4, <1>6, <1>9, <1>10, <1>11, JourneyStartedIsMove
<1>13. /\ Owned(Gone, g) /\ New \in SUBSET Planned /\ Owned(New, g)
       /\ \A y \in New : y.kind # "agent.decide"
       /\ NoNews(Gone) /\ NoNews(New)
  BY <1>8, <1>9, <1>10 DEF Owned, Of, NoNews
<1>14. PICK X, Y : X = Of(s.schedule, g) /\ Y = (X \ Gone) \cup New
  OBVIOUS
<1>15. News(Y, "hunger") = News(X, "hunger")
  BY <1>13, <1>14, NewsStays
<1>16. Mindful(a, X, News(X, "hunger"), Bare(s, g))
  BY <1>3, <1>14 DEF AllWakeful, Wakeful, Awaited, News
<1>17. \A y \in Y : y.kind = "agent.rest" => y \in X
  BY <1>8, <1>10, <1>14
<1>18. Mindful(b, Y, News(Y, "hunger"), Bare(s, g))
  BY <1>5, <1>15, <1>16, <1>17 DEF Mindful
<1>19. Content(b, Y, News(Y, "hunger"), News(Y, "fatigue"), Bare(s, g))
  BY <1>5, ContentBusy DEF Free
<1>20. OthersWakeful(s, g)
  BY AllAreOthers
<1>21. AllWakeful(t)
  BY <1>1, <1>5, <1>11, <1>13, <1>14, <1>18, <1>19, <1>20, MovedWakes
<1>22. QED
  BY <1>12, <1>21

LEMMA RestWakes ==
  ASSUME NEW s \in States, AllWakeful(s), NEW e, Decodable(e), e.type = "rest.started",
         s.time = e.at, NEW step \in Of(s.schedule, e.agent), step.kind = "agent.rest"
  PROVE  AllWakeful(RestStarted(s, e))
<1>1. PICK g \in Agents : g = e.agent
  BY DecodedIs
<1>2. PICK a \in Stored : a = s.agents[g]
  BY DEF States
<1>3. PICK b : b = LyingDown(a)
  OBVIOUS
<1>4. b \in Stored /\ b.goal = a.goal /\ b.status = "resting"
  BY <1>3, LyingDownIsStored
<1>5. PICK x : x = Action("rest.complete", g, e.payload.ending, s.sequence)
  OBVIOUS
<1>6. e.payload.ending \in Nat /\ s.sequence \in Nat
  BY DecodedIs DEF States
<1>7. x \in Planned /\ x.kind = "rest.complete" /\ x.agent = g
  BY <1>5, <1>6, NewAction DEF Plain
<1>8. PICK Gone : Gone = {y \in Of(s.schedule, g) : y.kind \in {"agent.rest"}}
  OBVIOUS
<1>9. PICK New : New = {x}
  OBVIOUS
<1>10. PICK t : t = Moved(s, g, b, Gone, New)
  OBVIOUS
<1>11. RestStarted(s, e) = t
  BY <1>1, <1>2, <1>3, <1>5, <1>8, <1>9, <1>10, RestStartedIsMove
<1>12. /\ Owned(Gone, g) /\ New \in SUBSET Planned /\ Owned(New, g)
       /\ \A y \in New : y.kind # "agent.decide"
       /\ NoNews(Gone) /\ NoNews(New)
  BY <1>7, <1>8, <1>9 DEF Owned, Of, NoNews
<1>13. PICK X, Y : X = Of(s.schedule, g) /\ Y = (X \ Gone) \cup New
  OBVIOUS
<1>14. News(Y, "hunger") = News(X, "hunger")
  BY <1>12, <1>13, NewsStays
<1>15. Mindful(a, X, News(X, "hunger"), Bare(s, g))
  BY <1>2, <1>13 DEF AllWakeful, Wakeful, Awaited, News
<1>16. a.goal = "rest" /\ (News(X, "hunger") # {} \/ Bare(s, g))
  BY <1>1, <1>13, <1>15 DEF Mindful
<1>17. \A y \in Y : y.kind # "agent.rest"
  BY <1>7, <1>8, <1>9, <1>13
<1>18. Mindful(b, Y, News(Y, "hunger"), Bare(s, g))
  BY <1>4, <1>14, <1>16, <1>17 DEF Mindful
<1>19. Content(b, Y, News(Y, "hunger"), News(Y, "fatigue"), Bare(s, g))
  BY <1>4, ContentBusy DEF Free
<1>20. OthersWakeful(s, g)
  BY AllAreOthers
<1>21. AllWakeful(t)
  BY <1>1, <1>4, <1>10, <1>12, <1>13, <1>18, <1>19, <1>20, MovedWakes
<1>22. QED
  BY <1>11, <1>21

LEMMA RiskWakes ==
  ASSUME NEW s \in States, AllWakeful(s), NEW e, Decodable(e), e.type = "risk.observed",
         s.time = e.at
  PROVE  AllWakeful(RiskObserved(s, e))
<1>1. PICK g \in Agents : g = e.agent
  BY DecodedIs
<1>2. PICK r \in Routes : r = e.payload.route
  BY DecodedIs
<1>3. PICK a \in Stored : a = s.agents[g]
  BY DEF States
<1>4. PICK b : b = Learning(a, r)
  OBVIOUS
<1>5. /\ b \in Stored /\ b.goal = a.goal /\ b.status = a.status
      /\ b.baseline["hunger"] = a.baseline["hunger"]
  <2>1. b \in Stored
    BY <1>4, LearningIsStored
  <2>2. QED
    BY <1>4, <2>1 DEF Learning, Stored
<1>6. PICK None : None = {}
  OBVIOUS
<1>7. PICK t : t = Moved(s, g, b, None, None)
  OBVIOUS
<1>8. RiskObserved(s, e) = t
  BY <1>1, <1>2, <1>3, <1>4, <1>6, <1>7, RiskObservedIsMove
<1>9. Owned(None, g) /\ None \in SUBSET Planned /\ \A y \in None : y.kind # "agent.decide"
  BY <1>6 DEF Owned
<1>10. PICK X : X = Of(s.schedule, g)
  OBVIOUS
<1>11. X = (X \ None) \cup None
  BY <1>6
<1>12. /\ Mindful(a, X, News(X, "hunger"), Bare(s, g))
       /\ Content(a, X, News(X, "hunger"), News(X, "fatigue"), Bare(s, g))
  BY <1>3, <1>10 DEF AllWakeful, Wakeful, Awaited, News
<1>13. Mindful(b, X, News(X, "hunger"), Bare(s, g))
  BY <1>5, <1>12 DEF Mindful
<1>14. Content(b, X, News(X, "hunger"), News(X, "fatigue"), Bare(s, g))
  BY <1>5, <1>12 DEF Content, Free
<1>15. OthersWakeful(s, g)
  BY AllAreOthers
<1>16. X = (Of(s.schedule, g) \ None) \cup None
  BY <1>10, <1>11
<1>17. AllWakeful(t)
  BY <1>1, <1>5, <1>7, <1>9, <1>13, <1>14, <1>15, <1>16, MovedWakes
<1>18. QED
  BY <1>8, <1>17

(* Who gives up a plan gets up, whatever he was about to do.               *)
LEMMA FailureWakes ==
  ASSUME NEW s \in States, NEW e, OthersWakeful(s, e.agent), Decodable(e),
         e.type = "plan.invalidated", s.time = e.at
  PROVE  AllWakeful(PlanInvalidated(s, e))
<1>1. PICK g \in Agents : g = e.agent
  BY DecodedIs
<1>2. PICK a \in Stored : a = s.agents[g]
  BY DEF States
<1>3. PICK b : b = GivingUp(a)
  OBVIOUS
<1>4. b \in Stored /\ b.status # "resting"
  <2>1. b \in Stored
    BY <1>3, GivingUpIsStored
  <2>2. b.status = IF a.status = "resting" THEN "idle" ELSE a.status
    BY <1>3 DEF GivingUp, Stored
  <2>3. QED
    BY <2>1, <2>2
<1>5. PICK Gone : Gone = {y \in Of(s.schedule, g) : y.kind \in OfPlan}
  OBVIOUS
<1>6. PICK None : None = {}
  OBVIOUS
<1>7. PICK u : u = Moved(s, g, b, Gone, None)
  OBVIOUS
<1>8. PlanInvalidated(s, e) = WithDecision(u, e)
  BY <1>1, <1>2, <1>3, <1>5, <1>6, <1>7, PlanInvalidatedIsMove
<1>9. /\ Owned(Gone, g) /\ Owned(None, g) /\ None \in SUBSET Planned
      /\ \A y \in None : y.kind # "agent.decide"
  BY <1>5, <1>6 DEF Owned, Of
<1>10. PICK Y : Y = (Of(s.schedule, g) \ Gone) \cup None
  OBVIOUS
<1>11. \A y \in Y : y.kind # "agent.rest"
  BY <1>5, <1>6, <1>10 DEF OfPlan
<1>12. Mindful(b, Y, News(Y, "hunger"), Bare(s, g))
  BY <1>4, <1>11, MindfulAwake
<1>13. AllWakeful(WithDecision(u, e))
  BY <1>1, <1>4, <1>7, <1>9, <1>10, <1>12, MovedWakes
<1>14. QED
  BY <1>8, <1>13

LEMMA ArrivalWakes ==
  ASSUME NEW s, NEW F, Good(s, F), AllWakeful(s), NEW e, Decodable(e),
         e.type = "journey.completed", s.time = e.at,
         NEW x \in s.schedule, x.kind = "journey.complete", x.agent = e.agent, e.caused = {Id(x)},
         \A y \in Of(s.schedule, e.agent) : y.kind \notin Steps
  PROVE  AllWakeful(JourneyCompleted(s, e))
<1>1. PICK g \in Agents : g = e.agent
  BY DecodedIs
<1>2. PICK r \in Routes : r = e.payload.route
  BY DecodedIs
<1>3. s \in States
  BY DEF Good
<1>4. PICK a \in Stored : a = s.agents[g]
  BY <1>3 DEF States
<1>5. PICK place \in Places : place = RouteTo[r]
  BY RulesAssumption DEF ValidMap
<1>6. PICK b : b = Arrived(a, place)
  OBVIOUS
<1>7. b \in Stored /\ b.status # "resting"
  <2>1. b \in Stored
    BY <1>6, ArrivedIsStored
  <2>2. b.status = "idle"
    BY <1>6 DEF Arrived, Stored
  <2>3. QED
    BY <2>1, <2>2
<1>8. PICK Gone : Gone = {y \in s.schedule : Id(y) \in e.caused}
  OBVIOUS
<1>9. Gone = {x}
  BY <1>1, <1>8, OnlyOne DEF NamedByEvent
<1>10. PICK None : None = {}
  OBVIOUS
<1>11. PICK u : u = Moved(s, g, b, Gone, None)
  OBVIOUS
<1>12. JourneyCompleted(s, e) = WithDecision(u, e)
  BY <1>1, <1>2, <1>3, <1>4, <1>5, <1>6, <1>8, <1>10, <1>11, JourneyCompletedIsMove
<1>13. /\ Owned(Gone, g) /\ Owned(None, g) /\ None \in SUBSET Planned
       /\ \A y \in None : y.kind # "agent.decide"
  BY <1>1, <1>9, <1>10 DEF Owned
<1>14. PICK Y : Y = (Of(s.schedule, g) \ Gone) \cup None
  OBVIOUS
<1>15. \A y \in Y : y.kind # "agent.rest"
  BY <1>1, <1>10, <1>14 DEF Steps
<1>16. Mindful(b, Y, News(Y, "hunger"), Bare(s, g))
  BY <1>7, <1>15, MindfulAwake
<1>17. OthersWakeful(s, g)
  BY AllAreOthers
<1>18. AllWakeful(WithDecision(u, e))
  BY <1>1, <1>3, <1>7, <1>11, <1>13, <1>14, <1>16, <1>17, MovedWakes
<1>19. QED
  BY <1>12, <1>18

LEMMA WakingWakes ==
  ASSUME NEW s, NEW F, Good(s, F), AllOrderly(s), AllWakeful(s), NEW e, Decodable(e),
         e.type = "agent.rested", s.time = e.at,
         NEW x \in s.schedule, x.kind = "rest.complete", x.agent = e.agent, e.caused = {Id(x)}
  PROVE  AllWakeful(AgentRested(s, e))
<1>1. PICK g \in Agents : g = e.agent
  BY DecodedIs
<1>2. s \in States
  BY DEF Good
<1>3. PICK a \in Stored : a = s.agents[g]
  BY <1>2 DEF States
<1>4. PICK at \in Nat : at = e.at
  BY DecodedIs
<1>5. PICK b : b = Risen(a, at)
  OBVIOUS
<1>6. b \in Stored /\ b.status # "resting"
  <2>1. b \in Stored
    BY <1>5, RisenIsStored
  <2>2. PICK baseline : baseline = [a.baseline EXCEPT !.fatigue = at]
    OBVIOUS
  <2>3. b = RisenWith(a, baseline)
    BY <1>5, <2>2 DEF Risen
  <2>4. b.status = "idle"
    BY <2>3 DEF RisenWith, Stored
  <2>5. QED
    BY <2>1, <2>4
<1>7. PICK Gone : Gone = {y \in s.schedule : Id(y) \in e.caused}
  OBVIOUS
<1>8. Gone = {x}
  BY <1>1, <1>7, OnlyOne DEF NamedByEvent
<1>9. PICK None : None = {}
  OBVIOUS
<1>10. PICK u : u = Moved(s, g, b, Gone, None)
  OBVIOUS
<1>11. AgentRested(s, e) = WithDecision(u, e)
  BY <1>1, <1>2, <1>3, <1>4, <1>5, <1>7, <1>9, <1>10, AgentRestedIsMove
<1>12. /\ Owned(Gone, g) /\ Owned(None, g) /\ None \in SUBSET Planned
       /\ \A y \in None : y.kind # "agent.decide"
  BY <1>1, <1>8, <1>9 DEF Owned
<1>13. PICK X, Y : X = Of(s.schedule, g) /\ Y = (X \ Gone) \cup None
  OBVIOUS
<1>14. \A y \in Y : y.kind # "agent.rest"
  <2>1. x \in X /\ Orderly(a, X, s.time)
    BY <1>1, <1>3, <1>13 DEF Of, AllOrderly
  <2>2. \A y \in X : y.kind \notin Steps
    BY <2>1 DEF Orderly
  <2>3. QED
    BY <1>9, <1>13, <2>2 DEF Steps
<1>15. Mindful(b, Y, News(Y, "hunger"), Bare(s, g))
  BY <1>6, <1>14, MindfulAwake
<1>16. OthersWakeful(s, g)
  BY AllAreOthers
<1>17. AllWakeful(WithDecision(u, e))
  BY <1>1, <1>2, <1>6, <1>10, <1>12, <1>13, <1>15, <1>16, MovedWakes
<1>18. QED
  BY <1>11, <1>17

LEMMA MealWakes ==
  ASSUME NEW s, NEW F, Good(s, F), AllOrderly(s), AllWakeful(s), NEW e, Decodable(e),
         e.type = "agent.ate", s.time = e.at, e.payload.item \in FoodOf(s, e.agent),
         NEW x \in Of(s.schedule, e.agent), x.kind = "agent.eat", x.item = e.payload.item
  PROVE  AllWakeful(AgentAte(s, e))
<1>1. PICK g \in Agents : g = e.agent
  BY DecodedIs
<1>2. PICK i \in FoodOf(s, g) : i = e.payload.item
  BY <1>1
<1>3. s \in States
  BY DEF Good
<1>4. PICK a \in Stored : a = s.agents[g]
  BY <1>3 DEF States
<1>5. PICK at \in Nat : at = e.at
  BY DecodedIs
<1>6. PICK b : b = Fed(a, at)
  OBVIOUS
<1>7. b \in Stored /\ b.status = a.status
  BY <1>6, FedIsStored
<1>8. PICK Gone : Gone = {y \in Of(s.schedule, g) : y.kind = "agent.eat" /\ y.item = i}
  OBVIOUS
<1>9. PICK None : None = {}
  OBVIOUS
<1>10. PICK m : m = Moved(s, g, b, Gone, None)
  OBVIOUS
<1>11. /\ m \in States /\ m.time = s.time /\ m.agents = [s.agents EXCEPT ![g] = b]
       /\ m.schedule = (s.schedule \ Gone) \cup None
  BY <1>3, <1>7, <1>9, <1>10, MovedIsState
<1>12. PICK f : f = Eaten(s.items, i)
  OBVIOUS
<1>13. f \in ItemMaps
  BY <1>3, <1>12, EatenIsMap DEF States
<1>14. PICK u : u = Keeping(m, f)
  OBVIOUS
<1>15. u \in States /\ Becomes(s, g, b, Gone, None, u) /\ u.items = f
  BY <1>11, <1>13, <1>14 DEF Keeping, States, Becomes
<1>16. AgentAte(s, e) = WithDecision(u, e)
  BY <1>1, <1>2, <1>3, <1>4, <1>5, <1>6, <1>8, <1>9, <1>10, <1>12, <1>14, AgentAteIsMove
<1>17. /\ Owned(Gone, g) /\ Owned(None, g)
       /\ \A y \in None : y.kind # "agent.decide"
  BY <1>8, <1>9 DEF Owned, Of
<1>18. OthersKeep(s, g, u)
  <2>1. \A ag : ag # g => FoodOf(u, ag) = FoodOf(s, ag)
    BY <1>3, <1>12, <1>15, LessFood
  <2>2. QED
    BY <2>1 DEF OthersKeep
<1>19. PICK X, Y : X = Of(s.schedule, g) /\ Y = (X \ Gone) \cup None
  OBVIOUS
<1>20. /\ \A y \in X : (y.kind \in Steps => y = x) /\ y.kind # "rest.complete"
       /\ Fine(a, X, F)
  <2>1. x \in X /\ Orderly(a, X, s.time) /\ Fine(a, X, F)
    BY <1>1, <1>4, <1>19 DEF Good, AllOrderly
  <2>2. QED
    BY <2>1 DEF Orderly, Steps
<1>21. b.status # "resting"
  BY <1>7, <1>20 DEF Fine
<1>22. \A y \in Y : y.kind # "agent.rest"
  BY <1>9, <1>19, <1>20 DEF Steps
<1>23. Mindful(b, Y, Awaited(u, g, "hunger"), Bare(u, g))
  BY <1>21, <1>22, MindfulAwake
<1>24. OthersWakeful(s, g)
  BY AllAreOthers
<1>25. AllWakeful(WithDecision(u, e))
  BY <1>1, <1>3, <1>15, <1>17, <1>18, <1>19, <1>23, <1>24, MoveAndDecisionWake
<1>26. QED
  BY <1>16, <1>25

(* The news that there will be none of hunger any more: it is critical.    *)
Alarming(e) ==
  e.type = "need.threshold.crossed" /\ e.payload.need = "hunger" /\ e.payload.next = {}

(* Who has food and hears it is up.                                        *)
Roused(s, e) ==
  Alarming(e) =>
    \/ Bare(s, e.agent)
    \/ /\ s.agents[e.agent].status # "resting"
       /\ \A x \in Of(s.schedule, e.agent) : x.kind # "agent.rest"

LEMMA CrossingWakes ==
  ASSUME NEW s \in States, AllWakeful(s), NEW e, Decodable(e), s.time = e.at,
         e.type = "need.threshold.crossed"
  PROVE  /\ OthersWakeful(NeedThresholdCrossed(s, e), e.agent)
         /\ Roused(s, e) => AllWakeful(NeedThresholdCrossed(s, e))
<1>1. PICK g \in Agents : g = e.agent
  BY DecodedIs
<1>2. PICK need \in Needs : need = e.payload.need
  BY DecodedIs
<1>3. PICK level \in NeedLevels : level = e.payload.level
  BY DecodedIs
<1>4. PICK dues \in SUBSET Nat : dues = e.payload.next
  BY DecodedIs
<1>5. PICK a \in Stored : a = s.agents[g]
  BY DEF States
<1>6. PICK Gone : Gone = {x \in Of(s.schedule, g) : x.kind = "need.threshold" /\ x.need = need}
  OBVIOUS
<1>7. PICK New : New = {Crossing(g, need, due, Worse(level)) : due \in dues}
  OBVIOUS
<1>8. New \in SUBSET Planned
  BY <1>7, NewCrossing DEF Worse
<1>9. \A x \in New : x.agent = g /\ x.kind = "need.threshold" /\ x.need = need
  BY <1>7 DEF Crossing, Action
<1>10. PICK u : u = Moved(s, g, a, Gone, New)
  OBVIOUS
<1>11. NeedThresholdCrossed(s, e) = WithDecision(u, e)
  BY <1>1, <1>2, <1>3, <1>4, <1>5, <1>6, <1>7, <1>10, NeedThresholdCrossedIsMove
<1>12. Owned(Gone, g) /\ Owned(New, g) /\ \A x \in New : x.kind # "agent.decide"
  BY <1>6, <1>9 DEF Owned, Of
<1>13. PICK X, Y : X = Of(s.schedule, g) /\ Y = (X \ Gone) \cup New
  OBVIOUS
<1>14. OthersWakeful(s, g)
  BY AllAreOthers
<1>15. /\ OthersWakeful(WithDecision(u, e), g)
       /\ Mindful(a, Y, News(Y, "hunger"), Bare(s, g)) => AllWakeful(WithDecision(u, e))
  BY <1>1, <1>5, <1>8, <1>10, <1>12, <1>13, <1>14, MovedWakes
<1>16. ASSUME Roused(s, e) PROVE Mindful(a, Y, News(Y, "hunger"), Bare(s, g))
  <2>1. Mindful(a, X, News(X, "hunger"), Bare(s, g))
    BY <1>5, <1>13 DEF AllWakeful, Wakeful, Awaited, News
  <2>2. \A x \in Y : x.kind = "agent.rest" => x \in X
    BY <1>9, <1>13
  <2>3. CASE need # "hunger"
    <3>1. News(Y, "hunger") = News(X, "hunger")
      BY <1>6, <1>9, <1>13, <2>3 DEF News
    <3>2. QED
      BY <2>1, <2>2, <3>1 DEF Mindful
  <2>4. CASE dues # {}
    <3>1. PICK x : x \in New
      BY <1>7, <2>4
    <3>2. CASE need = "hunger"
      <4>1. x \in News(Y, "hunger")
        BY <1>9, <1>13, <3>1, <3>2 DEF News
      <4>2. QED
        BY <2>1, <2>2, <4>1 DEF Mindful
    <3>3. QED
      BY <2>3, <3>2
  <2>5. CASE need = "hunger" /\ dues = {}
    <3>1. Alarming(e)
      BY <1>2, <1>4, <2>5 DEF Alarming
    <3>2. \/ Bare(s, g)
          \/ a.status # "resting" /\ \A x \in X : x.kind # "agent.rest"
      BY <1>1, <1>5, <1>13, <1>16, <3>1 DEF Roused
    <3>3. QED
      BY <2>1, <2>2, <3>2 DEF Mindful
  <2>6. QED
    BY <2>3, <2>4, <2>5
<1>17. QED
  BY <1>1, <1>11, <1>15, <1>16

(* Who chooses to rest can afford it; who chooses nothing has nothing to   *)
(* answer.                                                                 *)
Sensible(s, e) ==
  LET a == s.agents[e.agent]
      hunger == Awaited(s, e.agent, "hunger")
  IN e.type = "goal.chosen" =>
       /\ e.payload.goal = "rest" =>
            \/ Bare(s, e.agent)
            \/ hunger # {} /\ Level("hunger", a.baseline["hunger"], e.at) # "critical"
       /\ e.payload.goal = "idle" /\ a.status = "idle" =>
            Unfelt(Awaited(s, e.agent, "fatigue")) /\ (Unfelt(hunger) \/ Bare(s, e.agent))

LEMMA ChoiceWakes ==
  ASSUME NEW s \in States, AllWakeful(s), NEW e, Decodable(e),
         e.type = "goal.chosen", s.time = e.at, s.agents[e.agent].goal = "idle", Sensible(s, e),
         e.payload.goal = "eat" => FoodOf(s, e.agent) # {}
  PROVE  AllWakeful(GoalChosen(s, e))
<1>1. PICK g \in Agents : g = e.agent
  BY DecodedIs
<1>2. PICK goal \in GoalNames : goal = e.payload.goal
  BY DecodedIs
<1>3. s.sequence \in Nat
  BY DEF States
<1>4. PICK a \in Stored : a = s.agents[g]
  BY DEF States
<1>5. PICK plan \in Nat : plan = IF goal = "idle" THEN 0 ELSE s.sequence
  BY <1>3
<1>6. PICK b : b = Choosing(a, goal, plan)
  OBVIOUS
<1>7. b \in Stored
  BY <1>2, <1>4, <1>5, <1>6, ChoosingIsStored
<1>8. b.baseline = a.baseline /\ b.goal = goal /\ b.status = a.status
  BY <1>6 DEF Choosing, Stored
<1>9. e.at \in Nat
  BY DecodedIs
<1>10. PICK New : New = StepFor(s, e)
  OBVIOUS
<1>11. New \in SUBSET Planned
  BY <1>1, <1>2, <1>3, <1>9, <1>10, StepIsNew
<1>12. PICK Gone : Gone = {y \in Of(s.schedule, g) : y.kind \in {"agent.decide"}}
  OBVIOUS
<1>13. PICK t : t = Moved(s, g, b, Gone, New)
  OBVIOUS
<1>14. GoalChosen(s, e) = t
  BY <1>1, <1>2, <1>3, <1>4, <1>5, <1>6, <1>10, <1>12, <1>13, GoalChosenIsMove
<1>15. \A x \in New : /\ x.due = e.at /\ x.agent = e.agent /\ x.kind \in Steps
                      /\ x.kind = "agent.rest" => goal = "rest"
  <2>1. \/ goal = "idle" /\ New = {}
        \/ \E x : /\ New = {x} /\ x.due = e.at /\ x.agent = e.agent
                  /\ x.kind \in Steps /\ goal # "idle"
                  /\ x.kind = "agent.eat" => goal = "eat"
                  /\ x.kind = "agent.rest" => goal = "rest"
    BY <1>2, <1>10, StepIsFirst
  <2>2. QED
    BY <2>1
<1>16. /\ Owned(Gone, g) /\ Owned(New, g) /\ \A x \in New : x.kind # "agent.decide"
       /\ NoNews(Gone) /\ NoNews(New)
  BY <1>1, <1>12, <1>15 DEF Owned, Of, NoNews, Steps
<1>17. PICK X, Y : X = Of(s.schedule, g) /\ Y = (X \ Gone) \cup New
  OBVIOUS
<1>18. /\ News(Y, "hunger") = News(X, "hunger") /\ News(Y, "fatigue") = News(X, "fatigue")
       /\ News(X, "hunger") = Awaited(s, g, "hunger")
       /\ News(X, "fatigue") = Awaited(s, g, "fatigue")
  <2>1. \A n : News(Y, n) = News(X, n)
    BY <1>16, <1>17, NewsStays
  <2>2. \A n : News(X, n) = Awaited(s, g, n)
    BY <1>17 DEF News, Awaited
  <2>3. QED
    BY <2>1, <2>2
<1>19. a.goal = "idle" /\ Mindful(a, X, News(X, "hunger"), Bare(s, g))
  BY <1>1, <1>4, <1>17 DEF AllWakeful, Wakeful, Awaited, News
<1>20. a.status # "resting" /\ \A x \in X : x.kind # "agent.rest"
  BY <1>19 DEF Mindful
<1>21. goal = "rest" =>
         \/ Bare(s, g)
         \/ News(Y, "hunger") # {} /\ Level("hunger", b.baseline["hunger"], e.at) # "critical"
  BY <1>1, <1>2, <1>4, <1>8, <1>18 DEF Sensible
<1>22. Mindful(b, Y, News(Y, "hunger"), Bare(s, g))
  <2>1. ASSUME NEW x \in Y, x.kind = "agent.rest" PROVE x.due = e.at /\ goal = "rest"
    BY <1>15, <1>17, <1>20, <2>1
  <2>2. QED
    BY <1>8, <1>20, <1>21, <2>1 DEF Mindful
<1>23. Content(b, Y, News(Y, "hunger"), News(Y, "fatigue"), Bare(s, g))
  <2>1. Free(b) =>
          Unfelt(Awaited(s, g, "fatigue")) /\ (Unfelt(Awaited(s, g, "hunger")) \/ Bare(s, g))
    BY <1>1, <1>2, <1>4, <1>8 DEF Sensible, Free
  <2>2. QED
    BY <1>18, <2>1 DEF Content
<1>24. OthersWakeful(s, g)
  BY AllAreOthers
<1>25. AllWakeful(t)
  BY <1>1, <1>7, <1>11, <1>13, <1>16, <1>17, <1>22, <1>23, <1>24, MovedWakes
<1>26. QED
  BY <1>14, <1>25

-----------------------------------------------------------------------------
(* evolve as a whole. Nobody gets less wakeful by waiting.                 *)
LEMMA LaterWakeful ==
  ASSUME NEW s0 \in States, NEW s, s.agents = s0.agents, s.schedule = s0.schedule,
         s.items = s0.items, s.time \in Nat, s0.time <= s.time
  PROVE  /\ \A ag \in Agents : Wakeful(s0, ag) => Wakeful(s, ag)
         /\ \A g \in Agents : OthersWakeful(s0, g) => OthersWakeful(s, g)
<1>1. \A ag : Of(s.schedule, ag) = Of(s0.schedule, ag) /\ FoodOf(s, ag) = FoodOf(s0, ag)
  BY DEF FoodOf
<1>2. \A ag, n : Awaited(s, ag, n) = Awaited(s0, ag, n)
  BY <1>1 DEF Awaited
<1>3. \A ag \in Agents : Alert(Of(s0.schedule, ag), s0.time) => Alert(Of(s.schedule, ag), s.time)
  <2> SUFFICES ASSUME NEW ag \in Agents, Alert(Of(s0.schedule, ag), s0.time),
                      NEW x \in Of(s0.schedule, ag), x.kind = "agent.decide"
               PROVE  x.due <= s.time
    BY <1>1 DEF Alert
  <2>1. x.due <= s0.time
    BY DEF Alert
  <2>2. x \in Planned /\ s0.time \in Nat
    BY DEF Of, States
  <2>3. x.due \in Nat
    BY <2>2 DEF Planned
  <2>4. QED
    BY <2>1, <2>2, <2>3
<1>4. ASSUME NEW ag \in Agents, Wakeful(s0, ag) PROVE Wakeful(s, ag)
  BY <1>1, <1>2, <1>3, <1>4 DEF Wakeful, Bare
<1>5. QED
  BY <1>3, <1>4 DEF OthersWakeful

(* What an event has to see to.                                            *)
Wise(s, e) == Roused(s, e) /\ Sensible(s, e)

LEMMA EvolveWakes ==
  ASSUME NEW s0, NEW F, Good(s0, F), AllOrderly(s0), AllWakeful(s0),
         NEW e, Legal(s0, e), Apt(s0, e), s0.time <= e.at, NEW t, t = Evolve(s0, e)
  PROVE  /\ e.type = "need.threshold.crossed" => OthersWakeful(t, e.agent)
         /\ Wise(s0, e) => AllWakeful(t)
<1>1. Decodable(e) /\ e.at \in Nat /\ e.agent \in Agents
  <2>1. Decodable(e)
    BY DEF Legal
  <2>2. QED
    BY <2>1, DecodedIs
<1>2. PICK s : s = Stamp(s0, e.at)
  OBVIOUS
<1>3. /\ Good(s, F) /\ s.time = e.at
      /\ s.agents = s0.agents /\ s.schedule = s0.schedule /\ s.items = s0.items
  BY <1>1, <1>2, StampIsGood
<1>4. s \in States /\ s0 \in States
  BY <1>3 DEF Good
<1>5. AllOrderly(s)
  <2> SUFFICES ASSUME NEW ag \in Agents PROVE Orderly(s.agents[ag], Of(s.schedule, ag), s.time)
    BY DEF AllOrderly
  <2>1. PICK a \in Stored : a = s0.agents[ag]
    BY <1>3, <1>4 DEF States
  <2>2. PICK X \in SUBSET Planned : X = Of(s0.schedule, ag)
    BY <1>3, <1>4 DEF States, Of
  <2>3. PICK at \in Nat : at = s0.time
    BY DEF Good, States
  <2>4. Orderly(a, X, at)
    BY <2>1, <2>2, <2>3 DEF AllOrderly
  <2>5. Orderly(a, X, e.at)
    BY <1>1, <2>3, <2>4, OrderlyLater
  <2>6. QED
    BY <1>3, <2>1, <2>2, <2>5
<1>6. AllWakeful(s)
  <2>1. \A ag \in Agents : Wakeful(s0, ag) => Wakeful(s, ag)
    BY <1>1, <1>3, <1>4, LaterWakeful
  <2>2. QED
    BY <2>1 DEF AllWakeful
<1>7. /\ \A ag : FoodOf(s, ag) = FoodOf(s0, ag)
      /\ \A ag : Of(s.schedule, ag) = Of(s0.schedule, ag)
      /\ \A ag, n : Awaited(s, ag, n) = Awaited(s0, ag, n)
  BY <1>3 DEF FoodOf, Awaited
<1>8. Apt(s, e)
  BY <1>3, <1>7, Zenon DEF Apt
<1>9. Wise(s0, e) => Roused(s, e) /\ Sensible(s, e)
  BY <1>3, <1>7, Zenon DEF Wise, Roused, Sensible, Bare
<1>10. CASE e.type = "journey.started"
  <2>1. AllWakeful(JourneyStarted(s, e))
    BY <1>1, <1>3, <1>4, <1>6, <1>10, StartWakes
  <2>2. QED
    BY <1>2, <1>10, <2>1, EvolveIs
<1>11. CASE e.type = "journey.completed"
  <2>1. PICK x \in s.schedule :
          x.kind = "journey.complete" /\ x.agent = e.agent /\ e.caused = {Id(x)}
    BY <1>3, <1>11 DEF Legal
  <2>2. \A y \in Of(s.schedule, e.agent) : y.kind \notin Steps
    BY <1>8, <1>11 DEF Apt
  <2>3. AllWakeful(JourneyCompleted(s, e))
    BY <1>1, <1>3, <1>6, <1>11, <2>1, <2>2, ArrivalWakes
  <2>4. QED
    BY <1>2, <1>11, <2>3, EvolveIs
<1>12. CASE e.type = "need.threshold.crossed"
  <2>1. /\ OthersWakeful(NeedThresholdCrossed(s, e), e.agent)
        /\ Roused(s, e) => AllWakeful(NeedThresholdCrossed(s, e))
    BY <1>1, <1>3, <1>4, <1>6, <1>12, CrossingWakes
  <2>2. QED
    BY <1>2, <1>9, <1>12, <2>1, EvolveIs
<1>13. CASE e.type = "agent.ate"
  <2>1. PICK x \in Of(s.schedule, e.agent) : x.kind = "agent.eat" /\ x.item = e.payload.item
    BY <1>8, <1>13 DEF Apt
  <2>2. e.payload.item \in FoodOf(s, e.agent)
    BY <1>7, <1>13 DEF Legal
  <2>3. AllWakeful(AgentAte(s, e))
    BY <1>1, <1>3, <1>5, <1>6, <1>13, <2>1, <2>2, MealWakes
  <2>4. QED
    BY <1>2, <1>13, <2>3, EvolveIs
<1>14. CASE e.type = "rest.started"
  <2>1. PICK x \in Of(s.schedule, e.agent) : x.kind = "agent.rest"
    BY <1>8, <1>14 DEF Apt
  <2>2. AllWakeful(RestStarted(s, e))
    BY <1>1, <1>3, <1>4, <1>6, <1>14, <2>1, RestWakes
  <2>3. QED
    BY <1>2, <1>14, <2>2, EvolveIs
<1>15. CASE e.type = "agent.rested"
  <2>1. PICK x \in s.schedule :
          x.kind = "rest.complete" /\ x.agent = e.agent /\ e.caused = {Id(x)}
    BY <1>3, <1>15 DEF Legal
  <2>2. AllWakeful(AgentRested(s, e))
    BY <1>1, <1>3, <1>5, <1>6, <1>15, <2>1, WakingWakes
  <2>3. QED
    BY <1>2, <1>15, <2>2, EvolveIs
<1>16. CASE e.type = "goal.chosen"
  <2>1. e.payload.goal = "eat" => FoodOf(s, e.agent) # {}
    BY <1>7, <1>16 DEF Legal
  <2>2. s.agents[e.agent].goal = "idle"
    BY <1>8, <1>16 DEF Apt
  <2>3. Wise(s0, e) => AllWakeful(GoalChosen(s, e))
    BY <1>1, <1>3, <1>4, <1>6, <1>9, <1>16, <2>1, <2>2, ChoiceWakes
  <2>4. QED
    BY <1>2, <1>16, <2>3, EvolveIs
<1>17. CASE e.type = "plan.invalidated"
  <2>1. OthersWakeful(s, e.agent)
    BY <1>1, <1>6, AllAreOthers
  <2>2. AllWakeful(PlanInvalidated(s, e))
    BY <1>1, <1>3, <1>4, <1>17, <2>1, FailureWakes
  <2>3. QED
    BY <1>2, <1>17, <2>2, EvolveIs
<1>18. CASE e.type = "risk.observed"
  <2>1. AllWakeful(RiskObserved(s, e))
    BY <1>1, <1>3, <1>4, <1>6, <1>18, RiskWakes
  <2>2. QED
    BY <1>2, <1>18, <2>1, EvolveIs
<1>19. QED
  BY <1>10, <1>11, <1>12, <1>13, <1>14, <1>15, <1>16, <1>17, <1>18 DEF Legal

(* Whoever is alarmed and gets up is as wakeful as the others.             *)
LEMMA GivingUpWakes ==
  ASSUME NEW s0, NEW F, Good(s0, F), NEW e, Legal(s0, e), e.type = "plan.invalidated",
         OthersWakeful(s0, e.agent), s0.time <= e.at, NEW t, t = Evolve(s0, e)
  PROVE  AllWakeful(t)
<1>1. Decodable(e) /\ e.at \in Nat /\ e.agent \in Agents
  <2>1. Decodable(e)
    BY DEF Legal
  <2>2. QED
    BY <2>1, DecodedIs
<1>2. PICK s : s = Stamp(s0, e.at)
  OBVIOUS
<1>3. /\ Good(s, F) /\ s.time = e.at
      /\ s.agents = s0.agents /\ s.schedule = s0.schedule /\ s.items = s0.items
  BY <1>1, <1>2, StampIsGood
<1>4. s \in States /\ s0 \in States
  BY <1>3 DEF Good
<1>5. OthersWakeful(s, e.agent)
  BY <1>1, <1>3, <1>4, LaterWakeful
<1>6. AllWakeful(PlanInvalidated(s, e))
  BY <1>1, <1>3, <1>4, <1>5, FailureWakes
<1>7. QED
  BY <1>2, <1>6, EvolveIs

Wisely(s, events) ==
  \/ \E e : events = <<e>> /\ Wise(s, e)
  \/ \E e, f : events = <<e, f>> /\ Wise(s, e) /\ ~Alarming(f)
  \/ \E e, f : /\ events = <<e, f>> /\ e.type = "need.threshold.crossed"
               /\ f.type = "plan.invalidated" /\ f.agent = e.agent

LEMMA AfterWakes ==
  ASSUME NEW s, NEW F, Good(s, F), Old(F, s.sequence), AllOrderly(s), AllWakeful(s),
         NEW c, NEW events, Proper(s, c, events), Suits(s, events), Wisely(s, events),
         c.at \in Nat, s.time <= c.at, NEW t, t = After(s, events)
  PROVE  AllWakeful(t)
<1>1. PICK n \in Nat : n = s.sequence
  BY DEF Good, States
<1>2. Old(F, n) /\ n <= s.sequence
  BY <1>1
<1>3. CASE \E e : events = <<e>> /\ Wise(s, e)
  <2>1. PICK e : events = <<e>> /\ Wise(s, e)
    BY <1>3
  <2>2. Legal(s, e) /\ e.at = c.at
    BY <2>1 DEF Proper
  <2>3. Apt(s, e)
    BY <2>1 DEF Suits
  <2>4. t = Evolve(s, e)
    BY <2>1, AfterOne
  <2>5. s.time <= e.at
    BY <2>2
  <2>6. QED
    BY <2>1, <2>2, <2>3, <2>4, <2>5, EvolveWakes
<1>4. ASSUME NEW e, NEW f, events = <<e, f>>
      PROVE  /\ Legal(s, e) /\ Apt(s, e) /\ s.time <= e.at
             /\ \A u : u = Evolve(s, e) =>
                  /\ t = Evolve(u, f) /\ Good(u, F) /\ AllOrderly(u)
                  /\ Harmless(f) /\ Legal(u, f) /\ Apt(u, f) /\ u.time <= f.at
  <2>1. Legal(s, e) /\ e.at = c.at /\ Harmless(f) /\ f.at = c.at
    BY <1>4 DEF Proper
  <2>2. Apt(s, e) /\ Upcoming(f)
    BY <1>4 DEF Suits
  <2>3. PICK u : u = Evolve(s, e)
    OBVIOUS
  <2>4. t = Evolve(u, f)
    BY <1>4, <2>3, AfterTwo
  <2>5. s.time <= e.at
    BY <2>1
  <2>6. Follows(s, e, u)
    BY <2>1, <2>2, <2>3, <2>5, EvolveFollows
  <2>7. Good(u, F) /\ u.time = e.at
    BY <1>2, <2>1, <2>3, EvolveIsGood
  <2>8. Legal(u, f) /\ Apt(u, f)
    BY <2>1, <2>2, HarmlessIsLegal, HarmlessIsApt
  <2>9. u.time <= f.at /\ AllOrderly(u)
    BY <2>1, <2>6, <2>7 DEF Follows
  <2>10. QED
    BY <2>1, <2>2, <2>3, <2>4, <2>5, <2>7, <2>8, <2>9
<1>5. CASE \E e, f : events = <<e, f>> /\ Wise(s, e) /\ ~Alarming(f)
  <2>1. PICK e, f : events = <<e, f>> /\ Wise(s, e) /\ ~Alarming(f)
    BY <1>5
  <2>2. PICK u : u = Evolve(s, e)
    OBVIOUS
  <2>3. AllWakeful(u)
    BY <1>4, <2>1, <2>2, EvolveWakes
  <2>4. /\ t = Evolve(u, f) /\ Good(u, F) /\ AllOrderly(u)
        /\ Harmless(f) /\ Legal(u, f) /\ Apt(u, f) /\ u.time <= f.at
    BY <1>4, <2>1, <2>2
  <2>5. Wise(u, f)
    BY <2>1, <2>4 DEF Wise, Roused, Sensible, Harmless
  <2>6. QED
    BY <2>3, <2>4, <2>5, EvolveWakes
<1>6. CASE \E e, f : /\ events = <<e, f>> /\ e.type = "need.threshold.crossed"
                     /\ f.type = "plan.invalidated" /\ f.agent = e.agent
  <2>1. PICK e, f : /\ events = <<e, f>> /\ e.type = "need.threshold.crossed"
                    /\ f.type = "plan.invalidated" /\ f.agent = e.agent
    BY <1>6
  <2>2. PICK u : u = Evolve(s, e)
    OBVIOUS
  <2>3. OthersWakeful(u, f.agent)
    BY <1>4, <2>1, <2>2, EvolveWakes
  <2>4. t = Evolve(u, f) /\ Good(u, F) /\ Legal(u, f) /\ u.time <= f.at
    BY <1>4, <2>1, <2>2
  <2>5. QED
    BY <2>1, <2>3, <2>4, GivingUpWakes
<1>7. QED
  BY <1>3, <1>5, <1>6 DEF Wisely

-----------------------------------------------------------------------------
(* What the crossings that are awaited tell of the level of a need.        *)
ExactNews(n, B, C) ==
  \A x \in C : /\ x.due \in Nat /\ x.level \in {"warning", "critical"}
               /\ x.due \in NextCrossing(n, B, Better(x.level))

(* What is awaited has not been reached before it is due.                  *)
LEMMA NotReachedYet ==
  ASSUME NEW n \in Needs, NEW B \in Nat, NEW C, ExactNews(n, B, C), NEW x \in C,
         NEW at \in Nat, at < x.due
  PROVE  /\ ~Reached(n, B, at, x.level) /\ ~Reached(n, B, at, "critical")
         /\ x.level = "warning" => Level(n, B, at) = "normal"
         /\ Level(n, B, at) # "critical"
<1>1. PICK L \in {"normal", "warning"} : L = Better(x.level)
  BY DEF Better
<1>2. Worse(L) = x.level /\ x.due \in NextCrossing(n, B, L) /\ x.due \in Nat
  BY <1>1 DEF ExactNews, Better, Worse
<1>3. ~Reached(n, B, at, Worse(L))
  <2>1. Reached(n, B, at, Worse(L)) => x.due <= at
    BY <1>2, NeedsHaveRates, CrossingIsTheFirstMinute
  <2>2. QED
    BY <1>2, <2>1
<1>4. ~Reached(n, B, at, "critical")
  BY <1>2, <1>3, CriticalIsWarning DEF ExactNews
<1>5. QED
  BY <1>2, <1>3, <1>4 DEF Level

LEMMA FeltTells ==
  ASSUME Prompt, NEW n \in Needs, NEW L \in NeedLevels, NEW B \in Nat, NEW at \in Nat,
         NEW C, ExactNews(n, B, C), Feels(n, L, B, C, at)
  PROVE  /\ Level(n, B, at) # "critical" => C # {}
         /\ Level(n, B, at) = "normal" => Unfelt(C)
<1>1. ASSUME Level(n, B, at) # "critical" PROVE L # "critical"
  <2> SUFFICES ASSUME L = "critical" PROVE FALSE
    OBVIOUS
  <2>1. Reached(n, B, at, "critical")
    BY DEF Feels
  <2>2. QED
    BY <1>1, <2>1 DEF Level
<1>2. ASSUME Level(n, B, at) # "critical" PROVE C # {}
  BY <1>1, <1>2 DEF Feels
<1>3. ASSUME Level(n, B, at) = "normal" PROVE Unfelt(C)
  <2>1. ~Reached(n, B, at, "warning") /\ ~Reached(n, B, at, "critical")
    BY <1>3 DEF Level
  <2>2. L = "normal"
    BY <2>1 DEF Feels, NeedLevels
  <2>3. PICK x, due : C = {x} /\ due \in NextCrossing(n, B, "normal") /\ x.due <= due
    BY <2>2 DEF Feels
  <2>4. x.due \in Nat /\ due \in Nat
    BY <2>3, NeedsHaveRates, CrossingIsTheFirstMinute DEF ExactNews
  <2>5. x.level # "critical"
    <3> SUFFICES ASSUME x.level = "critical" PROVE FALSE
      OBVIOUS
    <3>1. x.due \in NextCrossing(n, B, "warning")
      BY <2>3 DEF ExactNews, Better
    <3>2. Reached(n, B, x.due, "critical")
      BY <2>4, <3>1, NeedsHaveRates, CrossingIsTheFirstMinute DEF Worse
    <3>3. Reached(n, B, due, "critical")
      BY <2>3, <2>4, <3>2, ReachedStays
    <3>4. (ReachedAt["critical"] - ReachedAt["warning"]) * Full[n] >= 1000
      <4>1. PICK much \in Int : much = Span(n)
        BY SpanInt
      <4>2. much >= 1000
        BY <4>1, AMinuteIsShort
      <4>3. QED
        BY <4>1, <4>2 DEF Span
    <3>5. Level(n, B, due) = "warning"
      BY <2>3, <3>4, NeedsHaveRates, LevelAtCrossing DEF Worse
    <3>6. QED
      BY <3>3, <3>5 DEF Level
  <2>6. x.level = "warning"
    BY <2>3, <2>5 DEF ExactNews
  <2>7. QED
    BY <2>3, <2>6 DEF Unfelt
<1>4. QED
  BY <1>2, <1>3

(* What is chosen where it is worth while to answer a need that is felt.   *)
LEMMA UrgencyGrows ==
  /\ Urgency["normal"] <= Urgency["warning"] /\ Urgency["warning"] <= Urgency["critical"]
  BY RulesAssumption DEF ValidWeights

LEMMA CaringChoice ==
  ASSUME Caring, NEW s \in States, NEW ag \in Agents, NEW at, s.agents[ag].goal = "idle",
         NEW goal, goal = ChooseGoal(s, ag, at)
  PROVE  /\ goal = "rest" => FoodOf(s, ag) = {}
                             \/ Level("hunger", s.agents[ag].baseline["hunger"], at) # "critical"
         /\ goal = "idle" /\ s.agents[ag].status = "idle" =>
              /\ ~Tired(s.agents[ag], at)
              /\ FoodOf(s, ag) = {} \/ ~Hungry(s.agents[ag], at)
<1>1. PICK a \in Stored : a = s.agents[ag]
  BY DEF States
<1>2. PICK g \in 1 .. 4 :
        /\ goal = Goals[g] /\ Feasible(s, ag, goal)
        /\ \A h \in 1 .. 4 : Feasible(s, ag, Goals[h]) =>
             \/ Score(a, goal, at) > Score(a, Goals[h], at)
             \/ (Score(a, goal, at) = Score(a, Goals[h], at) /\ g <= h)
  BY <1>1, ChosenGoalIsBest
<1>3. Goals[1] = "idle" /\ Goals[2] = "eat" /\ Goals[3] = "rest" /\ Goals[4] = "flee"
  BY DEF Goals
<1>4. Score(a, "idle", at) = 0
  BY <1>1, ScoresAre
<1>5. PICK u, w, k \in Nat : u = Urgency["normal"] /\ w = Urgency["warning"]
                             /\ k = Urgency["critical"]
  BY Weights
<1>6. PICK cost, margin \in Nat : cost = TimeCost(RestMinutes) /\ margin = SwitchMargin
  BY Weights, TimeCostNat
<1>7. u <= w /\ w <= k /\ w - cost > margin
  BY <1>5, <1>6, UrgencyGrows DEF Caring
<1>8. PICK H, T : /\ H = Level("hunger", a.baseline["hunger"], at)
                  /\ T = Level("fatigue", a.baseline["fatigue"], at)
  OBVIOUS
<1>9. H \in NeedLevels /\ T \in NeedLevels
  BY <1>8, LevelIsLevel DEF NeedLevels
<1>10. PICK uh, ut \in Nat : uh = Urgency[H] /\ ut = Urgency[T]
  BY <1>5, <1>9 DEF NeedLevels
<1>11. /\ uh <= k /\ ut <= k /\ (H = "critical" => uh = k)
       /\ (H # "normal" => uh >= w) /\ (T # "normal" => ut >= w)
  BY <1>5, <1>7, <1>9, <1>10 DEF NeedLevels
<1>12. Score(a, "eat", at) = uh - 0 - margin /\ Score(a, "rest", at) = ut - cost - margin
  <2>1. /\ Score(a, "eat", at) = Urgency[H] - 0 - SwitchMargin
        /\ Score(a, "rest", at) = Urgency[T] - TimeCost(RestMinutes) - SwitchMargin
    BY <1>1, <1>8, ScoresAre
  <2>2. QED
    BY <1>6, <1>10, <2>1
<1>13. ASSUME goal = "rest", FoodOf(s, ag) # {} PROVE H # "critical"
  <2> SUFFICES ASSUME H = "critical" PROVE FALSE
    OBVIOUS
  <2>1. Feasible(s, ag, "eat")
    BY <1>2, <1>13 DEF Feasible
  <2>2. g # 1 /\ g # 2
    BY <1>2, <1>3, <1>13, Zenon
  <2>3. Score(a, "rest", at) > Score(a, "eat", at)
    <3>1. ~(g <= 2)
      BY <2>2
    <3>2. QED
      BY <1>2, <1>3, <1>13, <2>1, <3>1
  <2>4. QED
    BY <1>11, <1>12, <2>3
<1>14. ASSUME goal = "idle", a.status = "idle"
       PROVE  T = "normal" /\ (FoodOf(s, ag) = {} \/ H = "normal")
  <2>1. Feasible(s, ag, "rest")
    BY <1>1, <1>14 DEF Feasible
  <2>2. ~(Score(a, "rest", at) > 0)
    BY <1>2, <1>3, <1>4, <1>12, <1>14, <2>1
  <2>3. T = "normal"
    BY <1>7, <1>11, <1>12, <2>2
  <2>4. ASSUME FoodOf(s, ag) # {} PROVE H = "normal"
    <3>1. Feasible(s, ag, "eat")
      BY <1>1, <1>14, <2>4 DEF Feasible
    <3>2. ~(Score(a, "eat", at) > 0)
      BY <1>2, <1>3, <1>4, <1>12, <1>14, <3>1
    <3>3. QED
      BY <1>7, <1>11, <1>12, <3>2
  <2>5. QED
    BY <2>3, <2>4
<1>15. QED
  BY <1>1, <1>8, <1>13, <1>14 DEF Tired, Hungry

-----------------------------------------------------------------------------
(* What decide answers is wise. Most events have nothing to see to.        *)
Plainly(e) == e.type \notin {"need.threshold.crossed", "goal.chosen"}

LEMMA PlainlyIsWise ==
  ASSUME NEW s, NEW e, Plainly(e)
  PROVE  Wise(s, e) /\ ~Alarming(e)
  BY DEF Plainly, Wise, Roused, Sensible, Alarming

LEMMA WiselyOnce ==
  ASSUME NEW s, NEW e, Wise(s, e)
  PROVE  Wisely(s, <<e>>)
  BY Zenon DEF Wisely

LEMMA WiselyFirst ==
  ASSUME NEW s, NEW e, Wise(s, e), NEW more,
         more = <<>> \/ \E f : more = <<f>> /\ ~Alarming(f)
  PROVE  Wisely(s, <<e>> \o more)
<1>1. CASE more = <<>>
  <2>1. <<e>> \o more = <<e>>
    BY <1>1
  <2>2. QED
    BY <2>1, WiselyOnce
<1>2. ASSUME NEW f, more = <<f>>, ~Alarming(f)
      PROVE  Wisely(s, <<e>> \o more)
  <2>1. <<e>> \o more = <<e, f>>
    <3>1. <<e>> \o <<f>> = <<e, f>>
      BY PairIs
    <3>2. QED
      BY <1>2, <3>1
  <2>2. Wisely(s, <<e, f>>)
    BY <1>2, Zenon DEF Wisely
  <2>3. QED
    BY <2>1, <2>2
<1>3. QED
  BY <1>1, <1>2

LEMMA FailureIsWise ==
  ASSUME NEW s, NEW agent, NEW c, NEW precondition, NEW events,
         events = PlanFailure(agent, c, precondition), events # <<>>
  PROVE  Wisely(s, events)
<1>1. PICK e : events = <<e>> /\ e.type = "plan.invalidated"
  BY FailureIs
<1>2. Wise(s, e)
  BY <1>1, PlainlyIsWise DEF Plainly
<1>3. QED
  BY <1>1, <1>2, WiselyOnce

(* Nobody is alarmed to hear that a need is over.                          *)
LEMMA RecoveredIsTame ==
  ASSUME NEW agent, NEW c, NEW n, NEW more, more = Recovered(agent, c, n)
  PROVE  more = <<>> \/ \E f : more = <<f>> /\ ~Alarming(f)
<1>1. PICK from : from = Level(n, agent.baseline[n], c.at)
  OBVIOUS
<1>2. PICK next : next = NextCrossing(n, c.at, "normal")
  OBVIOUS
<1>3. PICK p : p = [need |-> n, from |-> from, level |-> "normal", next |-> next]
  OBVIOUS
<1>4. PICK f : f = Event("need.threshold.crossed", c, p)
  OBVIOUS
<1>5. more \in {<<>>, <<f>>}
  BY <1>1, <1>2, <1>3, <1>4 DEF Recovered, Crossed
<1>6. f.payload.next = next
  BY <1>3, <1>4, EventIs
<1>7. next # {}
  BY <1>2 DEF NextCrossing
<1>8. ~Alarming(f)
  BY <1>6, <1>7 DEF Alarming
<1>9. QED
  BY <1>5, <1>8

LEMMA StartIsWise ==
  ASSUME NEW s, NEW c, NEW r
  PROVE  Wisely(s, <<Started(c, r)>>)
<1>1. PICK e : e = Started(c, r)
  OBVIOUS
<1>2. e.type = "journey.started"
  BY <1>1, EventIs DEF Started
<1>3. Wise(s, e)
  BY <1>2, PlainlyIsWise DEF Plainly
<1>4. QED
  BY <1>1, <1>3, WiselyOnce

LEMMA CompleteIsWise ==
  ASSUME NEW s, NEW c, c.kind = "journey.complete",
         NEW events, events = Decide(s, c), events # <<>>
  PROVE  Wisely(s, events)
<1>1. events = DecideJourneyComplete(s, c)
  BY DecideIs
<1>2. PICK e : e = Event("journey.completed", c, [route |-> c.route])
  OBVIOUS
<1>3. PICK f : f = Event("risk.observed", c, [route |-> c.route, risk |-> RouteRisk[c.route]])
  OBVIOUS
<1>4. PICK more : more = IF c.route \in s.agents[c.agent].known THEN <<>> ELSE <<f>>
  OBVIOUS
<1>5. events = <<e>> \o more
  BY <1>1, <1>2, <1>3, <1>4, Zenon DEF DecideJourneyComplete
<1>6. e.type = "journey.completed" /\ f.type = "risk.observed"
  BY <1>2, <1>3, EventIs
<1>7. Wise(s, e) /\ ~Alarming(f)
  BY <1>6, PlainlyIsWise DEF Plainly
<1>8. more = <<>> \/ more = <<f>>
  BY <1>4
<1>9. QED
  BY <1>5, <1>7, <1>8, WiselyFirst

LEMMA EatIsWise ==
  ASSUME NEW s, NEW c, c.kind = "agent.eat", NEW events, events = Decide(s, c), events # <<>>
  PROVE  Wisely(s, events)
<1>1. PICK agent : agent = s.agents[c.agent]
  OBVIOUS
<1>2. events = DecideAgentEat(s, c)
  BY DecideIs
<1>3. CASE c.item \notin FoodOf(s, c.agent)
  <2>1. events = PlanFailure(agent, c, "item.available_to_actor")
    BY <1>1, <1>2, <1>3, Zenon DEF DecideAgentEat
  <2>2. QED
    BY <2>1, FailureIsWise
<1>4. CASE ~(c.item \notin FoodOf(s, c.agent))
  <2>1. PICK e : e = Event("agent.ate", c, [item |-> c.item])
    OBVIOUS
  <2>2. PICK more : more = Recovered(agent, c, "hunger")
    OBVIOUS
  <2>3. events = <<e>> \o more
    BY <1>1, <1>2, <1>4, <2>1, <2>2, Zenon DEF DecideAgentEat
  <2>4. e.type = "agent.ate"
    BY <2>1, EventIs
  <2>5. Wise(s, e)
    BY <2>4, PlainlyIsWise DEF Plainly
  <2>6. more = <<>> \/ \E f : more = <<f>> /\ ~Alarming(f)
    BY <2>2, RecoveredIsTame
  <2>7. QED
    BY <2>3, <2>5, <2>6, WiselyFirst
<1>5. QED
  BY <1>3, <1>4

LEMMA RestIsWise ==
  ASSUME NEW s, NEW c, c.kind = "agent.rest", NEW events, events = Decide(s, c), events # <<>>
  PROVE  Wisely(s, events)
<1>1. PICK agent : agent = s.agents[c.agent]
  OBVIOUS
<1>2. events = DecideAgentRest(s, c)
  BY DecideIs
<1>3. CASE agent.status # "idle"
  <2>1. events = PlanFailure(agent, c, "agent.is_idle")
    BY <1>1, <1>2, <1>3, Zenon DEF DecideAgentRest
  <2>2. QED
    BY <2>1, FailureIsWise
<1>4. CASE agent.status = "idle"
  <2>1. PICK e : e = Event("rest.started", c, [ending |-> c.at + RestMinutes])
    OBVIOUS
  <2>2. events = <<e>>
    BY <1>1, <1>2, <1>4, <2>1, Zenon DEF DecideAgentRest
  <2>3. e.type = "rest.started"
    BY <2>1, EventIs
  <2>4. Wise(s, e)
    BY <2>3, PlainlyIsWise DEF Plainly
  <2>5. QED
    BY <2>2, <2>4, WiselyOnce
<1>5. QED
  BY <1>3, <1>4

LEMMA WakingIsWise ==
  ASSUME NEW s, NEW c, c.kind = "rest.complete",
         NEW events, events = Decide(s, c), events # <<>>
  PROVE  Wisely(s, events)
<1>1. PICK agent : agent = s.agents[c.agent]
  OBVIOUS
<1>2. events = DecideRestComplete(s, c)
  BY DecideIs
<1>3. PICK e : e = Event("agent.rested", c, <<>>)
  OBVIOUS
<1>4. PICK more : more = Recovered(agent, c, "fatigue")
  OBVIOUS
<1>5. events = <<e>> \o more
  BY <1>1, <1>2, <1>3, <1>4, Zenon DEF DecideRestComplete
<1>6. e.type = "agent.rested"
  BY <1>3, EventIs
<1>7. Wise(s, e)
  BY <1>6, PlainlyIsWise DEF Plainly
<1>8. more = <<>> \/ \E f : more = <<f>> /\ ~Alarming(f)
  BY <1>4, RecoveredIsTame
<1>9. QED
  BY <1>5, <1>7, <1>8, WiselyFirst

LEMMA TravelIsWise ==
  ASSUME NEW s, NEW c, c.kind = "agent.travel",
         NEW events, events = Decide(s, c), events # <<>>
  PROVE  Wisely(s, events)
<1>1. PICK agent : agent = s.agents[c.agent]
  OBVIOUS
<1>2. events = DecideAgentTravel(s, c)
  BY DecideIs
<1>3. CASE agent.status # "idle"
  <2>1. events = PlanFailure(agent, c, "agent.is_idle")
    BY <1>1, <1>2, <1>3, Zenon DEF DecideAgentTravel
  <2>2. QED
    BY <2>1, FailureIsWise
<1>4. CASE agent.status = "idle" /\ Options(agent) = {}
  <2>1. events = PlanFailure(agent, c, "route.available_from_location")
    BY <1>1, <1>2, <1>4, Zenon DEF DecideAgentTravel
  <2>2. QED
    BY <2>1, FailureIsWise
<1>5. CASE agent.status = "idle" /\ Options(agent) # {}
  <2>1. PICK r : r = ChooseRoute(agent)
    OBVIOUS
  <2>2. events = <<Started(c, r)>>
    BY <1>1, <1>2, <1>5, <2>1, Zenon DEF DecideAgentTravel
  <2>3. QED
    BY <2>2, StartIsWise
<1>6. QED
  BY <1>3, <1>4, <1>5

LEMMA JourneyIsWise ==
  ASSUME NEW s, NEW c, c.kind = "journey.start",
         NEW events, events = Decide(s, c), events # <<>>
  PROVE  Wisely(s, events)
<1>1. events = DecideJourneyStart(s, c)
  BY DecideIs
<1>2. events = <<Started(c, c.route)>>
  BY <1>1, Zenon DEF DecideJourneyStart
<1>3. QED
  BY <1>2, StartIsWise

(* The crossings of a state are exact.                                     *)
LEMMA ExactIsNews ==
  ASSUME NEW s, NEW F, Good(s, F), Exact(s), NEW ag \in Agents, NEW n \in Needs
  PROVE  ExactNews(n, s.agents[ag].baseline[n], Awaited(s, ag, n))
<1> SUFFICES ASSUME NEW x \in Awaited(s, ag, n)
             PROVE  /\ x.due \in Nat /\ x.level \in {"warning", "critical"}
                    /\ x.due \in NextCrossing(n, s.agents[ag].baseline[n], Better(x.level))
  BY DEF ExactNews
<1>1. x \in s.schedule /\ x.kind = "need.threshold"
  BY DEF Awaited, Of
<1>2. x \in Planned /\ Formed(x)
  BY <1>1 DEF Good, States, Sound
<1>3. x.due \in Nat /\ x.level \in {"warning", "critical"}
  BY <1>1, <1>2 DEF Planned, Formed
<1>4. ExactOf(s, ag, n)
  BY DEF Exact
<1>5. QED
  BY <1>3, <1>4 DEF ExactOf

(* The news that is served is due no later than anything else.             *)
Foremost(s, c) ==
  c.kind = "need.threshold" =>
    \E x \in Of(s.schedule, c.agent) :
      /\ x.kind = "need.threshold" /\ x.need = c.need /\ x.level = c.level
      /\ \A y \in s.schedule : x.due <= y.due

(* Who is about to lie down when it becomes critical has no food: he would *)
(* lie down no earlier than it does.                                       *)
LEMMA NobodyLiesDownStarving ==
  ASSUME NEW s, NEW F, Good(s, F), Exact(s), AllWakeful(s), NEW g \in Agents,
         NEW x \in Awaited(s, g, "hunger"), x.level = "critical",
         \A y \in s.schedule : x.due <= y.due,
         NEW y \in Of(s.schedule, g), y.kind = "agent.rest"
  PROVE  Bare(s, g)
<1>1. PICK n \in Needs : n = "hunger"
  BY DEF Needs
<1>2. s.agents[g] \in Stored
  BY DEF Good, States
<1>3. PICK B \in Nat : B = s.agents[g].baseline[n]
  BY <1>2 DEF Stored
<1>4. ExactNews(n, B, Awaited(s, g, n))
  BY <1>3, ExactIsNews
<1>5. x.due \in Nat /\ x.due \in NextCrossing(n, B, "warning")
  BY <1>1, <1>4 DEF ExactNews, Better
<1>6. Reached(n, B, x.due, "critical")
  BY <1>5, NeedsHaveRates, CrossingIsTheFirstMinute DEF Worse
<1>7. y \in s.schedule
  BY DEF Of
<1>8. y.due \in Nat /\ x.due <= y.due
  BY <1>7 DEF Good, States, Planned
<1>9. Reached(n, B, y.due, "critical")
  BY <1>5, <1>6, <1>8, ReachedStays
<1>10. Level("hunger", s.agents[g].baseline["hunger"], y.due) = "critical"
  BY <1>1, <1>3, <1>9 DEF Level
<1>11. Mindful(s.agents[g], Of(s.schedule, g), Awaited(s, g, "hunger"), Bare(s, g))
  BY DEF AllWakeful, Wakeful
<1>12. QED
  BY <1>10, <1>11 DEF Mindful

LEMMA ThresholdIsWise ==
  ASSUME NEW s, NEW F, Good(s, F), Exact(s), AllWakeful(s), NEW c, Command(c), Known(c),
         c.kind = "need.threshold", Foremost(s, c),
         NEW events, events = Decide(s, c), events # <<>>
  PROVE  Wisely(s, events)
<1>1. PICK g \in Agents : g = c.agent
  BY DEF Command
<1>2. PICK a \in Stored : a = s.agents[g]
  BY DEF Good, States
<1>3. PICK n \in Needs : n = c.need
  BY DEF Known
<1>4. PICK B \in Nat : B = a.baseline[n]
  BY DEF Stored
<1>5. events = DecideNeedThresholdCross(s, c)
  BY DecideIs
<1>6. Level(n, B, c.at) = c.level /\ c.level # "normal"
  BY <1>1, <1>2, <1>3, <1>4, <1>5, Zenon DEF DecideNeedThresholdCross
<1>7. PICK next : next = NextCrossing(n, B, c.level)
  OBVIOUS
<1>8. PICK p : p = [need |-> n, from |-> Better(c.level), level |-> c.level, next |-> next]
  OBVIOUS
<1>9. PICK e : e = Event("need.threshold.crossed", c, p)
  OBVIOUS
<1>10. PICK more : more = EmergencyInterrupt(a, c)
  OBVIOUS
<1>11. events = <<e>> \o more
  <2>1. e = Crossed(c, n, Better(c.level), c.level, B)
    BY <1>7, <1>8, <1>9 DEF Crossed
  <2>2. QED
    BY <1>1, <1>2, <1>3, <1>4, <1>5, <1>6, <1>10, <2>1, Zenon DEF DecideNeedThresholdCross
<1>12. /\ e.type = "need.threshold.crossed" /\ e.agent = g
       /\ e.payload.need = n /\ e.payload.next = next
  BY <1>1, <1>8, <1>9, EventIs
<1>13. CASE more # <<>>
  <2>1. more = PlanFailure(a, c, "agent.not_in_emergency")
    BY <1>10, <1>13 DEF EmergencyInterrupt
  <2>2. PICK f : f = Event("plan.invalidated", c,
                           [plan |-> a.plan, precondition |-> "agent.not_in_emergency"])
    OBVIOUS
  <2>3. more = <<f>>
    BY <1>13, <2>1, <2>2, Zenon DEF PlanFailure
  <2>4. f.type = "plan.invalidated" /\ f.agent = e.agent
    BY <1>1, <1>12, <2>2, EventIs
  <2>5. <<e>> \o more = <<e, f>>
    <3>1. <<e>> \o <<f>> = <<e, f>>
      BY PairIs
    <3>2. QED
      BY <2>3, <3>1
  <2>6. Wisely(s, <<e, f>>)
    BY <1>12, <2>4, Zenon DEF Wisely
  <2>7. QED
    BY <1>11, <2>5, <2>6
<1>14. CASE more = <<>>
  <2>1. ASSUME n = "hunger", next = {}
        PROVE  Bare(s, g) \/ (a.status # "resting"
                              /\ \A y \in Of(s.schedule, g) : y.kind # "agent.rest")
    <3>1. c.level = "critical"
      BY <1>7, <2>1 DEF NextCrossing
    <3>2. PICK x \in Of(s.schedule, g) :
            /\ x.kind = "need.threshold" /\ x.need = n /\ x.level = "critical"
            /\ \A y \in s.schedule : x.due <= y.due
      BY <1>1, <1>3, <3>1 DEF Foremost
    <3>3. x \in Awaited(s, g, "hunger")
      BY <2>1, <3>2 DEF Awaited
    <3>4. ASSUME NEW y \in Of(s.schedule, g), y.kind = "agent.rest" PROVE Bare(s, g)
      BY <3>2, <3>3, <3>4, NobodyLiesDownStarving
    <3>5. a.status # "resting"
      <4> SUFFICES ASSUME a.status = "resting" PROVE FALSE
        OBVIOUS
      <4>1. a.goal = "rest"
        BY <1>2 DEF AllWakeful, Wakeful, Mindful
      <4>2. a.plan # 0
        BY <1>2, <4>1 DEF Good, Fine
      <4>3. Treats[a.goal] # c.need
        BY <1>3, <2>1, <4>1 DEF Treats
      <4>4. more = PlanFailure(a, c, "agent.not_in_emergency")
        BY <1>10, <3>1, <4>3 DEF EmergencyInterrupt
      <4>5. PlanFailure(a, c, "agent.not_in_emergency") # <<>>
        BY <4>2 DEF PlanFailure
      <4>6. QED
        BY <1>14, <4>4, <4>5
    <3>6. QED
      BY <3>4, <3>5
  <2>2. Roused(s, e)
    BY <1>2, <1>12, <2>1 DEF Roused, Alarming
  <2>3. Wise(s, e)
    BY <1>12, <2>2 DEF Wise, Sensible
  <2>4. QED
    BY <1>11, <1>14, <2>3, WiselyFirst
<1>15. QED
  BY <1>13, <1>14

(* What the cards and the schedule say of a need is true later, as long as *)
(* nothing happens.                                                        *)
LEMMA LevelTells ==
  ASSUME Prompt, NEW s, NEW F, Good(s, F), Exact(s), NEW cs, Told(cs, s), NeedsTold(cs, s),
         NEW ag \in Agents, NEW n \in Needs, NEW at \in Nat, s.time <= at
  PROVE  LET level == Level(n, s.agents[ag].baseline[n], at)
         IN /\ level # "critical" => Awaited(s, ag, n) # {}
            /\ level = "normal" => Unfelt(Awaited(s, ag, n))
<1>1. s.agents[ag] \in Stored /\ s.time \in Nat
  BY DEF Good, States
<1>2. PICK B \in Nat : B = s.agents[ag].baseline[n]
  BY <1>1 DEF Stored
<1>3. PICK L \in NeedLevels : L = cs[ag].needs[n]
  BY DEF Told, Tells, Card
<1>4. PICK C : C = Awaited(s, ag, n)
  OBVIOUS
<1>5. ExactNews(n, B, C)
  BY <1>2, <1>4, ExactIsNews
<1>6. Feels(n, L, B, C, s.time)
  BY <1>2, <1>3, <1>4 DEF NeedsTold, FeltBy
<1>7. Feels(n, L, B, C, at)
  BY <1>1, <1>6, FeltOn
<1>8. QED
  BY <1>2, <1>4, <1>5, <1>7, FeltTells

LEMMA ChoiceIsWise ==
  ASSUME Prompt, Caring, NEW s, NEW F, Good(s, F), AllOrderly(s), Exact(s),
         NEW cs, Told(cs, s), NeedsTold(cs, s), NEW c, Command(c), s.time <= c.at,
         c.kind = "agent.decide", Fitting(s, c),
         NEW events, events = Decide(s, c), events # <<>>
  PROVE  Wisely(s, events)
<1>1. events = DecideAgentDecide(s, c)
  BY DecideIs
<1>2. PICK g \in Agents : g = c.agent
  BY DEF Command
<1>3. PICK a : a = s.agents[g]
  OBVIOUS
<1>4. PICK at \in Nat : at = c.at
  BY DEF Command
<1>5. PICK goal : goal = ChooseGoal(s, c.agent, c.at)
  OBVIOUS
<1>6. PICK p : p = [goal |-> goal, previous |-> s.agents[c.agent].goal]
  OBVIOUS
<1>7. PICK e : e = Event("goal.chosen", c, p)
  OBVIOUS
<1>8. events = <<e>>
  BY <1>1, <1>5, <1>6, <1>7, Zenon DEF DecideAgentDecide
<1>9. e.type = "goal.chosen" /\ e.agent = g /\ e.at = at /\ e.payload.goal = goal
  BY <1>2, <1>4, <1>6, <1>7, EventIs
<1>10. a.goal = "idle"
  <2>1. \E x \in Of(s.schedule, g) : x.kind = "agent.decide"
    BY <1>2 DEF Fitting
  <2>2. Orderly(a, Of(s.schedule, g), s.time)
    BY <1>3 DEF AllOrderly
  <2>3. QED
    BY <2>1, <2>2 DEF Orderly
<1>11. /\ goal = "rest" => Bare(s, g) \/ Level("hunger", a.baseline["hunger"], at) # "critical"
       /\ goal = "idle" /\ a.status = "idle" => ~Tired(a, at) /\ (Bare(s, g) \/ ~Hungry(a, at))
  <2>1. s \in States
    BY DEF Good
  <2>2. QED
    BY <1>2, <1>3, <1>4, <1>5, <1>10, <2>1, CaringChoice DEF Bare
<1>12. \A n \in Needs :
         /\ Level(n, a.baseline[n], at) # "critical" => Awaited(s, g, n) # {}
         /\ Level(n, a.baseline[n], at) = "normal" => Unfelt(Awaited(s, g, n))
  BY <1>3, <1>4, LevelTells
<1>13. "hunger" \in Needs /\ "fatigue" \in Needs
  BY DEF Needs
<1>14. Sensible(s, e)
  BY <1>3, <1>9, <1>11, <1>12, <1>13 DEF Sensible, Tired, Hungry
<1>15. Wise(s, e)
  BY <1>9, <1>14 DEF Wise, Roused, Alarming
<1>16. QED
  BY <1>8, <1>15, WiselyOnce

(* Whatever the command, if it is accepted.                                *)
LEMMA DecideIsWise ==
  ASSUME Prompt, Caring, NEW s, NEW F, Good(s, F), AllOrderly(s), Exact(s), AllWakeful(s),
         NEW cs, Told(cs, s), NeedsTold(cs, s),
         NEW c, Command(c), Known(c), s.time <= c.at, Fitting(s, c), Foremost(s, c),
         NEW events, events = Decide(s, c), events # <<>>
  PROVE  Wisely(s, events)
<1>1. CASE c.kind = "journey.start"
  BY <1>1, JourneyIsWise
<1>2. CASE c.kind = "journey.complete"
  BY <1>2, CompleteIsWise
<1>3. CASE c.kind = "need.threshold"
  BY <1>3, ThresholdIsWise
<1>4. CASE c.kind = "agent.eat"
  BY <1>4, EatIsWise
<1>5. CASE c.kind = "agent.rest"
  BY <1>5, RestIsWise
<1>6. CASE c.kind = "rest.complete"
  BY <1>6, WakingIsWise
<1>7. CASE c.kind = "agent.decide"
  BY <1>7, ChoiceIsWise
<1>8. CASE c.kind = "agent.travel"
  BY <1>8, TravelIsWise
<1>9. QED
  BY <1>1, <1>2, <1>3, <1>4, <1>5, <1>6, <1>7, <1>8 DEF Known, KindNames

-----------------------------------------------------------------------------
(* What is claimed is due no later than anything else on the schedule.     *)
BatchFirst ==
  \A id \in batch, x \in Loaded.schedule : Pending(id) => rows[id].action.due <= x.due

LEMMA ServedIsForemost ==
  ASSUME WorldInv, BatchFirst, NEW c, Ordering(c) \/ \E id \in DOMAIN rows : Served(id, c)
  PROVE  Foremost(Loaded, c)
<1>1. CASE Ordering(c)
  BY <1>1 DEF Ordering, Foremost
<1>2. CASE \E id \in DOMAIN rows : Served(id, c)
  <2>1. PICK id \in DOMAIN rows : Served(id, c)
    BY <1>2
  <2>2. PICK x : x = rows[id].action
    OBVIOUS
  <2>3. /\ x \in Loaded.schedule /\ c.kind = x.kind /\ c.agent = x.agent
        /\ c.need = x.need /\ c.level = x.level
    BY <2>1, <2>2, ServedIs
  <2>4. x \in Of(Loaded.schedule, c.agent)
    BY <2>3 DEF Of
  <2>5. \A y \in Loaded.schedule : x.due <= y.due
    BY <2>1, <2>2 DEF BatchFirst, Served
  <2>6. QED
    BY <2>3, <2>4, <2>5 DEF Foremost
<1>3. QED
  BY <1>1, <1>2

(* What a command adds is due at its time at the earliest.                 *)
LEMMA AcceptedBatchFirst ==
  ASSUME WorldInv, WorldInv', BatchFirst, TickStays,
         NEW after, NEW events, Accept(Loaded, after, events),
         NEW c, c.at \in Nat, c.at <= observed,
         Ordering(c) \/ \E id \in DOMAIN rows : Served(id, c),
         \A y \in after.schedule : y \in Loaded.schedule \/ y.due >= c.at
  PROVE  BatchFirst'
<1>1. Loaded' = after
  BY AcceptedIsLoaded
<1>2. ASSUME NEW id \in batch', NEW y \in after.schedule, Pending(id)'
      PROVE  rows'[id].action.due <= y.due
  <2>1. id \in batch /\ id \in DOMAIN rows
    BY <1>2 DEF TickStays, WorldInv, Healthy, Timely
  <2>2. /\ rows'[id].action = rows[id].action
        /\ rows'[id].outcome = "pending" => rows[id].outcome = "pending"
    BY <2>1, RowsStay
  <2>3. Pending(id)
    BY <1>2, <2>2 DEF Pending
  <2>4. PICK x : x = rows[id].action
    OBVIOUS
  <2>5. x.due \in Nat /\ x.due <= observed /\ observed \in Nat
    BY <2>1, <2>4 DEF WorldInv, Healthy, RowsAreKnown, Timely, Planned
  <2>6. CASE y \in Loaded.schedule
    BY <2>1, <2>2, <2>3, <2>6 DEF BatchFirst
  <2>7. CASE y.due >= c.at
    <3>1. y.due \in Nat
      BY <1>1 DEF WorldInv, Healthy, Good, States, Planned
    <3>2. x.due <= c.at
      <4>1. CASE Ordering(c)
        BY <2>5, <4>1 DEF Ordering
      <4>2. CASE \E j \in DOMAIN rows : Served(j, c)
        <5>1. PICK j \in DOMAIN rows : Served(j, c)
          BY <4>2
        <5>2. PICK z : z = rows[j].action
          OBVIOUS
        <5>3. z \in Loaded.schedule /\ z \in Planned /\ z.due <= c.at
          BY <5>1, <5>2, ServedIs DEF Served
        <5>4. x.due <= z.due
          BY <2>1, <2>3, <2>4, <5>3 DEF BatchFirst
        <5>5. z.due \in Nat
          BY <5>3 DEF Planned
        <5>6. QED
          BY <2>5, <5>3, <5>4, <5>5
      <4>3. QED
        BY <4>1, <4>2
    <3>3. x.due <= y.due
      BY <2>5, <2>7, <3>1, <3>2
    <3>4. QED
      BY <2>2, <2>4, <3>3
  <2>8. QED
    BY <1>2, <2>6, <2>7
<1>3. QED
  BY <1>1, <1>2 DEF BatchFirst

LEMMA ClaimBatchFirst ==
  ASSUME PromptInv, Claim
  PROVE  BatchFirst'
<1> DEFINE dues == {rows[id].action.due : id \in Due(observed)}
<1>1. PICK moment : moment = CHOOSE t \in dues : \A id \in Due(observed) : t <= rows[id].action.due
  OBVIOUS
<1>2. batch' = Due(moment) /\ UNCHANGED <<tables, observed>>
  BY <1>1 DEF Claim
<1>3. \A id \in DOMAIN rows : rows[id].action.due \in Nat
  BY DEF PromptInv, WorldInv, Healthy, RowsAreKnown, Planned
<1>4. dues \subseteq Nat /\ dues # {}
  BY <1>3 DEF Claim, Due
<1>5. \E t \in dues : \A u \in dues : t <= u
  BY <1>4, LeastNat
<1>6. moment \in dues /\ \A id \in Due(observed) : moment <= rows[id].action.due
  BY <1>1, <1>5
<1>7. moment \in Nat /\ moment <= observed /\ observed \in Nat
  BY <1>4, <1>6 DEF Due, PromptInv, WorldInv, Healthy, Timely
<1>8. Loaded' = Loaded /\ rows' = rows
  BY <1>2 DEF tables, Loaded
<1>9. ASSUME NEW id \in Due(moment), NEW x \in Loaded.schedule
      PROVE  rows[id].action.due <= x.due
  <2>1. id \in DOMAIN rows /\ rows[id].action.due <= moment
    BY DEF Due
  <2>2. PICK j \in DOMAIN rows : Pending(j) /\ rows[j].action = x
    BY UnfinishedArePending DEF PromptInv, Unrefused
  <2>3. x.due \in Nat /\ rows[id].action.due \in Nat
    BY <1>3, <2>1, <2>2
  <2>4. moment <= x.due
    <3>1. CASE x.due <= observed
      BY <1>6, <2>2, <3>1 DEF Due
    <3>2. CASE ~(x.due <= observed)
      BY <1>7, <2>3, <3>2
    <3>3. QED
      BY <3>1, <3>2
  <2>5. QED
    BY <1>7, <2>1, <2>3, <2>4
<1>10. QED
  BY <1>2, <1>8, <1>9 DEF BatchFirst

(* Nobody is left with a need he could see to.                             *)
MetInv == PromptInv /\ Caring /\ NeedsInv /\ BatchFirst /\ AllWakeful(Loaded)

LEMMA AdvancedMet ==
  ASSUME MetInv, WorldInv', TickStays, Advanced
  PROVE  BatchFirst' /\ AllWakeful(Loaded)'
<1>1. PICK s : s = Loaded
  OBVIOUS
<1>2. PICK c, events :
        /\ Proper(s, c, events) /\ events # <<>>
        /\ Command(c) /\ Known(c) /\ events = Decide(s, c)
        /\ Ordering(c) \/ \E id \in DOMAIN rows : Served(id, c)
        /\ c.at \in Nat /\ time <= c.at /\ c.at <= observed
        /\ Accept(s, After(s, events), events)
  BY <1>1 DEF Advanced
<1>3. PICK t : t = After(s, events)
  OBVIOUS
<1>4. Accept(Loaded, t, events) /\ Loaded' = t
  BY <1>1, <1>2, <1>3, AcceptedIsLoaded
<1>5. /\ Prompt /\ Sober /\ Caring /\ WorldInv /\ BatchFirst
      /\ NothingFails /\ StepsFirst /\ AllOrderly(s) /\ Exact(s) /\ AllWakeful(s)
      /\ Told(cards, s) /\ NeedsTold(cards, s)
  BY <1>1 DEF MetInv, PromptInv, Unrefused, NeedsInv, ToldInv
<1>6. Good(s, Failed) /\ Old(Failed, s.sequence) /\ s.time <= c.at /\ s \in States
  BY <1>1, <1>2, <1>5, LoadedIs DEF WorldInv, Healthy, Good
<1>7. Fitting(s, c) /\ Foremost(s, c)
  BY <1>1, <1>2, <1>5, ServedFits, OrderFits, ServedIsForemost
<1>8. c.kind = "journey.start" => c.route \in Routes
  BY <1>2, <1>5, ServedFits DEF Ordering
<1>9. Suits(s, events)
  BY <1>2, <1>5, <1>6, <1>7, <1>8, DecideSuits
<1>10. \A y \in t.schedule : y \in s.schedule \/ y.due >= c.at
  BY <1>2, <1>3, <1>5, <1>6, <1>9, AfterFollows
<1>11. Wisely(s, events)
  BY <1>2, <1>5, <1>6, <1>7, DecideIsWise
<1>12. AllWakeful(t)
  BY <1>2, <1>3, <1>5, <1>6, <1>9, <1>11, AfterWakes
<1>13. BatchFirst'
  BY <1>1, <1>2, <1>4, <1>5, <1>10, AcceptedBatchFirst
<1>14. QED
  BY <1>4, <1>12, <1>13

LEMMA ServeMet ==
  ASSUME MetInv, WorldInv', TickStays, UNCHANGED tables \/ Advanced \/ Refused
  PROVE  BatchFirst' /\ AllWakeful(Loaded)'
<1>1. CASE UNCHANGED tables
  <2>1. Loaded' = Loaded /\ rows' = rows
    BY <1>1 DEF tables, Loaded
  <2>2. QED
    BY <2>1 DEF MetInv, BatchFirst, TickStays, Pending
<1>2. QED
  BY <1>1, NothingIsRefused, AdvancedMet DEF MetInv

LEMMA NextMetInv == MetInv /\ [Next]_vars => MetInv'
<1> SUFFICES ASSUME MetInv, [Next]_vars PROVE MetInv'
  OBVIOUS
<1>1. PromptInv' /\ NeedsInv' /\ WorldInv /\ WorldInv'
  BY NextPromptInv, NextNeedsInv DEF MetInv, PromptInv
<1>2. Caring'
  BY DEF MetInv, Caring
<1>3. BatchFirst' /\ AllWakeful(Loaded)'
  <2>1. CASE UNCHANGED vars
    <3>1. UNCHANGED tables /\ TickStays
      BY <1>1, <2>1 DEF vars, tables, TickStays, WorldInv, Healthy, Timely
    <3>2. QED
      BY <1>1, <3>1, ServeMet
  <2>2. CASE Announce \/ Claim
    <3>1. Loaded' = Loaded
      BY <2>2 DEF Announce, Claim, tables, Loaded
    <3>2. AllWakeful(Loaded)'
      BY <3>1 DEF MetInv
    <3>3. CASE Announce
      BY <3>2, <3>3 DEF Announce, BatchFirst
    <3>4. CASE Claim
      BY <3>2, <3>4, ClaimBatchFirst DEF MetInv
    <3>5. QED
      BY <2>2, <3>3, <3>4
  <2>3. CASE Serve
    BY <1>1, <2>3, ServeIs, ServeMet
  <2>4. CASE \E ag \in Agents, r \in Routes : Order(ag, r)
    BY <1>1, <2>4, OrderIs, ServeMet
  <2>5. QED
    BY <2>1, <2>2, <2>3, <2>4 DEF Next
<1>4. QED
  BY <1>1, <1>2, <1>3 DEF MetInv

(* A world begins so: nobody feels anything, and everybody will be told.   *)
LEMMA FirstWakeful ==
  ASSUME Init
  PROVE  AllWakeful(Loaded)
<1>1. Loaded.schedule = InitialSchedule
  BY FirstUnfinished, LoadedIs
<1>2. \A x \in Loaded.schedule : x.kind = "need.threshold"
  BY <1>1, FirstRows
<1>3. PICK place \in [Agents -> StartPlaces], caution \in [Agents -> Cautions] :
        agents = [g \in Agents |-> Newborn(place[g], caution[g])]
  BY DEF Init
<1>4. ASSUME NEW ag \in Agents PROVE Wakeful(Loaded, ag)
  <2>1. PICK a : a = Loaded.agents[ag]
    OBVIOUS
  <2>2. a.status = "idle"
    BY <1>3, <2>1, LoadedIs DEF Newborn
  <2>3. PICK X : X = Of(Loaded.schedule, ag)
    OBVIOUS
  <2>4. \A x \in X : x.kind = "need.threshold"
    BY <1>2, <2>3 DEF Of
  <2>5. ASSUME NEW n \in Needs PROVE Unfelt(Awaited(Loaded, ag, n))
    <3>1. PICK due : due \in NextCrossing(n, 0, "normal")
      BY DEF NextCrossing
    <3>2. Crossing(ag, n, due, "warning") \in Awaited(Loaded, ag, n)
      BY <3>1, FirstAwaited
    <3>3. Crossing(ag, n, due, "warning").level = "warning"
      BY DEF Crossing, Action
    <3>4. QED
      BY <3>2, <3>3 DEF Unfelt
  <2>6. Unfelt(Awaited(Loaded, ag, "hunger")) /\ Unfelt(Awaited(Loaded, ag, "fatigue"))
    BY <2>5 DEF Needs
  <2>7. Mindful(a, X, Awaited(Loaded, ag, "hunger"), Bare(Loaded, ag))
    BY <2>2, <2>4 DEF Mindful
  <2>8. QED
    BY <2>1, <2>3, <2>4, <2>6, <2>7 DEF Wakeful, Content, Alert
<1>5. QED
  BY <1>4 DEF AllWakeful

(* Where nothing is due any more, who is free is not about to do anything, *)
(* so that nothing he could answer is felt yet.                            *)
LEMMA WhoeverIsWakefulIsMet == MetInv => NeedsMet
<1> SUFFICES ASSUME MetInv, Due(time) = {}, NEW ag \in Agents
             PROVE  /\ agents[ag].status = "idle" =>
                         Level("fatigue", agents[ag].baseline.fatigue, time) = "normal"
                    /\ agents[ag].status = "idle" =>
                         \/ Level("hunger", agents[ag].baseline.hunger, time) = "normal"
                         \/ FoodOf([items |-> items], ag) = {}
                    /\ agents[ag].status = "resting" =>
                         \/ Level("hunger", agents[ag].baseline.hunger, time) # "critical"
                         \/ FoodOf([items |-> items], ag) = {}
  BY DEF NeedsMet
<1>1. PICK s : s = Loaded
  OBVIOUS
<1>2. /\ Good(s, Failed) /\ WorldInv /\ NothingFails /\ AllOrderly(s) /\ Exact(s) /\ Wakeful(s, ag)
  BY <1>1 DEF MetInv, PromptInv, WorldInv, Healthy, Unrefused, AllWakeful
<1>3. PICK at \in Nat : at = time
  BY <1>2 DEF WorldInv, Healthy, Timely
<1>4. PICK a \in Stored : a = agents[ag]
  BY <1>1, <1>2, LoadedIs DEF Good, States
<1>5. s.agents[ag] = a /\ s.time = at /\ s.items = items
  BY <1>1, <1>3, <1>4, LoadedIs
<1>6. PICK X : X = Of(s.schedule, ag)
  OBVIOUS
<1>7. ASSUME NEW x \in X PROVE x.due \in Nat /\ at < x.due
  <2>1. x \in s.schedule
    BY <1>6 DEF Of
  <2>2. PICK id \in DOMAIN rows : Pending(id) /\ rows[id].action = x
    BY <1>1, <1>2, <2>1, UnfinishedArePending
  <2>3. x.due \in Nat
    BY <1>2, <2>1 DEF Good, States, Planned
  <2>4. ~(x.due <= at)
    BY <1>3, <2>2 DEF Due
  <2>5. QED
    BY <2>3, <2>4
<1>8. ASSUME NEW n \in Needs, NEW x \in Awaited(s, ag, n)
      PROVE  /\ Level(n, a.baseline[n], at) # "critical"
             /\ x.level = "warning" => Level(n, a.baseline[n], at) = "normal"
  <2>1. x \in X /\ a.baseline[n] \in Nat
    BY <1>6 DEF Awaited, Stored
  <2>2. ExactNews(n, a.baseline[n], Awaited(s, ag, n))
    BY <1>2, <1>5, ExactIsNews
  <2>3. QED
    BY <1>7, <2>1, <2>2, NotReachedYet
<1>9. Bare(s, ag) <=> FoodOf([items |-> items], ag) = {}
  BY <1>5 DEF Bare, FoodOf
<1>10. /\ Mindful(a, X, Awaited(s, ag, "hunger"), Bare(s, ag))
       /\ Content(a, X, Awaited(s, ag, "hunger"), Awaited(s, ag, "fatigue"), Bare(s, ag))
       /\ Alert(X, at)
  BY <1>2, <1>5, <1>6 DEF Wakeful
<1>11. \A x \in X : ~(x.due <= at)
  BY <1>7
<1>12. "hunger" \in Needs /\ "fatigue" \in Needs
  BY DEF Needs
<1>13. CASE a.status = "idle"
  <2>1. \A x \in X : x.kind # "agent.decide" /\ x.kind \notin Steps
    <3>1. Orderly(a, X, at)
      BY <1>2, <1>5, <1>6 DEF AllOrderly
    <3>2. QED
      BY <1>10, <1>11, <3>1 DEF Alert, Orderly
  <2>2. a.goal = "idle"
    <3>1. Fine(a, X, Failed)
      BY <1>2, <1>5, <1>6 DEF Good
    <3>2. QED
      BY <1>13, <2>1, <3>1 DEF Fine
  <2>3. Unfelt(Awaited(s, ag, "fatigue")) /\ (Unfelt(Awaited(s, ag, "hunger")) \/ Bare(s, ag))
    BY <1>10, <1>13, <2>1, <2>2 DEF Content, Free
  <2>4. ASSUME NEW n \in Needs, Unfelt(Awaited(s, ag, n))
        PROVE  Level(n, a.baseline[n], at) = "normal"
    BY <1>8, <2>4 DEF Unfelt
  <2>5. QED
    BY <1>4, <1>3, <1>9, <1>12, <1>13, <2>3, <2>4
<1>14. CASE a.status = "resting"
  <2>1. Awaited(s, ag, "hunger") # {} \/ Bare(s, ag)
    BY <1>10, <1>14 DEF Mindful
  <2>2. Awaited(s, ag, "hunger") # {} => Level("hunger", a.baseline["hunger"], at) # "critical"
    BY <1>8, <1>12
  <2>3. QED
    BY <1>3, <1>4, <1>9, <1>14, <2>1, <2>2
<1>15. QED
  BY <1>4, <1>13, <1>14

(* And where agents care besides, nobody stands about tired, or hungry with*)
(* food in his bag, once a moment is over, and nobody starves in his sleep *)
(* next to his food.                                                       *)
THEOREM APromptWorldMeetsItsNeeds == Spec /\ Prompt /\ Sober /\ Caring => []NeedsMet
<1>1. Init /\ Prompt /\ Sober /\ Caring => MetInv
  <2> SUFFICES ASSUME Init, Prompt, Sober, Caring PROVE MetInv
    OBVIOUS
  <2>1. WorldInv
    BY InitIInv, InitHealthy DEF WorldInv
  <2>2. PromptInv /\ NeedsInv
    BY <2>1, InitPrompt, FirstCards, FirstNeeds DEF PromptInv, NeedsInv, ToldInv
  <2>3. BatchFirst
    BY DEF Init, BatchFirst
  <2>4. QED
    BY <2>2, <2>3, FirstWakeful DEF MetInv
<1>2. QED
  BY <1>1, NextMetInv, WhoeverIsWakefulIsMet, PTL DEF Spec

=============================================================================
