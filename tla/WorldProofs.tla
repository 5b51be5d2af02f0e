------------------------------ MODULE WorldProofs ------------------------------
(***************************************************************************)
(* Proofs about the rules of the world and the tables it is kept in, for   *)
(* any map, any rules that pass their checks and any way it is served.     *)
(***************************************************************************)
EXTENDS WorldRun, TLAPS, WellFoundedInduction, SequenceTheorems, FiniteSetTheorems

-----------------------------------------------------------------------------
(* A row is an action, under its own id, with its outcome.                 *)
Row(r) == [action |-> r.action, outcome |-> r.outcome]
RowsAreRows == \A id \in DOMAIN rows : rows[id] = Row(rows[id]) /\ Id(rows[id].action) = id

IInv == RowsAreRows /\ ReplayAgrees

LEMMA InitIInv == Init => IInv
<1>1. ASSUME NEW id \in DOMAIN Enrolled
      PROVE  Enrolled[id] = Row(Enrolled[id]) /\ Id(Enrolled[id].action) = id
  <2>1. PICK x \in InitialSchedule : Id(x) = id
    BY DEF Enrolled
  <2> DEFINE y == CHOOSE z \in InitialSchedule : Id(z) = id
  <2>2. Id(y) = id
    BY <2>1
  <2> HIDE DEF y
  <2>3. Enrolled[id] = [action |-> y, outcome |-> "pending"]
    BY DEF Enrolled, y
  <2>4. QED
    BY <2>2, <2>3 DEF Row
<1>2. QED
  BY <1>1 DEF Init, IInv, RowsAreRows, ReplayAgrees

(* What leaves the schedule was on it, and is written there.               *)
LEMMA RemovedAreRows ==
  ASSUME IInv, NEW after
  PROVE  Removed(Loaded, after) \subseteq DOMAIN rows
  BY DEF IInv, RowsAreRows, Removed, Loaded, Unfinished

LEMMA WrittenRows ==
  ASSUME IInv, NEW after, rows' = NextRows(Loaded, after)
  PROVE  RowsAreRows'
<1> DEFINE removed == Removed(Loaded, after)
           added == Added(Loaded, after)
<1>1. ASSUME NEW id \in DOMAIN rows' PROVE rows'[id] = Row(rows'[id]) /\ Id(rows'[id].action) = id
  <2>1. CASE id \in removed
    <3>1. id \in DOMAIN rows
      BY <2>1, RemovedAreRows
    <3>2. rows'[id] = [rows[id] EXCEPT !.outcome = "completed"]
      BY <2>1, <3>1 DEF NextRows
    <3>3. rows[id] = Row(rows[id]) /\ Id(rows[id].action) = id
      BY <3>1 DEF IInv, RowsAreRows
    <3>4. rows'[id] = [action |-> rows[id].action, outcome |-> "completed"]
      BY <3>2, <3>3 DEF Row
    <3>5. QED
      BY <3>3, <3>4 DEF Row
  <2>2. CASE id \notin removed /\ id \in DOMAIN rows
    <3>1. rows'[id] = rows[id]
      BY <2>2 DEF NextRows
    <3>2. QED
      BY <2>2, <3>1 DEF IInv, RowsAreRows
  <2>3. CASE id \notin removed /\ id \notin DOMAIN rows
    <3>1. PICK x \in added : Id(x) = id
      BY <1>1, <2>3 DEF NextRows
    <3> DEFINE y == CHOOSE z \in added : Id(z) = id
    <3>2. Id(y) = id
      BY <3>1
    <3>3. rows'[id] = [action |-> y, outcome |-> "pending"]
      BY <1>1, <2>3 DEF NextRows
    <3> HIDE DEF y
    <3>4. QED
      BY <3>2, <3>3 DEF Row
  <2>4. QED
    BY <2>1, <2>2, <2>3
<1>2. QED
  BY <1>1 DEF RowsAreRows

(* What is written from the difference of two states, and read again, is   *)
(* the later state.                                                        *)
LEMMA AcceptStep ==
  ASSUME IInv, NEW events, NEW before, NEW after,
         before = Loaded, after = After(before, events), Accept(before, after, events)
  PROVE  IInv'
<1>1. Loaded' = Reread(before, after)
  BY DEF Accept, Save, Loaded, Reread, Unfinished
<1>2. Reread(before, after) = after
  BY DEF Accept, CanSave
<1>3. replica' = after
  BY DEF Accept, IInv, ReplayAgrees
<1>4. RowsAreRows'
  BY WrittenRows DEF Accept, Save
<1>5. QED
  BY <1>1, <1>2, <1>3, <1>4 DEF IInv, ReplayAgrees

(* A rejection closes a row that the state that is loaded still has.       *)
LEMMA RejectStep ==
  ASSUME IInv, NEW id, Pending(id), rows' = [rows EXCEPT ![id].outcome = "failed"],
         UNCHANGED <<time, sequence, agents, items, replica>>
  PROVE  IInv'
<1>1. CASE id \notin DOMAIN rows
  <2>1. DOMAIN rows' = DOMAIN rows /\ \A i \in DOMAIN rows : rows'[i] = rows[i]
    BY <1>1
  <2>2. Unfinished(rows') = Unfinished(rows)
    BY <2>1 DEF Unfinished
  <2>3. QED
    BY <2>1, <2>2 DEF IInv, RowsAreRows, ReplayAgrees, Loaded
<1>2. CASE id \in DOMAIN rows
  <2>1. rows[id] = Row(rows[id]) /\ rows[id].outcome = "pending"
    BY <1>2 DEF IInv, RowsAreRows, Pending
  <2>2. rows'[id] = [action |-> rows[id].action, outcome |-> "failed"]
    BY <1>2, <2>1 DEF Row
  <2>3. DOMAIN rows' = DOMAIN rows /\ \A i \in DOMAIN rows : i # id => rows'[i] = rows[i]
    OBVIOUS
  <2>4. RowsAreRows'
    BY <2>2, <2>3 DEF IInv, RowsAreRows, Row
  <2>5. Unfinished(rows') = Unfinished(rows)
    BY <2>1, <2>2, <2>3 DEF Unfinished
  <2>6. QED
    BY <2>4, <2>5 DEF IInv, ReplayAgrees, Loaded
<1>3. QED
  BY <1>1, <1>2

LEMMA NextIInv == IInv /\ [Next]_vars => IInv'
<1> SUFFICES ASSUME IInv, [Next]_vars PROVE IInv'
  OBVIOUS
<1>1. ASSUME UNCHANGED tables PROVE IInv'
  BY <1>1 DEF tables, IInv, RowsAreRows, ReplayAgrees, Loaded
<1>2. CASE Serve
  <2>1. PICK id \in First, before \in {Loaded} :
          \E at \in {Moment(rows[id].action)} :
          \E events \in {Decide(before, CommandFor(rows[id].action, at))} :
          \E after \in {After(before, events)} :
            \/ UNCHANGED tables
            \/ Accept(before, after, events)
            \/ /\ Pending(id) /\ rows' = [rows EXCEPT ![id].outcome = "failed"]
               /\ UNCHANGED <<time, sequence, agents, items, replica, cards>>
    BY <1>2 DEF Serve, tables
  <2>2. QED
    BY <2>1, <1>1, AcceptStep, RejectStep
<1>3. ASSUME NEW ag \in Agents, NEW r \in Routes, Order(ag, r) PROVE IInv'
  BY <1>3, AcceptStep DEF Order
<1>4. CASE Announce \/ Claim
  BY <1>1, <1>4 DEF Announce, Claim
<1>5. CASE UNCHANGED vars
  BY <1>1, <1>5 DEF vars, tables
<1>6. QED
  BY <1>2, <1>3, <1>4, <1>5 DEF Next

(* What is in the tables, written piece by piece from the differences of   *)
(* two states, is what a replay of the journal arrives at: executeCommand  *)
(* reads again what it wrote, and only a completed row leaves the state.   *)
THEOREM TablesAreTheJournal == Spec => []ReplayAgrees
<1>1. IInv => ReplayAgrees
  BY DEF IInv
<1>2. QED
  BY <1>1, InitIInv, NextIInv, PTL DEF Spec

-----------------------------------------------------------------------------
(* Division that rounds up gives the least number that is enough.          *)
LEMMA LeastEnough ==
  ASSUME NEW a \in Nat
  PROVE  /\ CeilDiv(a, 1000) \in Int
         /\ CeilDiv(a, 1000) * 1000 >= a
         /\ \A n \in Int : n * 1000 >= a => CeilDiv(a, 1000) <= n
  BY DEF CeilDiv

LEMMA PositiveProduct ==
  ASSUME NEW a \in Int, NEW b \in Int, a > 0, b > 0
  PROVE  a * b > 0
  OBVIOUS

LEMMA ProductOfDifference ==
  ASSUME NEW a \in Int, NEW b \in Int, NEW c \in Int
  PROVE  (a - b) * c = a * c - b * c
  OBVIOUS

LEMMA Rates ==
  ASSUME NEW need \in DOMAIN Full
  PROVE  /\ \A level \in {"warning", "critical"} : ReachedAt[level] \in Nat \ {0}
         /\ Full[need] \in Nat \ {0}
<1>1. \A level \in {"warning", "critical"} : ReachedAt[level] \in Permille \ {0}
  BY RulesAssumption DEF ValidNeeds
<1>2. Full[need] \in Nat \ {0}
  BY RulesAssumption DEF ValidNeeds
<1>3. Permille \subseteq Nat
  BY DEF Permille
<1>4. QED
  BY <1>1, <1>2, <1>3

LEMMA Thresholds ==
  ASSUME NEW need \in DOMAIN Full
  PROVE  /\ ReachedAt["warning"] * Full[need] \in Nat \ {0}
         /\ ReachedAt["critical"] * Full[need] \in Nat \ {0}
<1>1. ASSUME NEW a \in Nat \ {0}, NEW b \in Nat \ {0} PROVE a * b \in Nat \ {0}
  <2>1. a * b > 0
    BY PositiveProduct
  <2>2. QED
    BY <2>1
<1>2. QED
  BY <1>1, Rates

(* nextThresholdCrossing names the first minute at which the next level is *)
(* reached, although the fraction that is reached then is not a whole one. *)
THEOREM CrossingIsTheFirstMinute ==
  ASSUME NEW need \in DOMAIN Full, NEW baseline \in Int, NEW level \in {"normal", "warning"},
         NEW due \in NextCrossing(need, baseline, level)
  PROVE  /\ due \in Int /\ due > baseline
         /\ Reached(need, baseline, due, Worse(level))
         /\ \A at \in Int : Reached(need, baseline, at, Worse(level)) => due <= at
<1> DEFINE worse == Worse(level)
           much == ReachedAt[worse] * Full[need]
<1>1. much \in Nat \ {0}
  BY Thresholds DEF Worse
<1>2. due = baseline + CeilDiv(much, 1000)
  BY DEF NextCrossing
<1>3. CeilDiv(much, 1000) \in Int /\ CeilDiv(much, 1000) * 1000 >= much
  BY <1>1, LeastEnough
<1>4. \A n \in Int : n * 1000 >= much => CeilDiv(much, 1000) <= n
  BY <1>1, LeastEnough
<1> HIDE DEF much, worse
<1>5. due - baseline \in Int /\ (due - baseline) * 1000 >= much /\ due > baseline /\ due \in Int
  BY <1>1, <1>2, <1>3
<1>6. Reached(need, baseline, due, worse)
  BY <1>5 DEF Reached, much
<1>7. ASSUME NEW at \in Int, Reached(need, baseline, at, worse) PROVE due <= at
  <2>1. at - baseline \in Int /\ (at - baseline) * 1000 >= much
    BY <1>7 DEF Reached, much
  <2>2. CeilDiv(much, 1000) <= at - baseline
    BY <1>4, <2>1
  <2>3. QED
    BY <1>2, <1>3, <2>2
<1>8. QED
  BY <1>5, <1>6, <1>7 DEF worse

(* Unless the two levels are less than a minute of the need apart.         *)
LEMMA LevelAtCrossing ==
  ASSUME NEW need \in DOMAIN Full, NEW baseline \in Int, NEW level \in {"normal", "warning"},
         NEW due \in NextCrossing(need, baseline, level),
         (ReachedAt["critical"] - ReachedAt["warning"]) * Full[need] >= 1000
  PROVE  Level(need, baseline, due) = Worse(level)
<1>1. Reached(need, baseline, due, Worse(level))
  BY CrossingIsTheFirstMinute
<1>2. CASE level = "warning"
  BY <1>1, <1>2 DEF Level, Worse
<1>3. CASE level = "normal"
  <2> DEFINE much == ReachedAt["warning"] * Full[need]
             most == ReachedAt["critical"] * Full[need]
  <2>1. much \in Nat \ {0} /\ most \in Nat \ {0}
    BY Thresholds
  <2>2. ReachedAt["critical"] \in Int /\ ReachedAt["warning"] \in Int /\ Full[need] \in Int
    BY Rates
  <2>3. most - much >= 1000
    BY <2>2, ProductOfDifference
  <2>4. due = baseline + CeilDiv(much, 1000)
    BY <1>3 DEF NextCrossing, Worse
  <2> HIDE DEF much, most
  <2>5. (due - baseline) * 1000 < much + 1000
    BY <2>1, <2>4 DEF CeilDiv
  <2>6. due - baseline \in Int
    BY <2>1, <2>4 DEF CeilDiv
  <2>7. ~((due - baseline) * 1000 >= most)
    BY <2>1, <2>3, <2>5, <2>6
  <2>8. ~Reached(need, baseline, due, "critical")
    BY <2>7 DEF Reached, most
  <2>9. QED
    BY <1>1, <1>3, <2>8 DEF Level, Worse
<1>4. QED
  BY <1>2, <1>3

(* A crossing that is served at its moment, and whose need was not answered*)
(* in between, is accepted: the level is what the schedule said it would   *)
(* be. needs.ts does not refuse rules whose levels lie closer together; a  *)
(* crossing is then rejected for good, and the need never felt.            *)
THEOREM CrossingOnTimeIsAccepted ==
  ASSUME NEW s, NEW ag, NEW need \in DOMAIN Full, NEW level \in {"normal", "warning"},
         s.agents[ag].baseline[need] \in Int,
         NEW due \in NextCrossing(need, s.agents[ag].baseline[need], level),
         (ReachedAt["critical"] - ReachedAt["warning"]) * Full[need] >= 1000
  PROVE  DecideNeedThresholdCross(s, CommandFor(Crossing(ag, need, due, Worse(level)), due)) # <<>>
<1> DEFINE x == Crossing(ag, need, due, Worse(level))
           c == CommandFor(x, due)
           baseline == s.agents[ag].baseline[need]
<1>1. c.agent = ag /\ c.need = need /\ c.level = Worse(level) /\ c.at = due
  BY DEF CommandFor, Caused, Crossing, Action
<1>2. Level(need, baseline, due) = Worse(level) /\ Worse(level) # "normal"
  BY LevelAtCrossing DEF Worse
<1> DEFINE first == Crossed(c, need, Better(c.level), c.level, baseline)
           rest == EmergencyInterrupt(s.agents[ag], c)
<1> HIDE DEF c, x
<1>3. DecideNeedThresholdCross(s, c) = <<first>> \o rest
  BY <1>1, <1>2 DEF DecideNeedThresholdCross
<1>4. rest = <<>> \/ \E e : rest = <<e>>
  BY DEF EmergencyInterrupt, PlanFailure
<1> HIDE DEF first, rest
<1>5. <<first>> \o rest # <<>>
  <2>1. CASE rest = <<>>
    BY <2>1
  <2>2. CASE \E e : rest = <<e>>
    BY <2>2
  <2>3. QED
    BY <1>4, <2>1, <2>2
<1>6. QED
  BY <1>3, <1>5 DEF c, x

-----------------------------------------------------------------------------
(* What a state holds: an agent as it is stored, the schedule as rows that *)
(* scheduledActionFromRow takes, and food that was there at the beginning. *)

(* What a status and a goal can be, and the kinds of a first step.         *)
Statuses == {"idle", "traveling", "resting"}
GoalNames == {"idle", "eat", "rest", "flee"}
Steps == {"agent.eat", "agent.rest", "agent.travel"}

(* A row of the table of agents.                                           *)
Stored == [place : Places, status : Statuses, route : Routes \cup {0},
           baseline : [Needs -> Nat], goal : GoalNames, plan : Nat,
           caution : Nat, known : SUBSET Routes]

KindNames == {"rest.complete", "journey.complete", "need.threshold", "agent.decide",
              "agent.eat", "agent.rest", "agent.travel"}

(* A row of the schedule.                                                  *)
Planned == [kind : KindNames, agent : Agents, due : Nat, ref : Nat, route : Routes \cup {0},
            item : DOMAIN Food \cup {0}, need : {"", "hunger", "fatigue"},
            level : {"", "normal", "warning", "critical"}]

(* The owner of each item that is left.                                    *)
ItemMaps == UNION {[I -> Agents] : I \in SUBSET DOMAIN Food}

States == [time : Nat, sequence : Nat, agents : [Agents -> Stored], items : ItemMaps,
           schedule : SUBSET Planned]

(* An action that makes sense after event n.                               *)
Sound(x, n) == Formed(x) /\ (x.kind # "need.threshold" => x.ref <= n)

(* An agent and his part X of the schedule belong together: he travels or  *)
(* rests if and only if one action there will end it, and if he stands     *)
(* about with a goal, a step towards it is there that is not in F, the     *)
(* actions that have failed.                                               *)
Fine(a, X, F) ==
  /\ a.status = "traveling" <=> \E x \in X : x.kind = "journey.complete"
  /\ \A x \in X : x.kind = "journey.complete" => x.route = a.route
  /\ a.status = "resting" <=> \E x \in X : x.kind = "rest.complete"
  /\ \A x, y \in X : x.kind \in NamedByEvent /\ y.kind = x.kind => x = y
  /\ a.goal = "idle" <=> a.plan = 0
  /\ a.status = "idle" /\ a.goal # "idle" => \E x \in X : x.kind \in Steps /\ x \notin F

(* A state in which this holds of everybody.                               *)
Good(s, F) ==
  /\ s \in States
  /\ \A x \in s.schedule : Sound(x, s.sequence)
  /\ \A ag \in Agents : /\ s.agents[ag].plan <= s.sequence
                        /\ Fine(s.agents[ag], Of(s.schedule, ag), F)

(* What has failed is no arrival, end of a rest or decision, and no news.  *)
Sure == NamedByEvent \cup {"agent.decide"}
Old(F, n) == \A x \in F : x.kind \notin Sure /\ (x.kind # "need.threshold" => x.ref <= n)

(* Only agent g is another, and what is on the schedule of him.            *)
LEMMA Frame ==
  ASSUME NEW s, NEW F, Good(s, F), NEW t \in States, t.sequence = s.sequence,
         NEW g \in Agents, NEW b \in Stored, b.plan <= s.sequence,
         t.agents = [s.agents EXCEPT ![g] = b],
         \A ag \in Agents : ag # g => Of(t.schedule, ag) = Of(s.schedule, ag),
         \A x \in t.schedule : x \in s.schedule \/ Sound(x, s.sequence),
         Fine(b, Of(t.schedule, g), F)
  PROVE  Good(t, F)
<1>1. s \in States /\ \A x \in s.schedule : Sound(x, s.sequence)
  BY DEF Good
<1>2. \A x \in t.schedule : Sound(x, t.sequence)
  BY <1>1
<1>3. s.agents \in [Agents -> Stored]
  BY <1>1 DEF States
<1>4. ASSUME NEW ag \in Agents
      PROVE  t.agents[ag].plan <= t.sequence /\ Fine(t.agents[ag], Of(t.schedule, ag), F)
  <2>1. CASE ag = g
    <3>1. t.agents[ag] = b
      BY <2>1, <1>3
    <3>2. QED
      BY <3>1, <2>1
  <2>2. CASE ag # g
    <3>1. t.agents[ag] = s.agents[ag]
      BY <2>2, <1>3
    <3>2. QED
      BY <3>1, <2>2 DEF Good
  <2>3. QED
    BY <2>1, <2>2
<1>5. QED
  BY <1>2, <1>4 DEF Good

(* The state of an event has its time and its number.                      *)
Stamp(s, at) == [s EXCEPT !.time = at, !.sequence = s.sequence + 1]

LEMMA StampIsGood ==
  ASSUME NEW s0, NEW F, Good(s0, F), NEW at \in Nat, NEW s, s = Stamp(s0, at)
  PROVE  /\ Good(s, F) /\ s.time = at /\ s.sequence = s0.sequence + 1
         /\ s.agents = s0.agents /\ s.schedule = s0.schedule /\ s.items = s0.items
<1>1. s0 \in States /\ s0.sequence \in Nat
  BY DEF Good, States
<1> PICK n \in Nat : n = s0.sequence + 1
  BY <1>1
<1>2. s = [s0 EXCEPT !.time = at, !.sequence = n]
  BY DEF Stamp
<1>3. /\ s \in States /\ s.time = at /\ s.sequence = n
      /\ s.agents = s0.agents /\ s.schedule = s0.schedule /\ s.items = s0.items
  BY <1>1, <1>2 DEF States
<1>4. \A x \in s.schedule : Sound(x, s.sequence)
  <2> SUFFICES ASSUME NEW x \in s.schedule PROVE Sound(x, s.sequence)
    OBVIOUS
  <2>1. Sound(x, s0.sequence) /\ x.ref \in Nat
    BY <1>3, <1>1 DEF Good, States, Planned
  <2>2. QED
    BY <1>1, <1>3, <2>1 DEF Sound
<1>5. ASSUME NEW ag \in Agents
      PROVE  s.agents[ag].plan <= s.sequence /\ Fine(s.agents[ag], Of(s.schedule, ag), F)
  <2>1. s0.agents[ag].plan <= s0.sequence /\ Fine(s0.agents[ag], Of(s0.schedule, ag), F)
    BY DEF Good
  <2>2. s0.agents[ag].plan \in Nat
    BY <1>1 DEF States, Stored
  <2>3. QED
    BY <2>1, <2>2, <1>1, <1>3
<1>6. QED
  BY <1>3, <1>4, <1>5 DEF Good

LEMMA KindsAre == DOMAIN Priority = KindNames
  BY DEF KindNames, Priority

(* Kinds of actions that have no columns of their own.                     *)
Plain == {"rest.complete", "agent.decide", "agent.rest", "agent.travel"}

(* An action other than a crossing that event number n puts on the schedule*)
LEMMA NewAction ==
  ASSUME NEW ag \in Agents, NEW due \in Nat, NEW n \in Nat, NEW kind \in Plain,
         NEW x, x = Action(kind, ag, due, n)
  PROVE  x \in Planned /\ Sound(x, n) /\ x.kind = kind /\ x.agent = ag /\ x.ref = n
<1>1. x.kind = kind /\ x.agent = ag /\ x.ref = n
  BY DEF Action
<1>2. x \in Planned
  BY DEF Action, Planned, KindNames, Plain
<1>3. Sound(x, n)
  <2>1. kind \in KindNames
    BY DEF Plain, KindNames
  <2>2. kind \in DOMAIN Priority
    BY <2>1, KindsAre
  <2>3. x.kind # "journey.complete" /\ x.kind # "agent.eat" /\ x.kind # "need.threshold"
    BY <1>1 DEF Plain
  <2>4. Formed(x)
    BY <1>1, <2>2, <2>3, Zenon DEF Formed
  <2>5. QED
    BY <2>4, <1>1 DEF Sound
<1>4. QED
  BY <1>1, <1>2, <1>3

(* So are an arrival, a meal and a crossing.                               *)
LEMMA NewArrival ==
  ASSUME NEW ag \in Agents, NEW due \in Nat, NEW n \in Nat, NEW r \in Routes,
         NEW x, x = Arrival(ag, due, n, r)
  PROVE  /\ x \in Planned /\ Sound(x, n)
         /\ x.kind = "journey.complete" /\ x.agent = ag /\ x.ref = n /\ x.route = r
<1>1. x.kind = "journey.complete" /\ x.agent = ag /\ x.ref = n /\ x.route = r
  BY DEF Action, Arrival
<1>2. x \in Planned
  BY DEF Action, Arrival, Planned, KindNames
<1>3. Formed(x)
  <2>1. "journey.complete" \in DOMAIN Priority
    BY KindsAre DEF KindNames
  <2>2. QED
    BY <1>1, <2>1, Zenon DEF Formed
<1>4. QED
  BY <1>1, <1>2, <1>3 DEF Sound

LEMMA NewMeal ==
  ASSUME NEW ag \in Agents, NEW due \in Nat, NEW n \in Nat, NEW i \in DOMAIN Food,
         NEW x, x = Meal(ag, due, n, i)
  PROVE  /\ x \in Planned /\ Sound(x, n)
         /\ x.kind = "agent.eat" /\ x.agent = ag /\ x.ref = n
<1>1. x.kind = "agent.eat" /\ x.agent = ag /\ x.ref = n /\ x.item = i
  BY DEF Action, Meal
<1>2. x \in Planned
  BY DEF Action, Meal, Planned, KindNames
<1>3. Formed(x)
  <2>1. "agent.eat" \in DOMAIN Priority
    BY KindsAre DEF KindNames
  <2>2. QED
    BY <1>1, <2>1, Zenon DEF Formed
<1>4. QED
  BY <1>1, <1>2, <1>3 DEF Sound

LEMMA NewCrossing ==
  ASSUME NEW ag \in Agents, NEW due \in Nat, NEW n \in Nat, NEW need \in Needs,
         NEW level \in {"warning", "critical"},
         NEW x, x = Crossing(ag, need, due, level)
  PROVE  /\ x \in Planned /\ Sound(x, n)
         /\ x.kind = "need.threshold" /\ x.agent = ag
<1>1. x.kind = "need.threshold" /\ x.agent = ag /\ x.need = need /\ x.level = level
  BY DEF Crossing, Action
<1>2. x \in Planned
  BY DEF Crossing, Action, Planned, KindNames, Needs
<1>3. Formed(x)
  <2>1. "need.threshold" \in DOMAIN Priority
    BY KindsAre DEF KindNames
  <2>2. QED
    BY <1>1, <2>1, Zenon DEF Formed
<1>4. QED
  BY <1>1, <1>2, <1>3 DEF Sound

(* What is known of an agent of a good state.                              *)
LEMMA Parts ==
  ASSUME NEW s, NEW F, Good(s, F), NEW g \in Agents
  PROVE  /\ s \in States /\ s.time \in Nat /\ s.sequence \in Nat /\ s.items \in ItemMaps
         /\ s.agents \in [Agents -> Stored] /\ s.agents[g] \in Stored
         /\ s.schedule \in SUBSET Planned
         /\ s.agents[g].plan <= s.sequence /\ Fine(s.agents[g], Of(s.schedule, g), F)
  BY DEF Good, States

(* The state in which agent g has become b, and actions have gone and come.*)
Moved(s, g, b, Gone, New) ==
  [s EXCEPT !.agents = [s.agents EXCEPT ![g] = b], !.schedule = (s.schedule \ Gone) \cup New]

LEMMA MovedIsState ==
  ASSUME NEW s \in States, NEW g \in Agents, NEW b \in Stored, NEW Gone, NEW New \in SUBSET Planned
  PROVE  LET t == Moved(s, g, b, Gone, New)
         IN /\ t \in States /\ t.time = s.time /\ t.sequence = s.sequence
            /\ t.agents = [s.agents EXCEPT ![g] = b] /\ t.schedule = (s.schedule \ Gone) \cup New
<1>1. PICK A : A = [s.agents EXCEPT ![g] = b]
  OBVIOUS
<1>2. A \in [Agents -> Stored]
  BY <1>1 DEF States
<1>3. PICK Y : Y = (s.schedule \ Gone) \cup New
  OBVIOUS
<1>4. Y \in SUBSET Planned
  BY <1>3 DEF States
<1>5. PICK t : t = [s EXCEPT !.agents = A, !.schedule = Y]
  OBVIOUS
<1>6. t \in States /\ t.time = s.time /\ t.sequence = s.sequence /\ t.agents = A /\ t.schedule = Y
  BY <1>2, <1>4, <1>5 DEF States
<1>7. t = Moved(s, g, b, Gone, New)
  BY <1>1, <1>3, <1>5 DEF Moved
<1>8. QED
  BY <1>1, <1>3, <1>6, <1>7

(* It is good if the agent and his actions are.                            *)
LEMMA MovedIsGood ==
  ASSUME NEW s, NEW F, Good(s, F), NEW g \in Agents, NEW b \in Stored, b.plan <= s.sequence,
         NEW Gone, \A x \in Gone : x.agent = g,
         NEW New \in SUBSET Planned, \A x \in New : x.agent = g /\ Sound(x, s.sequence),
         Fine(b, (Of(s.schedule, g) \ Gone) \cup New, F),
         NEW t, t = Moved(s, g, b, Gone, New)
  PROVE  Good(t, F) /\ t.time = s.time /\ t.sequence = s.sequence
<1>1. s \in States
  BY DEF Good
<1>2. /\ t \in States /\ t.time = s.time /\ t.sequence = s.sequence
      /\ t.agents = [s.agents EXCEPT ![g] = b] /\ t.schedule = (s.schedule \ Gone) \cup New
  BY <1>1, MovedIsState
<1>3. \A ag \in Agents : ag # g => Of(t.schedule, ag) = Of(s.schedule, ag)
  BY <1>2 DEF Of
<1>4. Of(t.schedule, g) = (Of(s.schedule, g) \ Gone) \cup New
  BY <1>2 DEF Of
<1>5. \A x \in t.schedule : x \in s.schedule \/ Sound(x, s.sequence)
  BY <1>2
<1>6. Fine(b, Of(t.schedule, g), F)
  BY <1>4
<1>7. Good(t, F)
  BY <1>2, <1>3, <1>5, <1>6, Frame
<1>8. QED
  BY <1>2, <1>7

-----------------------------------------------------------------------------
(* What a change of an agent and of his part of the schedule leaves of the *)
(* bond between the two.                                                   *)

(* Kinds of actions that are tied to a status or a goal.                   *)
Vital == {"journey.complete", "rest.complete", "agent.eat", "agent.rest", "agent.travel"}

(* Other actions come and go.                                              *)
LEMMA FineSame ==
  ASSUME NEW a \in Stored, NEW b \in Stored, NEW X \in SUBSET Planned, NEW F, Fine(a, X, F),
         b.status = a.status, b.route = a.route, b.goal = a.goal, b.plan = a.plan,
         NEW Gone, \A x \in Gone : x.kind \notin Vital,
         NEW New \in SUBSET Planned, \A x \in New : x.kind \notin Vital
  PROVE  Fine(b, (X \ Gone) \cup New, F)
<1> DEFINE Y == (X \ Gone) \cup New
<1>1. \A x : x.kind \in Vital => (x \in X <=> x \in Y)
  OBVIOUS
<1> HIDE DEF Y
<1>2. \A x \in Y : x.kind = "journey.complete" => x.route = b.route
  BY <1>1 DEF Fine, Vital
<1>3. b.status = "traveling" <=> \E x \in Y : x.kind = "journey.complete"
  BY <1>1 DEF Fine, Vital
<1>4. b.status = "resting" <=> \E x \in Y : x.kind = "rest.complete"
  BY <1>1 DEF Fine, Vital
<1>5. \A x, y \in Y : x.kind \in NamedByEvent /\ y.kind = x.kind => x = y
  BY <1>1 DEF Fine, Vital, NamedByEvent
<1>6. b.goal = "idle" <=> b.plan = 0
  BY DEF Fine
<1>7. b.status = "idle" /\ b.goal # "idle" => \E x \in Y : x.kind \in Steps /\ x \notin F
  BY <1>1 DEF Fine, Vital, Steps
<1>8. Fine(b, Y, F)
  BY <1>2, <1>3, <1>4, <1>5, <1>6, <1>7 DEF Fine
<1>9. QED
  BY <1>8 DEF Y

(* Whoever sets out, or lies down, is given the action that ends it.       *)
LEMMA FineLeaving ==
  ASSUME NEW a \in Stored, NEW b \in Stored, NEW X \in SUBSET Planned, NEW F, Fine(a, X, F),
         a.status = "idle",
         b.status = "traveling", b.goal = a.goal, b.plan = a.plan,
         NEW Gone, NEW x \in Planned, x.kind = "journey.complete", x.route = b.route
  PROVE  Fine(b, (X \ Gone) \cup {x}, F)
<1>1. \A y \in X : y.kind # "journey.complete" /\ y.kind # "rest.complete"
  BY DEF Fine
<1>2. \E y \in (X \ Gone) \cup {x} : y.kind = "journey.complete"
  OBVIOUS
<1>3. \A y \in (X \ Gone) \cup {x} : y.kind = "journey.complete" => y.route = b.route
  BY <1>1
<1>4. ~ \E y \in (X \ Gone) \cup {x} : y.kind = "rest.complete"
  BY <1>1
<1>5. \A y, z \in (X \ Gone) \cup {x} : y.kind \in NamedByEvent /\ z.kind = y.kind => y = z
  BY <1>1 DEF NamedByEvent
<1>6. b.goal = "idle" <=> b.plan = 0
  BY DEF Fine
<1>7. QED
  BY <1>2, <1>3, <1>4, <1>5, <1>6 DEF Fine

LEMMA FineLying ==
  ASSUME NEW a \in Stored, NEW b \in Stored, NEW X \in SUBSET Planned, NEW F, Fine(a, X, F),
         a.status = "idle",
         b.status = "resting", b.goal = a.goal, b.plan = a.plan,
         NEW Gone, NEW x \in Planned, x.kind = "rest.complete"
  PROVE  Fine(b, (X \ Gone) \cup {x}, F)
<1>1. \A y \in X : y.kind # "journey.complete" /\ y.kind # "rest.complete"
  BY DEF Fine
<1>2. \E y \in (X \ Gone) \cup {x} : y.kind = "rest.complete"
  OBVIOUS
<1>3. \A y \in (X \ Gone) \cup {x} : y.kind # "journey.complete"
  BY <1>1
<1>4. \A y, z \in (X \ Gone) \cup {x} : y.kind \in NamedByEvent /\ z.kind = y.kind => y = z
  BY <1>1 DEF NamedByEvent
<1>5. b.goal = "idle" <=> b.plan = 0
  BY DEF Fine
<1>6. QED
  BY <1>2, <1>3, <1>4, <1>5 DEF Fine

(* Whoever is back has nothing on the schedule that would bring him back.  *)
LEMMA FineBack ==
  ASSUME NEW b \in Stored, NEW X, NEW F, b.status = "idle", b.goal = "idle", b.plan = 0,
         \A x \in X : x.kind \notin NamedByEvent
  PROVE  Fine(b, X, F)
  BY DEF Fine, NamedByEvent

(* A goal that is consumed, given up or chosen.                            *)
LEMMA FineEaten ==
  ASSUME NEW a \in Stored, NEW b \in Stored, NEW X \in SUBSET Planned, NEW F, Fine(a, X, F),
         b.status = a.status, b.route = a.route, b.goal = "idle", b.plan = 0,
         NEW Gone, \A x \in Gone : x.kind \notin NamedByEvent
  PROVE  Fine(b, (X \ Gone) \cup {}, F)
  BY DEF Fine, NamedByEvent

LEMMA FineGivenUp ==
  ASSUME NEW a \in Stored, NEW b \in Stored, NEW X \in SUBSET Planned, NEW F, Fine(a, X, F),
         b.status = IF a.status = "resting" THEN "idle" ELSE a.status,
         b.route = a.route, b.goal = "idle", b.plan = 0,
         NEW Gone, \A x \in Gone : x.kind # "journey.complete",
         \A x \in X : x.kind = "rest.complete" => x \in Gone
  PROVE  Fine(b, (X \ Gone) \cup {}, F)
  BY DEF Fine, NamedByEvent, Stored, Statuses

LEMMA FineChosen ==
  ASSUME NEW a \in Stored, NEW b \in Stored, NEW X \in SUBSET Planned, NEW F, Fine(a, X, F),
         b.status = a.status, b.route = a.route, b.goal = "idle" <=> b.plan = 0,
         NEW Gone, \A x \in Gone : x.kind \notin NamedByEvent,
         NEW New \in SUBSET Planned, \A x \in New : x.kind \in Steps /\ x \notin F,
         b.goal # "idle" => New # {}
  PROVE  Fine(b, (X \ Gone) \cup New, F)
<1> DEFINE Y == (X \ Gone) \cup New
<1>1. \A x : x.kind \in NamedByEvent => (x \in X <=> x \in Y)
  BY DEF Steps, NamedByEvent
<1>2. b.goal # "idle" => \E x \in Y : x.kind \in Steps /\ x \notin F
  OBVIOUS
<1> HIDE DEF Y
<1>3. \A x \in Y : x.kind = "journey.complete" => x.route = b.route
  BY <1>1 DEF Fine, NamedByEvent
<1>4. b.status = "traveling" <=> \E x \in Y : x.kind = "journey.complete"
  BY <1>1 DEF Fine, NamedByEvent
<1>5. b.status = "resting" <=> \E x \in Y : x.kind = "rest.complete"
  BY <1>1 DEF Fine, NamedByEvent
<1>6. \A x, y \in Y : x.kind \in NamedByEvent /\ y.kind = x.kind => x = y
  BY <1>1 DEF Fine
<1>7. Fine(b, Y, F)
  BY <1>2, <1>3, <1>4, <1>5, <1>6 DEF Fine
<1>8. QED
  BY <1>7 DEF Y

-----------------------------------------------------------------------------
(* What each function of evolve changes: one agent, what it takes off his  *)
(* part of the schedule and what it adds.                                  *)

(* withDecisionScheduled.                                                  *)
LEMMA WithDecisionIsMove ==
  ASSUME NEW s \in States, NEW e, e.agent \in Agents, Free(s.agents[e.agent])
  PROVE  WithDecision(s, e) =
           Moved(s, e.agent, s.agents[e.agent],
                 {x \in Of(s.schedule, e.agent) : x.kind \in {"agent.decide"}},
                 {Action("agent.decide", e.agent, e.at, s.sequence)})
<1>1. s.agents = [s.agents EXCEPT ![e.agent] = s.agents[e.agent]]
  BY DEF States
<1>2. PICK Y : Y = Without(s.schedule, e.agent, {"agent.decide"}) \cup
                 {Action("agent.decide", e.agent, e.at, s.sequence)}
  OBVIOUS
<1>3. WithDecision(s, e) = [s EXCEPT !.schedule = Y]
  BY <1>2 DEF WithDecision
<1>4. [s EXCEPT !.schedule = Y] = [s EXCEPT !.agents = s.agents, !.schedule = Y]
  BY DEF States
<1>5. QED
  BY <1>1, <1>2, <1>3, <1>4 DEF Moved, Without

LEMMA WithDecisionIsGood ==
  ASSUME NEW s, NEW F, Good(s, F), NEW e, e.agent \in Agents, e.at \in Nat,
         NEW t, t = WithDecision(s, e)
  PROVE  Good(t, F) /\ t.time = s.time /\ t.sequence = s.sequence
<1>1. CASE ~Free(s.agents[e.agent])
  BY <1>1 DEF WithDecision
<1>2. CASE Free(s.agents[e.agent])
  <2>1. PICK g \in Agents : g = e.agent
    OBVIOUS
  <2>2. PICK X : X = Of(s.schedule, g)
    OBVIOUS
  <2>3. PICK a : a = s.agents[g]
    OBVIOUS
  <2>4. s \in States /\ s.sequence \in Nat /\ a \in Stored /\ X \in SUBSET Planned
        /\ a.plan <= s.sequence /\ Fine(a, X, F)
    BY <2>2, <2>3, Parts DEF Of
  <2>5. PICK x : x = Action("agent.decide", g, e.at, s.sequence)
    OBVIOUS
  <2>6. x \in Planned /\ Sound(x, s.sequence) /\ x.kind = "agent.decide" /\ x.agent = g
    BY <2>4, <2>5, NewAction DEF Plain
  <2>7. PICK Gone : Gone = {y \in X : y.kind \in {"agent.decide"}}
    OBVIOUS
  <2>8. Fine(a, (X \ Gone) \cup {x}, F)
    <3>1. \A y \in Gone : y.kind \notin Vital
      BY <2>7 DEF Vital
    <3>2. {x} \in SUBSET Planned /\ \A y \in {x} : y.kind \notin Vital
      BY <2>6 DEF Vital
    <3>3. QED
      BY <2>4, <3>1, <3>2, FineSame
  <2>9. t = Moved(s, g, a, Gone, {x})
    BY <1>2, <2>1, <2>2, <2>3, <2>4, <2>5, <2>7, WithDecisionIsMove
  <2>10. /\ \A y \in Gone : y.agent = g
         /\ \A y \in {x} : y.agent = g /\ Sound(y, s.sequence)
         /\ {x} \in SUBSET Planned
    BY <2>2, <2>6, <2>7 DEF Of
  <2>11. QED
    BY <2>2, <2>4, <2>8, <2>9, <2>10, MovedIsGood
<1>3. QED
  BY <1>1, <1>2

(* applyJourneyStarted.                                                    *)
OffTo(a, r) == [a EXCEPT !.status = "traveling", !.route = r]

LEMMA OffToIsStored ==
  ASSUME NEW a \in Stored, NEW r \in Routes, NEW b, b = OffTo(a, r)
  PROVE  b \in Stored /\ b.status = "traveling" /\ b.route = r /\ b.goal = a.goal /\ b.plan = a.plan
  BY DEF OffTo, Stored, Statuses

LEMMA JourneyStartedIsMove ==
  ASSUME NEW s \in States, NEW e, e.agent \in Agents
  PROVE  JourneyStarted(s, e) =
           Moved(s, e.agent, OffTo(s.agents[e.agent], e.payload.route),
                 {x \in Of(s.schedule, e.agent) : x.kind \in {"agent.travel"}},
                 {Arrival(e.agent, e.payload.arrival, s.sequence, e.payload.route)})
  BY DEF JourneyStarted, Moved, OffTo, Without, States

LEMMA JourneyStartedIsGood ==
  ASSUME NEW s, NEW F, Good(s, F), NEW e, e.agent \in Agents,
         e.payload.route \in Routes, e.payload.arrival \in Nat,
         s.agents[e.agent].status = "idle",
         NEW t, t = JourneyStarted(s, e)
  PROVE  Good(t, F) /\ t.time = s.time /\ t.sequence = s.sequence
<1>1. PICK g \in Agents : g = e.agent
  OBVIOUS
<1>2. PICK r \in Routes : r = e.payload.route
  OBVIOUS
<1>3. PICK X : X = Of(s.schedule, g)
  OBVIOUS
<1>4. PICK a : a = s.agents[g]
  OBVIOUS
<1>5. s \in States /\ s.sequence \in Nat /\ a \in Stored /\ X \in SUBSET Planned
      /\ a.plan <= s.sequence /\ Fine(a, X, F)
  BY <1>3, <1>4, Parts DEF Of
<1>6. PICK b : b = OffTo(a, r)
  OBVIOUS
<1>7. b \in Stored /\ b.status = "traveling" /\ b.route = r /\ b.goal = a.goal /\ b.plan = a.plan
  BY <1>5, <1>6, OffToIsStored
<1>8. PICK x : x = Arrival(g, e.payload.arrival, s.sequence, r)
  OBVIOUS
<1>9. /\ x \in Planned /\ Sound(x, s.sequence)
      /\ x.kind = "journey.complete" /\ x.agent = g /\ x.route = r
  BY <1>5, <1>8, NewArrival
<1>10. PICK Gone : Gone = {y \in X : y.kind \in {"agent.travel"}}
  OBVIOUS
<1>11. Fine(b, (X \ Gone) \cup {x}, F)
  BY <1>1, <1>4, <1>5, <1>7, <1>9, FineLeaving
<1>12. t = Moved(s, g, b, Gone, {x})
  BY <1>1, <1>2, <1>3, <1>4, <1>5, <1>6, <1>8, <1>10, JourneyStartedIsMove
<1>13. /\ \A y \in Gone : y.agent = g
       /\ \A y \in {x} : y.agent = g /\ Sound(y, s.sequence)
       /\ b.plan <= s.sequence /\ {x} \in SUBSET Planned
  BY <1>3, <1>5, <1>7, <1>9, <1>10 DEF Of
<1>14. QED
  BY <1>3, <1>7, <1>11, <1>12, <1>13, MovedIsGood

(* applyRestStarted.                                                       *)
LyingDown(a) == [a EXCEPT !.status = "resting"]

LEMMA LyingDownIsStored ==
  ASSUME NEW a \in Stored, NEW b, b = LyingDown(a)
  PROVE  b \in Stored /\ b.status = "resting" /\ b.goal = a.goal /\ b.plan = a.plan
  BY DEF LyingDown, Stored, Statuses

LEMMA RestStartedIsMove ==
  ASSUME NEW s \in States, NEW e, e.agent \in Agents
  PROVE  RestStarted(s, e) =
           Moved(s, e.agent, LyingDown(s.agents[e.agent]),
                 {x \in Of(s.schedule, e.agent) : x.kind \in {"agent.rest"}},
                 {Action("rest.complete", e.agent, e.payload.ending, s.sequence)})
  BY DEF RestStarted, Moved, LyingDown, Without, States

LEMMA RestStartedIsGood ==
  ASSUME NEW s, NEW F, Good(s, F), NEW e, e.agent \in Agents, e.payload.ending \in Nat,
         s.agents[e.agent].status = "idle",
         NEW t, t = RestStarted(s, e)
  PROVE  Good(t, F) /\ t.time = s.time /\ t.sequence = s.sequence
<1>1. PICK g \in Agents : g = e.agent
  OBVIOUS
<1>2. PICK X : X = Of(s.schedule, g)
  OBVIOUS
<1>3. PICK a : a = s.agents[g]
  OBVIOUS
<1>4. s \in States /\ s.sequence \in Nat /\ a \in Stored /\ X \in SUBSET Planned
      /\ a.plan <= s.sequence /\ Fine(a, X, F)
  BY <1>2, <1>3, Parts DEF Of
<1>5. PICK b : b = LyingDown(a)
  OBVIOUS
<1>6. b \in Stored /\ b.status = "resting" /\ b.goal = a.goal /\ b.plan = a.plan
  BY <1>4, <1>5, LyingDownIsStored
<1>7. PICK x : x = Action("rest.complete", g, e.payload.ending, s.sequence)
  OBVIOUS
<1>8. x \in Planned /\ Sound(x, s.sequence) /\ x.kind = "rest.complete" /\ x.agent = g
  BY <1>4, <1>7, NewAction DEF Plain
<1>9. PICK Gone : Gone = {y \in X : y.kind \in {"agent.rest"}}
  OBVIOUS
<1>10. Fine(b, (X \ Gone) \cup {x}, F)
  BY <1>1, <1>3, <1>4, <1>6, <1>8, FineLying
<1>11. t = Moved(s, g, b, Gone, {x})
  BY <1>1, <1>2, <1>3, <1>4, <1>5, <1>7, <1>9, RestStartedIsMove
<1>12. /\ \A y \in Gone : y.agent = g
       /\ \A y \in {x} : y.agent = g /\ Sound(y, s.sequence)
       /\ b.plan <= s.sequence /\ {x} \in SUBSET Planned
  BY <1>2, <1>4, <1>6, <1>8, <1>9 DEF Of
<1>13. QED
  BY <1>2, <1>6, <1>10, <1>11, <1>12, MovedIsGood

(* Only one action has the id of the arrival, or of the end of the rest.   *)
LEMMA OnlyOne ==
  ASSUME NEW s, NEW F, Good(s, F), NEW g \in Agents,
         NEW x \in s.schedule, x.agent = g, x.kind \in NamedByEvent
  PROVE  {y \in s.schedule : Id(y) \in {Id(x)}} = {x}
<1> SUFFICES ASSUME NEW y \in s.schedule, Id(y) = Id(x) PROVE y = x
  OBVIOUS
<1>1. x \in Planned /\ y \in Planned
  BY Parts
<1>2. Id(x) = <<x.kind, x.agent, x.ref>>
  BY DEF Id, NamedByEvent
<1>3. y.kind # "need.threshold"
  <2> SUFFICES ASSUME y.kind = "need.threshold" PROVE FALSE
    OBVIOUS
  <2>1. Id(y) = <<y.kind, y.agent, y.need, y.due>>
    BY DEF Id
  <2>2. Len(Id(y)) = 4 /\ Len(Id(x)) = 3
    BY <1>2, <2>1
  <2>3. QED
    BY <2>2
<1>4. Id(y) = <<y.kind, y.agent, y.ref>>
  BY <1>3 DEF Id
<1>5. y.kind = x.kind /\ y.agent = g
  BY <1>2, <1>4
<1>6. x \in Of(s.schedule, g) /\ y \in Of(s.schedule, g)
  BY <1>5 DEF Of
<1>7. Fine(s.agents[g], Of(s.schedule, g), F)
  BY Parts
<1>8. QED
  BY <1>5, <1>6, <1>7 DEF Fine

(* applyJourneyCompleted.                                                  *)
Arrived(a, place) == [a EXCEPT !.status = "idle", !.route = 0, !.place = place,
                               !.goal = "idle", !.plan = 0]

LEMMA ArrivedIsStored ==
  ASSUME NEW a \in Stored, NEW place \in Places, NEW b, b = Arrived(a, place)
  PROVE  b \in Stored /\ b.status = "idle" /\ b.goal = "idle" /\ b.plan = 0
  BY DEF Arrived, Stored, Statuses, GoalNames

LEMMA JourneyCompletedIsMove ==
  ASSUME NEW s \in States, NEW e, e.agent \in Agents
  PROVE  JourneyCompleted(s, e) =
           WithDecision(
             Moved(s, e.agent, Arrived(s.agents[e.agent], RouteTo[e.payload.route]),
                   {x \in s.schedule : Id(x) \in e.caused}, {}), e)
<1>1. {x \in s.schedule : Id(x) \notin e.caused} =
        (s.schedule \ {x \in s.schedule : Id(x) \in e.caused}) \cup {}
  OBVIOUS
<1>2. PICK Y : Y = {x \in s.schedule : Id(x) \notin e.caused}
  OBVIOUS
<1>3. PICK u : u = [s EXCEPT !.agents[e.agent] =
                [@ EXCEPT !.status = "idle", !.route = 0, !.place = RouteTo[e.payload.route],
                          !.goal = "idle", !.plan = 0],
              !.schedule = Y]
  OBVIOUS
<1>4. JourneyCompleted(s, e) = WithDecision(u, e)
  BY <1>2, <1>3, Zenon DEF JourneyCompleted
<1>5. u = Moved(s, e.agent, Arrived(s.agents[e.agent], RouteTo[e.payload.route]),
                   {x \in s.schedule : Id(x) \in e.caused}, {})
  BY <1>1, <1>2, <1>3 DEF Moved, Arrived, States
<1>6. QED
  BY <1>4, <1>5

(* Whoever arrives, or gets up, has nothing on his schedule any more that  *)
(* would end a journey or a rest.                                          *)
LEMMA NothingLeft ==
  ASSUME NEW a, NEW X, NEW F, Fine(a, X, F), NEW x \in X, x.kind \in NamedByEvent
  PROVE  \A y \in (X \ {x}) \cup {} : y.kind \notin NamedByEvent
  BY DEF Fine, NamedByEvent

LEMMA JourneyCompletedIsGood ==
  ASSUME NEW s, NEW F, Good(s, F), NEW e, e.agent \in Agents, e.at \in Nat,
         e.payload.route \in Routes,
         NEW x \in s.schedule, x.kind = "journey.complete", x.agent = e.agent, e.caused = {Id(x)},
         NEW t, t = JourneyCompleted(s, e)
  PROVE  Good(t, F) /\ t.time = s.time /\ t.sequence = s.sequence
<1>1. PICK g \in Agents : g = e.agent
  OBVIOUS
<1>2. PICK X : X = Of(s.schedule, g)
  OBVIOUS
<1>3. PICK a : a = s.agents[g]
  OBVIOUS
<1>4. s \in States /\ s.sequence \in Nat /\ a \in Stored /\ X \in SUBSET Planned
      /\ a.plan <= s.sequence /\ Fine(a, X, F)
  BY <1>2, <1>3, Parts DEF Of
<1>5. PICK place \in Places : place = RouteTo[e.payload.route]
  BY RulesAssumption DEF ValidMap
<1>6. PICK b : b = Arrived(a, place)
  OBVIOUS
<1>7. b \in Stored /\ b.status = "idle" /\ b.goal = "idle" /\ b.plan = 0
  BY <1>4, <1>6, ArrivedIsStored
<1>8. {y \in s.schedule : Id(y) \in e.caused} = {x}
  BY <1>1, OnlyOne DEF NamedByEvent
<1>9. x \in X
  BY <1>1, <1>2 DEF Of
<1>10. Fine(b, (X \ {x}) \cup {}, F)
  <2>1. \A y \in (X \ {x}) \cup {} : y.kind \notin NamedByEvent
    BY <1>4, <1>9, NothingLeft DEF NamedByEvent
  <2>2. QED
    BY <1>7, <2>1, FineBack
<1>11. PICK u : u = Moved(s, g, b, {x}, {})
  OBVIOUS
<1>12. Good(u, F) /\ u.time = s.time /\ u.sequence = s.sequence
  <2>1. b.plan <= s.sequence /\ \A y \in {x} : y.agent = g
    BY <1>1, <1>4, <1>7
  <2>2. QED
    BY <1>2, <1>7, <1>10, <1>11, <2>1, MovedIsGood
<1>13. t = WithDecision(u, e)
  BY <1>1, <1>3, <1>4, <1>5, <1>6, <1>8, <1>11, JourneyCompletedIsMove
<1>14. QED
  BY <1>12, <1>13, WithDecisionIsGood

(* applyAgentRested.                                                       *)
RisenWith(a, baseline) ==
  [a EXCEPT !.status = "idle", !.goal = "idle", !.plan = 0, !.baseline = baseline]
Risen(a, at) == RisenWith(a, [a.baseline EXCEPT !.fatigue = at])

LEMMA RisenWithIsStored ==
  ASSUME NEW a \in Stored, NEW baseline \in [Needs -> Nat], NEW b, b = RisenWith(a, baseline)
  PROVE  b \in Stored /\ b.status = "idle" /\ b.goal = "idle" /\ b.plan = 0
<1>1. b \in Stored
  BY DEF RisenWith, Stored, Statuses, GoalNames
<1>2. QED
  BY <1>1 DEF RisenWith, Stored

LEMMA RisenIsStored ==
  ASSUME NEW a \in Stored, NEW at \in Nat, NEW b, b = Risen(a, at)
  PROVE  b \in Stored /\ b.status = "idle" /\ b.goal = "idle" /\ b.plan = 0
<1>1. PICK l : l = [a.baseline EXCEPT !.fatigue = at]
  OBVIOUS
<1>2. l \in [Needs -> Nat]
  BY <1>1 DEF Stored, Needs
<1>3. b = RisenWith(a, l)
  BY <1>1 DEF Risen
<1>4. QED
  BY <1>2, <1>3, RisenWithIsStored

LEMMA AgentRestedIsMove ==
  ASSUME NEW s \in States, NEW e, e.agent \in Agents
  PROVE  AgentRested(s, e) =
           WithDecision(
             Moved(s, e.agent, Risen(s.agents[e.agent], e.at),
                   {x \in s.schedule : Id(x) \in e.caused}, {}), e)
<1>1. {x \in s.schedule : Id(x) \notin e.caused} =
        (s.schedule \ {x \in s.schedule : Id(x) \in e.caused}) \cup {}
  OBVIOUS
<1>2. PICK Y : Y = {x \in s.schedule : Id(x) \notin e.caused}
  OBVIOUS
<1>3. PICK u : u = [s EXCEPT !.schedule = Y, !.agents[e.agent] =
                [@ EXCEPT !.status = "idle", !.goal = "idle", !.plan = 0,
                          !.baseline.fatigue = e.at]]
  OBVIOUS
<1>4. AgentRested(s, e) = WithDecision(u, e)
  BY <1>2, <1>3, Zenon DEF AgentRested
<1>5. PICK b : b = Risen(s.agents[e.agent], e.at)
  OBVIOUS
<1>6. u = [s EXCEPT !.schedule = Y, !.agents[e.agent] = b]
  BY <1>3, <1>5 DEF Risen, RisenWith
<1>7. u = Moved(s, e.agent, b, {x \in s.schedule : Id(x) \in e.caused}, {})
  BY <1>1, <1>2, <1>6 DEF Moved, States
<1>8. QED
  BY <1>4, <1>5, <1>7

LEMMA AgentRestedIsGood ==
  ASSUME NEW s, NEW F, Good(s, F), NEW e, e.agent \in Agents, e.at \in Nat,
         NEW x \in s.schedule, x.kind = "rest.complete", x.agent = e.agent, e.caused = {Id(x)},
         NEW t, t = AgentRested(s, e)
  PROVE  Good(t, F) /\ t.time = s.time /\ t.sequence = s.sequence
<1>1. PICK g \in Agents : g = e.agent
  OBVIOUS
<1>2. PICK X : X = Of(s.schedule, g)
  OBVIOUS
<1>3. PICK a : a = s.agents[g]
  OBVIOUS
<1>4. s \in States /\ s.sequence \in Nat /\ a \in Stored /\ X \in SUBSET Planned
      /\ a.plan <= s.sequence /\ Fine(a, X, F)
  BY <1>2, <1>3, Parts DEF Of
<1>5. PICK b : b = Risen(a, e.at)
  OBVIOUS
<1>6. b \in Stored /\ b.status = "idle" /\ b.goal = "idle" /\ b.plan = 0
  BY <1>4, <1>5, RisenIsStored
<1>7. {y \in s.schedule : Id(y) \in e.caused} = {x}
  BY <1>1, OnlyOne DEF NamedByEvent
<1>8. x \in X
  BY <1>1, <1>2 DEF Of
<1>9. Fine(b, (X \ {x}) \cup {}, F)
  <2>1. \A y \in (X \ {x}) \cup {} : y.kind \notin NamedByEvent
    BY <1>4, <1>8, NothingLeft DEF NamedByEvent
  <2>2. QED
    BY <1>6, <2>1, FineBack
<1>10. PICK u : u = Moved(s, g, b, {x}, {})
  OBVIOUS
<1>11. Good(u, F) /\ u.time = s.time /\ u.sequence = s.sequence
  <2>1. b.plan <= s.sequence /\ \A y \in {x} : y.agent = g
    BY <1>1, <1>4, <1>6
  <2>2. QED
    BY <1>2, <1>6, <1>9, <1>10, <2>1, MovedIsGood
<1>12. t = WithDecision(u, e)
  BY <1>1, <1>3, <1>4, <1>5, <1>7, <1>10, AgentRestedIsMove
<1>13. QED
  BY <1>11, <1>12, WithDecisionIsGood

(* applyNeedThresholdCrossed.                                              *)
LEMMA NeedThresholdCrossedIsMove ==
  ASSUME NEW s \in States, NEW e, e.agent \in Agents
  PROVE  NeedThresholdCrossed(s, e) =
           WithDecision(
             Moved(s, e.agent, s.agents[e.agent],
                   {x \in Of(s.schedule, e.agent) :
                      x.kind = "need.threshold" /\ x.need = e.payload.need},
                   {Crossing(e.agent, e.payload.need, due, Worse(e.payload.level)) :
                      due \in e.payload.next}), e)
<1>1. s.agents = [s.agents EXCEPT ![e.agent] = s.agents[e.agent]]
  BY DEF States
<1>2. PICK Y : Y = (s.schedule \ {x \in Of(s.schedule, e.agent) :
                                    x.kind = "need.threshold" /\ x.need = e.payload.need})
              \cup {Crossing(e.agent, e.payload.need, due, Worse(e.payload.level)) :
                      due \in e.payload.next}
  OBVIOUS
<1>3. NeedThresholdCrossed(s, e) = WithDecision([s EXCEPT !.schedule = Y], e)
  BY <1>2 DEF NeedThresholdCrossed
<1>4. [s EXCEPT !.schedule = Y] = [s EXCEPT !.agents = s.agents, !.schedule = Y]
  BY DEF States
<1>5. QED
  BY <1>1, <1>2, <1>3, <1>4 DEF Moved

LEMMA NeedThresholdCrossedIsGood ==
  ASSUME NEW s, NEW F, Good(s, F), NEW e, e.agent \in Agents, e.at \in Nat,
         e.payload.need \in Needs, e.payload.next \in SUBSET Nat,
         NEW t, t = NeedThresholdCrossed(s, e)
  PROVE  Good(t, F) /\ t.time = s.time /\ t.sequence = s.sequence
<1>1. PICK g \in Agents : g = e.agent
  OBVIOUS
<1>2. PICK X : X = Of(s.schedule, g)
  OBVIOUS
<1>3. PICK a : a = s.agents[g]
  OBVIOUS
<1>4. s \in States /\ s.sequence \in Nat /\ a \in Stored /\ X \in SUBSET Planned
      /\ a.plan <= s.sequence /\ Fine(a, X, F)
  BY <1>2, <1>3, Parts DEF Of
<1>5. PICK Gone : Gone = {x \in X : x.kind = "need.threshold" /\ x.need = e.payload.need}
  OBVIOUS
<1>6. PICK New : New = {Crossing(g, e.payload.need, due, Worse(e.payload.level)) :
                          due \in e.payload.next}
  OBVIOUS
<1>7. ASSUME NEW x \in New
      PROVE  x \in Planned /\ Sound(x, s.sequence) /\ x.kind = "need.threshold" /\ x.agent = g
  <2>1. PICK due \in Nat : x = Crossing(g, e.payload.need, due, Worse(e.payload.level))
    BY <1>6, <1>7
  <2>2. Worse(e.payload.level) \in {"warning", "critical"}
    BY DEF Worse
  <2>3. QED
    BY <1>4, <2>1, <2>2, NewCrossing
<1>8. New \in SUBSET Planned /\ \A x \in New : x.kind \notin Vital
  BY <1>7 DEF Vital
<1>9. \A x \in Gone : x.kind \notin Vital
  BY <1>5 DEF Vital
<1>10. Fine(a, (X \ Gone) \cup New, F)
  BY <1>4, <1>8, <1>9, FineSame
<1>11. PICK u : u = Moved(s, g, a, Gone, New)
  OBVIOUS
<1>12. Good(u, F) /\ u.time = s.time /\ u.sequence = s.sequence
  <2>1. \A x \in Gone : x.agent = g
    BY <1>2, <1>5 DEF Of
  <2>2. \A x \in New : x.agent = g /\ Sound(x, s.sequence)
    BY <1>7
  <2>3. QED
    BY <1>2, <1>4, <1>8, <1>10, <1>11, <2>1, <2>2, MovedIsGood
<1>13. t = WithDecision(u, e)
  BY <1>1, <1>2, <1>3, <1>4, <1>5, <1>6, <1>11, NeedThresholdCrossedIsMove
<1>14. QED
  BY <1>12, <1>13, WithDecisionIsGood

(* What is eaten is nobody's any more.                                     *)
Eaten(items0, i) == [j \in DOMAIN items0 \ {i} |-> items0[j]]

LEMMA EatenIsMap ==
  ASSUME NEW f \in ItemMaps, NEW i
  PROVE  Eaten(f, i) \in ItemMaps
<1>1. PICK I \in SUBSET DOMAIN Food : f \in [I -> Agents]
  BY DEF ItemMaps
<1>2. Eaten(f, i) \in [I \ {i} -> Agents]
  BY <1>1 DEF Eaten
<1>3. I \ {i} \in SUBSET DOMAIN Food
  BY <1>1
<1>4. QED
  BY <1>2, <1>3 DEF ItemMaps

(* applyAgentAte.                                                          *)
Keeping(s, f) == [s EXCEPT !.items = f]

LEMMA KeepingIsGood ==
  ASSUME NEW s, NEW F, Good(s, F), NEW f \in ItemMaps, NEW t, t = Keeping(s, f)
  PROVE  Good(t, F) /\ t.time = s.time /\ t.sequence = s.sequence
<1>1. s \in States
  BY DEF Good
<1>2. /\ t \in States /\ t.time = s.time /\ t.sequence = s.sequence
      /\ t.agents = s.agents /\ t.schedule = s.schedule
  BY <1>1 DEF Keeping, States
<1>3. QED
  BY <1>2 DEF Good

FedWith(a, baseline) == [a EXCEPT !.goal = "idle", !.plan = 0, !.baseline = baseline]
Fed(a, at) == FedWith(a, [a.baseline EXCEPT !.hunger = at])

LEMMA FedWithIsStored ==
  ASSUME NEW a \in Stored, NEW baseline \in [Needs -> Nat], NEW b, b = FedWith(a, baseline)
  PROVE  /\ b \in Stored /\ b.status = a.status /\ b.route = a.route
         /\ b.goal = "idle" /\ b.plan = 0
<1>1. b \in Stored
  BY DEF FedWith, Stored, GoalNames
<1>2. QED
  BY <1>1 DEF FedWith, Stored

LEMMA FedIsStored ==
  ASSUME NEW a \in Stored, NEW at \in Nat, NEW b, b = Fed(a, at)
  PROVE  /\ b \in Stored /\ b.status = a.status /\ b.route = a.route
         /\ b.goal = "idle" /\ b.plan = 0
<1>1. PICK l : l = [a.baseline EXCEPT !.hunger = at]
  OBVIOUS
<1>2. l \in [Needs -> Nat]
  BY <1>1 DEF Stored, Needs
<1>3. b = FedWith(a, l)
  BY <1>1 DEF Fed
<1>4. QED
  BY <1>2, <1>3, FedWithIsStored

LEMMA AgentAteIsMove ==
  ASSUME NEW s \in States, NEW e, e.agent \in Agents
  PROVE  AgentAte(s, e) =
           WithDecision(
             Keeping(Moved(s, e.agent, Fed(s.agents[e.agent], e.at),
                           {x \in Of(s.schedule, e.agent) :
                              x.kind = "agent.eat" /\ x.item = e.payload.item}, {}),
                     Eaten(s.items, e.payload.item)), e)
<1>1. PICK Gone : Gone = {x \in Of(s.schedule, e.agent) :
                             x.kind = "agent.eat" /\ x.item = e.payload.item}
  OBVIOUS
<1>2. PICK f : f = Eaten(s.items, e.payload.item)
  OBVIOUS
<1>3. PICK u : u = [s EXCEPT !.items = f, !.schedule = s.schedule \ Gone,
                !.agents[e.agent] =
                  [@ EXCEPT !.goal = "idle", !.plan = 0, !.baseline.hunger = e.at]]
  OBVIOUS
<1>4. AgentAte(s, e) = WithDecision(u, e)
  BY <1>1, <1>2, <1>3, Zenon DEF AgentAte, Eaten
<1>5. PICK b : b = Fed(s.agents[e.agent], e.at)
  OBVIOUS
<1>6. u = [s EXCEPT !.items = f, !.schedule = s.schedule \ Gone, !.agents[e.agent] = b]
  BY <1>3, <1>5 DEF Fed, FedWith
<1>7. s.schedule \ Gone = (s.schedule \ Gone) \cup {}
  OBVIOUS
<1>8. u = Keeping(Moved(s, e.agent, b, Gone, {}), f)
  BY <1>6, <1>7 DEF Moved, Keeping, States
<1>9. QED
  BY <1>1, <1>2, <1>4, <1>5, <1>8

LEMMA AgentAteIsGood ==
  ASSUME NEW s, NEW F, Good(s, F), NEW e, e.agent \in Agents, e.at \in Nat,
         NEW t, t = AgentAte(s, e)
  PROVE  Good(t, F) /\ t.time = s.time /\ t.sequence = s.sequence
<1>1. PICK g \in Agents : g = e.agent
  OBVIOUS
<1>2. PICK X : X = Of(s.schedule, g)
  OBVIOUS
<1>3. PICK a : a = s.agents[g]
  OBVIOUS
<1>4. s \in States /\ s.sequence \in Nat /\ a \in Stored /\ X \in SUBSET Planned
      /\ a.plan <= s.sequence /\ Fine(a, X, F) /\ s.items \in ItemMaps
  BY <1>2, <1>3, Parts DEF Of
<1>5. PICK b : b = Fed(a, e.at)
  OBVIOUS
<1>6. /\ b \in Stored /\ b.status = a.status /\ b.route = a.route
      /\ b.goal = "idle" /\ b.plan = 0
  BY <1>4, <1>5, FedIsStored
<1>7. PICK Gone : Gone = {x \in X : x.kind = "agent.eat" /\ x.item = e.payload.item}
  OBVIOUS
<1>8. Fine(b, (X \ Gone) \cup {}, F)
  <2>1. \A x \in Gone : x.kind \notin NamedByEvent
    BY <1>7 DEF NamedByEvent
  <2>2. QED
    BY <1>4, <1>6, <2>1, FineEaten
<1>9. PICK u : u = Moved(s, g, b, Gone, {})
  OBVIOUS
<1>10. Good(u, F) /\ u.time = s.time /\ u.sequence = s.sequence
  <2>1. b.plan <= s.sequence /\ \A x \in Gone : x.agent = g
    BY <1>2, <1>4, <1>6, <1>7 DEF Of
  <2>2. QED
    BY <1>2, <1>6, <1>8, <1>9, <2>1, MovedIsGood
<1>11. PICK v : v = Keeping(u, Eaten(s.items, e.payload.item))
  OBVIOUS
<1>12. Good(v, F) /\ v.time = s.time /\ v.sequence = s.sequence
  BY <1>4, <1>10, <1>11, EatenIsMap, KeepingIsGood
<1>13. t = WithDecision(v, e)
  BY <1>1, <1>2, <1>3, <1>4, <1>5, <1>7, <1>9, <1>11, AgentAteIsMove
<1>14. QED
  BY <1>12, <1>13, WithDecisionIsGood

-----------------------------------------------------------------------------
(* A goal that is chosen, and the first step towards it.                   *)

(* A set of natural numbers that is not empty has a least element.         *)
LEMMA LeastNat ==
  ASSUME NEW S, S \subseteq Nat, S # {}
  PROVE  \E m \in S : \A n \in S : m <= n
<1>1. \E m \in S : \A n \in S : <<n, m>> \notin OpToRel(<, Nat)
  BY NatLessThanWellFounded, WFMin
<1>2. PICK m \in S : \A n \in S : <<n, m>> \notin OpToRel(<, Nat)
  BY <1>1
<1>3. ASSUME NEW n \in S PROVE m <= n
  <2>1. ~(n < m)
    BY <1>2 DEF OpToRel
  <2>2. QED
    BY <2>1
<1>4. QED
  BY <1>3

(* What stepFor takes from the bag is in the bag.                          *)
LEMMA FirstFoodIsFood ==
  ASSUME NEW s \in States, NEW ag, FoodOf(s, ag) # {}
  PROVE  FirstFood(s, ag) \in FoodOf(s, ag) /\ FirstFood(s, ag) \in DOMAIN Food
<1>1. DOMAIN s.items \subseteq DOMAIN Food
  <2>1. s.items \in ItemMaps
    BY DEF States
  <2>2. PICK I \in SUBSET DOMAIN Food : s.items \in [I -> Agents]
    BY <2>1 DEF ItemMaps
  <2>3. QED
    BY <2>2
<1>2. PICK S : S = FoodOf(s, ag)
  OBVIOUS
<1>3. S \subseteq DOMAIN Food
  BY <1>1, <1>2 DEF FoodOf
<1>4. S \subseteq Nat
  BY <1>3, RunAssumption
<1>5. \E i \in S : \A j \in S : i <= j
  BY <1>2, <1>4, LeastNat
<1>6. FirstFood(s, ag) \in S
  BY <1>2, <1>5 DEF FirstFood
<1>7. QED
  BY <1>2, <1>3, <1>6

(* applyGoalChosen.                                                        *)
Choosing(a, goal, plan) == [a EXCEPT !.goal = goal, !.plan = plan]

LEMMA ChoosingIsStored ==
  ASSUME NEW a \in Stored, NEW goal \in GoalNames, NEW plan \in Nat,
         NEW b, b = Choosing(a, goal, plan)
  PROVE  /\ b \in Stored /\ b.status = a.status /\ b.route = a.route
         /\ b.goal = goal /\ b.plan = plan
<1>1. b \in Stored
  BY DEF Choosing, Stored, GoalNames
<1>2. QED
  BY <1>1 DEF Choosing, Stored

LEMMA GoalChosenIsMove ==
  ASSUME NEW s \in States, NEW e, e.agent \in Agents
  PROVE  GoalChosen(s, e) =
           Moved(s, e.agent,
                 Choosing(s.agents[e.agent], e.payload.goal,
                          IF e.payload.goal = "idle" THEN 0 ELSE s.sequence),
                 {x \in Of(s.schedule, e.agent) : x.kind \in {"agent.decide"}},
                 StepFor(s, e))
<1>1. PICK plan : plan = IF e.payload.goal = "idle" THEN 0 ELSE s.sequence
  OBVIOUS
<1>2. PICK Gone : Gone = {x \in Of(s.schedule, e.agent) : x.kind \in {"agent.decide"}}
  OBVIOUS
<1>3. GoalChosen(s, e) =
        [s EXCEPT !.schedule = (s.schedule \ Gone) \cup StepFor(s, e),
                  !.agents[e.agent] = [@ EXCEPT !.goal = e.payload.goal, !.plan = plan]]
  BY <1>1, <1>2, Zenon DEF GoalChosen, Without
<1>4. PICK b : b = Choosing(s.agents[e.agent], e.payload.goal, plan)
  OBVIOUS
<1>5. GoalChosen(s, e) =
        [s EXCEPT !.schedule = (s.schedule \ Gone) \cup StepFor(s, e), !.agents[e.agent] = b]
  BY <1>3, <1>4 DEF Choosing
<1>6. GoalChosen(s, e) = Moved(s, e.agent, b, Gone, StepFor(s, e))
  BY <1>5 DEF Moved, States
<1>7. QED
  BY <1>1, <1>2, <1>4, <1>6

(* Every goal but idle has a first step.                                   *)
LEMMA StepIsNew ==
  ASSUME NEW s \in States, NEW e, e.agent \in Agents, e.at \in Nat,
         e.payload.goal \in GoalNames, e.payload.goal = "eat" => FoodOf(s, e.agent) # {}
  PROVE  /\ \A x \in StepFor(s, e) :
              /\ x \in Planned /\ Sound(x, s.sequence)
              /\ x.agent = e.agent /\ x.kind \in Steps /\ x.ref = s.sequence
         /\ e.payload.goal # "idle" => StepFor(s, e) # {}
<1>1. s.sequence \in Nat
  BY DEF States
<1>2. CASE e.payload.goal = "flee"
  <2>1. PICK x : x = Action("agent.travel", e.agent, e.at, s.sequence)
    OBVIOUS
  <2>2. StepFor(s, e) = {x}
    BY <1>2, <2>1 DEF StepFor
  <2>3. x \in Planned /\ Sound(x, s.sequence) /\ x.kind = "agent.travel" /\ x.agent = e.agent
        /\ x.ref = s.sequence
    BY <1>1, <2>1, NewAction DEF Plain
  <2>4. QED
    BY <2>2, <2>3 DEF Steps
<1>3. CASE e.payload.goal = "rest"
  <2>1. PICK x : x = Action("agent.rest", e.agent, e.at, s.sequence)
    OBVIOUS
  <2>2. StepFor(s, e) = {x}
    BY <1>3, <2>1 DEF StepFor
  <2>3. x \in Planned /\ Sound(x, s.sequence) /\ x.kind = "agent.rest" /\ x.agent = e.agent
        /\ x.ref = s.sequence
    BY <1>1, <2>1, NewAction DEF Plain
  <2>4. QED
    BY <2>2, <2>3 DEF Steps
<1>4. CASE e.payload.goal = "eat"
  <2>1. PICK x : x = Meal(e.agent, e.at, s.sequence, FirstFood(s, e.agent))
    OBVIOUS
  <2>2. StepFor(s, e) = {x}
    BY <1>4, <2>1 DEF StepFor
  <2>3. FirstFood(s, e.agent) \in DOMAIN Food
    BY <1>4, FirstFoodIsFood
  <2>4. x \in Planned /\ Sound(x, s.sequence) /\ x.kind = "agent.eat" /\ x.agent = e.agent
        /\ x.ref = s.sequence
    BY <1>1, <2>1, <2>3, NewMeal
  <2>5. QED
    BY <2>2, <2>4 DEF Steps
<1>5. CASE e.payload.goal = "idle"
  <2>1. StepFor(s, e) = {}
    BY <1>5 DEF StepFor
  <2>2. QED
    BY <1>5, <2>1
<1>6. QED
  BY <1>2, <1>3, <1>4, <1>5 DEF GoalNames

LEMMA GoalChosenIsGood ==
  ASSUME NEW s, NEW F, NEW n \in Nat, Good(s, F), Old(F, n), n < s.sequence,
         NEW e, e.agent \in Agents, e.at \in Nat,
         e.payload.goal \in GoalNames, e.payload.goal = "eat" => FoodOf(s, e.agent) # {},
         NEW t, t = GoalChosen(s, e)
  PROVE  Good(t, F) /\ t.time = s.time /\ t.sequence = s.sequence
<1>1. PICK g \in Agents : g = e.agent
  OBVIOUS
<1>2. PICK X : X = Of(s.schedule, g)
  OBVIOUS
<1>3. PICK a : a = s.agents[g]
  OBVIOUS
<1>4. s \in States /\ s.sequence \in Nat /\ a \in Stored /\ X \in SUBSET Planned
      /\ a.plan <= s.sequence /\ Fine(a, X, F)
  BY <1>2, <1>3, Parts DEF Of
<1>5. PICK goal \in GoalNames : goal = e.payload.goal
  OBVIOUS
<1>6. PICK plan : plan = IF goal = "idle" THEN 0 ELSE s.sequence
  OBVIOUS
<1>7. plan \in Nat /\ plan <= s.sequence /\ (goal = "idle" <=> plan = 0)
  <2>1. s.sequence \in Nat /\ s.sequence # 0
    BY <1>4
  <2>2. CASE goal = "idle"
    BY <1>6, <2>1, <2>2
  <2>3. CASE goal # "idle"
    BY <1>6, <2>1, <2>3
  <2>4. QED
    BY <2>2, <2>3
<1>8. PICK b : b = Choosing(a, goal, plan)
  OBVIOUS
<1>9. /\ b \in Stored /\ b.status = a.status /\ b.route = a.route
      /\ b.goal = goal /\ b.plan = plan
  <2>1. a \in Stored /\ plan \in Nat /\ goal \in GoalNames
    BY <1>4, <1>5, <1>7
  <2>2. b = [a EXCEPT !.goal = goal, !.plan = plan]
    BY <1>8 DEF Choosing
  <2>3. b \in Stored
    BY <2>1, <2>2 DEF Stored, GoalNames
  <2>4. QED
    BY <2>1, <2>2, <2>3 DEF Stored
<1>10. PICK Gone : Gone = {x \in X : x.kind \in {"agent.decide"}}
  OBVIOUS
<1>11. PICK New : New = StepFor(s, e)
  OBVIOUS
<1>12. /\ \A x \in New : /\ x \in Planned /\ Sound(x, s.sequence)
                         /\ x.agent = g /\ x.kind \in Steps /\ x.ref = s.sequence
       /\ goal # "idle" => New # {}
  BY <1>1, <1>4, <1>5, <1>11, StepIsNew
<1>13. \A x \in New : x \notin F
  <2> SUFFICES ASSUME NEW x \in New, x \in F PROVE FALSE
    OBVIOUS
  <2>1. x.kind # "need.threshold" /\ x.ref = s.sequence
    BY <1>12 DEF Steps
  <2>2. x.ref <= n
    BY <2>1 DEF Old
  <2>3. QED
    BY <1>4, <2>1, <2>2
<1>14. Fine(b, (X \ Gone) \cup New, F)
  <2>1. \A x \in Gone : x.kind \notin NamedByEvent
    BY <1>10 DEF NamedByEvent
  <2>2. New \in SUBSET Planned /\ \A x \in New : x.kind \in Steps /\ x \notin F
    BY <1>12, <1>13
  <2>3. b.goal # "idle" => New # {}
    BY <1>9, <1>12
  <2>4. b.goal = "idle" <=> b.plan = 0
    BY <1>7, <1>9
  <2>5. QED
    BY <1>4, <1>9, <2>1, <2>2, <2>3, <2>4, FineChosen
<1>15. t = Moved(s, g, b, Gone, New)
  BY <1>1, <1>2, <1>3, <1>4, <1>5, <1>6, <1>8, <1>10, <1>11, GoalChosenIsMove
<1>16. /\ \A x \in Gone : x.agent = g
       /\ \A x \in New : x.agent = g /\ Sound(x, s.sequence)
       /\ b.plan <= s.sequence /\ New \in SUBSET Planned
  BY <1>2, <1>7, <1>9, <1>10, <1>12 DEF Of
<1>17. QED
  BY <1>2, <1>9, <1>14, <1>15, <1>16, MovedIsGood

(* applyPlanInvalidated.                                                   *)
GivingUp(a) ==
  [a EXCEPT !.goal = "idle", !.plan = 0,
            !.status = IF a.status = "resting" THEN "idle" ELSE a.status]

LEMMA GivingUpIsStored ==
  ASSUME NEW a \in Stored, NEW b, b = GivingUp(a)
  PROVE  /\ b \in Stored /\ b.status = IF a.status = "resting" THEN "idle" ELSE a.status
         /\ b.route = a.route /\ b.goal = "idle" /\ b.plan = 0
<1>1. b \in Stored
  BY DEF GivingUp, Stored, GoalNames, Statuses
<1>2. QED
  BY <1>1 DEF GivingUp, Stored

OfPlan == {"agent.eat", "agent.rest", "agent.travel", "rest.complete", "agent.decide"}

LEMMA PlanInvalidatedIsMove ==
  ASSUME NEW s \in States, NEW e, e.agent \in Agents
  PROVE  PlanInvalidated(s, e) =
           WithDecision(
             Moved(s, e.agent, GivingUp(s.agents[e.agent]),
                   {x \in Of(s.schedule, e.agent) : x.kind \in OfPlan}, {}), e)
<1>1. PICK Gone : Gone = {x \in Of(s.schedule, e.agent) : x.kind \in OfPlan}
  OBVIOUS
<1>2. PICK b : b = GivingUp(s.agents[e.agent])
  OBVIOUS
<1>3. PICK u : u = [s EXCEPT !.schedule = s.schedule \ Gone, !.agents[e.agent] = b]
  OBVIOUS
<1>4. PlanInvalidated(s, e) = WithDecision(u, e)
  BY <1>1, <1>2, <1>3, Zenon DEF PlanInvalidated, Without, OfPlan, GivingUp
<1>5. s.schedule \ Gone = (s.schedule \ Gone) \cup {}
  OBVIOUS
<1>6. u = Moved(s, e.agent, b, Gone, {})
  BY <1>3, <1>5 DEF Moved, States
<1>7. QED
  BY <1>1, <1>2, <1>4, <1>6

LEMMA PlanInvalidatedIsGood ==
  ASSUME NEW s, NEW F, Good(s, F), NEW e, e.agent \in Agents, e.at \in Nat,
         NEW t, t = PlanInvalidated(s, e)
  PROVE  Good(t, F) /\ t.time = s.time /\ t.sequence = s.sequence
<1>1. PICK g \in Agents : g = e.agent
  OBVIOUS
<1>2. PICK X : X = Of(s.schedule, g)
  OBVIOUS
<1>3. PICK a : a = s.agents[g]
  OBVIOUS
<1>4. s \in States /\ s.sequence \in Nat /\ a \in Stored /\ X \in SUBSET Planned
      /\ a.plan <= s.sequence /\ Fine(a, X, F)
  BY <1>2, <1>3, Parts DEF Of
<1>5. PICK b : b = GivingUp(a)
  OBVIOUS
<1>6. /\ b \in Stored /\ b.status = IF a.status = "resting" THEN "idle" ELSE a.status
      /\ b.route = a.route /\ b.goal = "idle" /\ b.plan = 0
  BY <1>4, <1>5, GivingUpIsStored
<1>7. PICK Gone : Gone = {x \in X : x.kind \in OfPlan}
  OBVIOUS
<1>8. Fine(b, (X \ Gone) \cup {}, F)
  <2>1. \A x \in Gone : x.kind # "journey.complete"
    BY <1>7 DEF OfPlan
  <2>2. \A x \in X : x.kind = "rest.complete" => x \in Gone
    BY <1>7 DEF OfPlan
  <2>3. QED
    BY <1>4, <1>6, <2>1, <2>2, FineGivenUp
<1>9. PICK u : u = Moved(s, g, b, Gone, {})
  OBVIOUS
<1>10. Good(u, F) /\ u.time = s.time /\ u.sequence = s.sequence
  <2>1. b.plan <= s.sequence /\ \A x \in Gone : x.agent = g
    BY <1>2, <1>4, <1>6, <1>7 DEF Of
  <2>2. QED
    BY <1>2, <1>6, <1>8, <1>9, <2>1, MovedIsGood
<1>11. t = WithDecision(u, e)
  BY <1>1, <1>2, <1>3, <1>4, <1>5, <1>7, <1>9, PlanInvalidatedIsMove
<1>12. QED
  BY <1>10, <1>11, WithDecisionIsGood

(* applyRiskObserved.                                                      *)
Learning(a, r) == [a EXCEPT !.known = a.known \cup {r}]

LEMMA LearningIsStored ==
  ASSUME NEW a \in Stored, NEW r \in Routes, NEW b, b = Learning(a, r)
  PROVE  /\ b \in Stored /\ b.status = a.status /\ b.route = a.route
         /\ b.goal = a.goal /\ b.plan = a.plan
<1>1. PICK K : K = a.known \cup {r}
  OBVIOUS
<1>2. K \in SUBSET Routes
  BY <1>1 DEF Stored
<1>3. b = [a EXCEPT !.known = K]
  BY <1>1 DEF Learning
<1>4. b \in Stored
  BY <1>2, <1>3 DEF Stored
<1>5. QED
  BY <1>3, <1>4 DEF Stored

LEMMA RiskObservedIsMove ==
  ASSUME NEW s \in States, NEW e, e.agent \in Agents
  PROVE  RiskObserved(s, e) =
           Moved(s, e.agent, Learning(s.agents[e.agent], e.payload.route), {}, {})
<1>1. PICK b : b = Learning(s.agents[e.agent], e.payload.route)
  OBVIOUS
<1>2. RiskObserved(s, e) = [s EXCEPT !.agents[e.agent] = b]
  BY <1>1 DEF RiskObserved, Learning
<1>3. s.schedule = (s.schedule \ {}) \cup {}
  OBVIOUS
<1>4. PICK A : A = [s.agents EXCEPT ![e.agent] = b]
  OBVIOUS
<1>5. [s EXCEPT !.agents[e.agent] = b] = [s EXCEPT !.agents = A]
  BY <1>4 DEF States
<1>6. [s EXCEPT !.agents = A] = [s EXCEPT !.agents = A, !.schedule = s.schedule]
  BY DEF States
<1>7. QED
  BY <1>1, <1>2, <1>3, <1>4, <1>5, <1>6 DEF Moved

LEMMA RiskObservedIsGood ==
  ASSUME NEW s, NEW F, Good(s, F), NEW e, e.agent \in Agents, e.payload.route \in Routes,
         NEW t, t = RiskObserved(s, e)
  PROVE  Good(t, F) /\ t.time = s.time /\ t.sequence = s.sequence
<1>1. PICK g \in Agents : g = e.agent
  OBVIOUS
<1>2. PICK X : X = Of(s.schedule, g)
  OBVIOUS
<1>3. PICK a : a = s.agents[g]
  OBVIOUS
<1>4. s \in States /\ s.sequence \in Nat /\ a \in Stored /\ X \in SUBSET Planned
      /\ a.plan <= s.sequence /\ Fine(a, X, F)
  BY <1>2, <1>3, Parts DEF Of
<1>5. PICK b : b = Learning(a, e.payload.route)
  OBVIOUS
<1>6. /\ b \in Stored /\ b.status = a.status /\ b.route = a.route
      /\ b.goal = a.goal /\ b.plan = a.plan
  BY <1>4, <1>5, LearningIsStored
<1>7. Fine(b, (X \ {}) \cup {}, F)
  BY <1>4, <1>6, FineSame
<1>8. t = Moved(s, g, b, {}, {})
  BY <1>1, <1>3, <1>4, <1>5, RiskObservedIsMove
<1>9. b.plan <= s.sequence
  BY <1>4, <1>6
<1>10. QED
  BY <1>2, <1>6, <1>7, <1>8, <1>9, MovedIsGood

-----------------------------------------------------------------------------
(* chooseGoal names a goal that can be pursued. Costs and scores are whole *)
(* numbers, so the least and the greatest of them exist.                   *)

(* Of the least by one number, the least.                                  *)
LEMMA LexLeast ==
  ASSUME NEW S, S \subseteq Nat, S # {}, NEW f \in [S -> Nat]
  PROVE  \E m \in S : \A n \in S : f[m] < f[n] \/ (f[m] = f[n] /\ m <= n)
<1>1. PICK V : V = {f[n] : n \in S}
  OBVIOUS
<1>2. V \subseteq Nat /\ V # {}
  BY <1>1
<1>3. PICK v \in V : \A w \in V : v <= w
  BY <1>2, LeastNat
<1>4. PICK T : T = {n \in S : f[n] = v}
  OBVIOUS
<1>5. T \subseteq Nat /\ T # {}
  BY <1>1, <1>3, <1>4
<1>6. PICK m \in T : \A n \in T : m <= n
  BY <1>5, LeastNat
<1>7. m \in S /\ f[m] = v
  BY <1>4, <1>6
<1>8. ASSUME NEW n \in S PROVE f[m] < f[n] \/ (f[m] = f[n] /\ m <= n)
  <2>1. f[n] \in V /\ f[n] \in Nat /\ v \in Nat
    BY <1>1, <1>2, <1>3
  <2>2. v <= f[n]
    BY <1>3, <2>1
  <2>3. CASE f[n] = v
    <3>1. n \in T
      BY <1>4, <2>3
    <3>2. QED
      BY <1>6, <1>7, <2>3, <3>1
  <2>4. CASE f[n] # v
    BY <1>7, <2>1, <2>2, <2>4
  <2>5. QED
    BY <2>3, <2>4
<1>9. QED
  BY <1>7, <1>8

(* Costs are natural numbers.                                              *)
LEMMA ProductNat ==
  ASSUME NEW a \in Nat, NEW b \in Nat
  PROVE  a * b \in Nat
<1>1. CASE a = 0 \/ b = 0
  BY <1>1
<1>2. CASE a > 0 /\ b > 0
  BY <1>2, PositiveProduct
<1>3. QED
  BY <1>1, <1>2

LEMMA CeilDivNat ==
  ASSUME NEW a \in Nat
  PROVE  CeilDiv(a, 60) \in Nat /\ CeilDiv(a, 1000) \in Nat
  BY DEF CeilDiv

LEMMA PermilleNat == Permille \subseteq Nat
  BY DEF Permille

LEMMA Weights ==
  /\ TimeCostRate \in Nat /\ SwitchMargin \in Nat /\ UnknownRisk \in Nat /\ RestMinutes \in Nat
  /\ Urgency["normal"] \in Nat /\ Urgency["warning"] \in Nat /\ Urgency["critical"] \in Nat
<1>1. /\ TimeCostRate \in Permille /\ SwitchMargin \in Permille /\ UnknownRisk \in Permille
      /\ Urgency.normal \in Permille /\ Urgency.warning \in Permille
      /\ Urgency.critical \in Permille
  BY RulesAssumption DEF ValidWeights
<1>2. RestMinutes \in Nat
  BY RulesAssumption DEF ValidRest
<1>3. QED
  BY PermilleNat, <1>1, <1>2

LEMMA TimeCostNat ==
  ASSUME NEW minutes \in Nat
  PROVE  TimeCost(minutes) \in Nat
<1>1. minutes * TimeCostRate \in Nat
  BY Weights, ProductNat
<1>2. QED
  BY <1>1, CeilDivNat DEF TimeCost

LEMMA RouteCostNat ==
  ASSUME NEW agent \in Stored, NEW r \in Routes
  PROVE  RouteCost(agent, r) \in Nat
<1>1. RouteMinutes[r] \in Nat /\ RouteRisk[r] \in Nat
  <2>1. RouteMinutes \in [Routes -> Nat \ {0}] /\ RouteRisk \in [Routes -> Permille]
    BY RulesAssumption DEF ValidMap
  <2>2. RouteMinutes[r] \in Nat \ {0} /\ RouteRisk[r] \in Permille
    BY <2>1
  <2>3. QED
    BY <2>2, PermilleNat
<1>2. TimeCost(RouteMinutes[r]) \in Nat
  BY <1>1, TimeCostNat
<1>3. Perceived(agent, r) \in Nat
  BY <1>1, Weights DEF Perceived
<1>4. agent.caution \in Nat
  BY DEF Stored
<1>5. Perceived(agent, r) * agent.caution \in Nat
  BY <1>3, <1>4, ProductNat
<1>6. CeilDiv(Perceived(agent, r) * agent.caution, 1000) \in Nat
  BY <1>5, CeilDivNat
<1>7. QED
  BY <1>2, <1>6 DEF RouteCost

(* Of the cheapest ways that lead on, the first by its identifier.         *)
LEMMA ChooseRouteIsOption ==
  ASSUME NEW agent \in Stored, Options(agent) # {}
  PROVE  ChooseRoute(agent) \in Options(agent) /\ ChooseRoute(agent) \in Routes
<1>1. PICK S : S = Options(agent)
  OBVIOUS
<1>2. S \subseteq Routes /\ S \subseteq Nat
  BY <1>1, RulesAssumption DEF Options
<1>3. PICK f : f = [r \in S |-> RouteCost(agent, r)]
  OBVIOUS
<1>4. f \in [S -> Nat]
  BY <1>2, <1>3, RouteCostNat
<1>5. \E m \in S : \A n \in S : f[m] < f[n] \/ (f[m] = f[n] /\ m <= n)
  BY <1>1, <1>2, <1>4, LexLeast
<1>6. \E r \in S : \A q \in S : \/ RouteCost(agent, r) < RouteCost(agent, q)
                                \/ RouteCost(agent, r) = RouteCost(agent, q) /\ r <= q
  BY <1>3, <1>5
<1>7. ChooseRoute(agent) \in S
  BY <1>1, <1>6 DEF ChooseRoute
<1>8. QED
  BY <1>1, <1>2, <1>7

LEMMA LevelIsLevel ==
  ASSUME NEW need, NEW baseline, NEW at
  PROVE  Level(need, baseline, at) \in {"normal", "warning", "critical"}
  BY DEF Level

(* Scores are whole numbers.                                               *)
LEMMA ScoreInt ==
  ASSUME NEW agent \in Stored, NEW goal \in GoalNames, NEW at
  PROVE  Score(agent, goal, at) \in Int
<1>1. PICK level \in {"normal", "warning", "critical"} :
        level = Level(Treats[goal], agent.baseline[Treats[goal]], at)
  BY LevelIsLevel
<1>2. Urgency[level] \in Nat
  BY Weights
<1>3. PlaceRisk[agent.place] \in Nat
  <2>1. PlaceRisk \in [Places -> Permille] /\ agent.place \in Places
    BY RulesAssumption DEF ValidMap, Stored
  <2>2. PlaceRisk[agent.place] \in Permille
    BY <2>1
  <2>3. QED
    BY <2>2, PermilleNat
<1>4. PICK urgency : urgency = CASE goal = "idle" -> 0
                                 [] goal = "flee" -> PlaceRisk[agent.place]
                                 [] OTHER ->
                                      Urgency[Level(Treats[goal], agent.baseline[Treats[goal]], at)]
  OBVIOUS
<1>5. urgency \in Nat
  BY <1>1, <1>2, <1>3, <1>4
<1>6. PICK cost : cost = CASE goal = "rest" -> TimeCost(RestMinutes)
                           [] goal = "flee" /\ Options(agent) # {} ->
                                RouteCost(agent, ChooseRoute(agent))
                           [] OTHER -> 0
  OBVIOUS
<1>7. cost \in Nat
  <2>1. CASE goal = "rest"
    BY <1>6, <2>1, Weights, TimeCostNat
  <2>2. CASE goal = "flee" /\ Options(agent) # {}
    <3>1. ChooseRoute(agent) \in Routes
      BY <2>2, ChooseRouteIsOption
    <3>2. RouteCost(agent, ChooseRoute(agent)) \in Nat
      BY <3>1, RouteCostNat
    <3>3. QED
      BY <1>6, <2>2, <3>2
  <2>3. CASE goal # "rest" /\ ~(goal = "flee" /\ Options(agent) # {})
    BY <1>6, <2>3
  <2>4. QED
    BY <2>1, <2>2, <2>3
<1>8. PICK margin : margin = IF goal = agent.goal THEN 0 ELSE SwitchMargin
  OBVIOUS
<1>9. margin \in Nat
  BY <1>8, Weights
<1>10. Score(agent, goal, at) = urgency - cost - margin
  BY <1>4, <1>6, <1>8, Zenon DEF Score
<1>11. QED
  BY <1>5, <1>7, <1>9, <1>10

(* Four numbers have a bound.                                              *)
LEMMA UpperBound ==
  ASSUME NEW f \in [1 .. 4 -> Int]
  PROVE  \E b \in Int : \A g \in 1 .. 4 : f[g] <= b
<1>1. f[1] \in Int /\ f[2] \in Int /\ f[3] \in Int /\ f[4] \in Int
  OBVIOUS
<1>2. PICK a \in Int : f[1] <= a /\ f[2] <= a
  BY <1>1
<1>3. PICK b \in Int : a <= b /\ f[3] <= b
  BY <1>1
<1>4. PICK c \in Int : b <= c /\ f[4] <= c
  BY <1>1
<1>5. ASSUME NEW g \in 1 .. 4 PROVE f[g] <= c
  <2>1. g = 1 \/ g = 2 \/ g = 3 \/ g = 4
    OBVIOUS
  <2>2. QED
    BY <1>1, <1>2, <1>3, <1>4, <2>1
<1>6. QED
  BY <1>5

(* Of a few numbers, the first of the greatest.                            *)
LEMMA FirstGreatest ==
  ASSUME NEW C \in SUBSET (1 .. 4), C # {}, NEW f \in [1 .. 4 -> Int]
  PROVE  \E g \in C : \A h \in C : f[g] > f[h] \/ (f[g] = f[h] /\ g <= h)
<1>1. PICK b \in Int : \A g \in 1 .. 4 : f[g] <= b
  BY UpperBound
<1>2. PICK k : k = [g \in C |-> b - f[g]]
  OBVIOUS
<1>3. k \in [C -> Nat]
  BY <1>1, <1>2
<1>4. PICK g \in C : \A h \in C : k[g] < k[h] \/ (k[g] = k[h] /\ g <= h)
  <2>1. C \subseteq Nat /\ C # {}
    OBVIOUS
  <2>2. QED
    BY <1>3, <2>1, LexLeast
<1>5. ASSUME NEW h \in C PROVE f[g] > f[h] \/ (f[g] = f[h] /\ g <= h)
  <2>1. k[g] = b - f[g] /\ k[h] = b - f[h] /\ f[g] \in Int /\ f[h] \in Int
    BY <1>2
  <2>2. QED
    BY <1>4, <2>1
<1>6. QED
  BY <1>5

LEMMA GoalsAre ==
  /\ DOMAIN Goals = 1 .. 4 /\ Goals[1] = "idle" /\ \A g \in 1 .. 4 : Goals[g] \in GoalNames
  BY DEF Goals, GoalNames

(* The goal chooseGoal names is one the agent can pursue now (isFeasible), *)
(* whatever the weights, the need and the memory: there always is a best   *)
(* one, since to be idle is always possible, and who is told to eat has    *)
(* food, without which stepFor would throw.                                *)
THEOREM ChosenGoalIsFeasible ==
  ASSUME NEW s \in States, NEW ag \in Agents, NEW at,
         NEW goal, goal = ChooseGoal(s, ag, at)
  PROVE  goal \in GoalNames /\ Feasible(s, ag, goal)
<1>1. PICK C : C = {g \in DOMAIN Goals : Feasible(s, ag, Goals[g])}
  OBVIOUS
<1>2. C \in SUBSET (1 .. 4) /\ C # {}
  <2>1. 1 \in C
    BY <1>1, GoalsAre DEF Feasible
  <2>2. QED
    BY <1>1, <2>1, GoalsAre
<1>3. PICK f : f = [g \in 1 .. 4 |-> Score(s.agents[ag], Goals[g], at)]
  OBVIOUS
<1>4. f \in [1 .. 4 -> Int]
  <2>1. s.agents[ag] \in Stored
    BY DEF States
  <2>2. \A g \in 1 .. 4 : Score(s.agents[ag], Goals[g], at) \in Int
    BY <2>1, GoalsAre, ScoreInt
  <2>3. QED
    BY <1>3, <2>2
<1>5. \E g \in C : \A h \in C : f[g] > f[h] \/ (f[g] = f[h] /\ g <= h)
  BY <1>2, <1>4, FirstGreatest
<1>6. \E g \in C : \A h \in C :
        \/ Score(s.agents[ag], Goals[g], at) > Score(s.agents[ag], Goals[h], at)
        \/ (Score(s.agents[ag], Goals[g], at) = Score(s.agents[ag], Goals[h], at) /\ g <= h)
  BY <1>2, <1>3, <1>5
<1>7. PICK first : first = CHOOSE g \in C : \A h \in C :
        \/ Score(s.agents[ag], Goals[g], at) > Score(s.agents[ag], Goals[h], at)
        \/ (Score(s.agents[ag], Goals[g], at) = Score(s.agents[ag], Goals[h], at) /\ g <= h)
  OBVIOUS
<1>8. first \in C
  BY <1>6, <1>7
<1>9. goal = Goals[first]
  BY <1>1, <1>7, Zenon DEF ChooseGoal
<1>10. QED
  BY <1>1, <1>2, <1>8, <1>9, GoalsAre

-----------------------------------------------------------------------------
(* evolve as a whole.                                                      *)

(* What the rules have to see to before an event of each type: that it can *)
(* be decoded, and that the state admits it.                               *)
Legal(s, e) ==
  /\ Decodable(e)
  /\ \/ e.type = "journey.started" /\ s.agents[e.agent].status = "idle"
     \/ /\ e.type = "journey.completed"
        /\ \E x \in s.schedule :
             x.kind = "journey.complete" /\ x.agent = e.agent /\ e.caused = {Id(x)}
     \/ e.type = "need.threshold.crossed"
     \/ e.type = "agent.ate" /\ e.payload.item \in FoodOf(s, e.agent)
     \/ e.type = "rest.started" /\ s.agents[e.agent].status = "idle"
     \/ /\ e.type = "agent.rested"
        /\ \E x \in s.schedule :
             x.kind = "rest.complete" /\ x.agent = e.agent /\ e.caused = {Id(x)}
     \/ e.type = "goal.chosen" /\ (e.payload.goal = "eat" => FoodOf(s, e.agent) # {})
     \/ e.type = "plan.invalidated"
     \/ e.type = "risk.observed"

(* The payload of each type of event.                                      *)
LEMMA PayloadsAre ==
  /\ Payloads("journey.started") = [route : Routes, arrival : Nat]
  /\ Payloads("journey.completed") = [route : Routes]
  /\ Payloads("plan.invalidated") = [plan : Nat \ {0}, precondition : PreconditionTypes]
  /\ Payloads("need.threshold.crossed") =
       [need : Needs, from : NeedLevels, level : NeedLevels, next : SUBSET Nat]
  /\ Payloads("agent.ate") = [item : Nat \ {0}]
  /\ Payloads("rest.started") = [ending : Nat]
  /\ Payloads("agent.rested") = {<<>>}
  /\ Payloads("goal.chosen") = [goal : Range(Goals), previous : Range(Goals)]
  /\ Payloads("risk.observed") = [route : Routes, risk : Permille]
  BY DEF Payloads, Instants

LEMMA GoalsAreNames == Range(Goals) = GoalNames
<1>1. GoalNames = {Goals[i] : i \in 1 .. 4}
  <2>1. Goals[1] = "idle" /\ Goals[2] = "eat" /\ Goals[3] = "rest" /\ Goals[4] = "flee"
    BY DEF Goals
  <2>2. 1 .. 4 = {1, 2, 3, 4}
    OBVIOUS
  <2>3. QED
    BY <2>1, <2>2 DEF GoalNames
<1>2. QED
  BY <1>1, GoalsAre DEF Range

(* What is known of an event that can be decoded.                          *)
LEMMA DecodedIs ==
  ASSUME NEW e, Decodable(e)
  PROVE  /\ e.agent \in Agents /\ e.at \in Nat
         /\ e.type = "journey.started" => e.payload.route \in Routes /\ e.payload.arrival \in Nat
         /\ e.type = "journey.completed" => e.payload.route \in Routes
         /\ e.type = "need.threshold.crossed" =>
              /\ e.payload.need \in Needs /\ e.payload.level \in NeedLevels
              /\ e.payload.next \in SUBSET Nat
         /\ e.type = "rest.started" => e.payload.ending \in Nat
         /\ e.type = "goal.chosen" => e.payload.goal \in GoalNames
         /\ e.type = "risk.observed" => e.payload.route \in Routes
<1>1. e.agent \in Agents /\ e.at \in Nat
  BY DEF Decodable, EnvelopeFits, Instants
<1>2. PICK p : p = e.payload
  OBVIOUS
<1>3. p \in Payloads(e.type)
  BY <1>2 DEF Decodable
<1>4. e.type = "journey.started" => p.route \in Routes /\ p.arrival \in Nat
  <2> HAVE e.type = "journey.started"
  <2>1. p \in [route : Routes, arrival : Nat]
    BY <1>3, PayloadsAre
  <2>2. QED
    BY <2>1
<1>5. e.type = "journey.completed" => p.route \in Routes
  <2> HAVE e.type = "journey.completed"
  <2>1. p \in [route : Routes]
    BY <1>3, PayloadsAre
  <2>2. QED
    BY <2>1
<1>6. e.type = "need.threshold.crossed" =>
        p.need \in Needs /\ p.level \in NeedLevels /\ p.next \in SUBSET Nat
  <2> HAVE e.type = "need.threshold.crossed"
  <2>1. p \in [need : Needs, from : NeedLevels, level : NeedLevels, next : SUBSET Nat]
    BY <1>3, PayloadsAre
  <2>2. QED
    BY <2>1
<1>7. e.type = "rest.started" => p.ending \in Nat
  <2> HAVE e.type = "rest.started"
  <2>1. p \in [ending : Nat]
    BY <1>3, PayloadsAre
  <2>2. QED
    BY <2>1
<1>8. e.type = "goal.chosen" => p.goal \in GoalNames
  <2> HAVE e.type = "goal.chosen"
  <2>1. p \in [goal : Range(Goals), previous : Range(Goals)]
    BY <1>3, PayloadsAre
  <2>2. p.goal \in Range(Goals)
    BY <2>1
  <2>3. QED
    BY <2>2, GoalsAreNames
<1>9. e.type = "risk.observed" => p.route \in Routes
  <2> HAVE e.type = "risk.observed"
  <2>1. p \in [route : Routes, risk : Permille]
    BY <1>3, PayloadsAre
  <2>2. QED
    BY <2>1
<1>10. QED
  BY <1>1, <1>2, <1>4, <1>5, <1>6, <1>7, <1>8, <1>9

(* evolve stamps the state, and calls the function of the type.            *)
LEMMA EvolveIs ==
  ASSUME NEW s0, NEW e, NEW s, s = Stamp(s0, e.at)
  PROVE  /\ e.type = "journey.started" => Evolve(s0, e) = JourneyStarted(s, e)
         /\ e.type = "journey.completed" => Evolve(s0, e) = JourneyCompleted(s, e)
         /\ e.type = "need.threshold.crossed" => Evolve(s0, e) = NeedThresholdCrossed(s, e)
         /\ e.type = "agent.ate" => Evolve(s0, e) = AgentAte(s, e)
         /\ e.type = "rest.started" => Evolve(s0, e) = RestStarted(s, e)
         /\ e.type = "agent.rested" => Evolve(s0, e) = AgentRested(s, e)
         /\ e.type = "goal.chosen" => Evolve(s0, e) = GoalChosen(s, e)
         /\ e.type = "plan.invalidated" => Evolve(s0, e) = PlanInvalidated(s, e)
         /\ e.type = "risk.observed" => Evolve(s0, e) = RiskObserved(s, e)
<1>1. s = [s0 EXCEPT !.time = e.at, !.sequence = @ + 1]
  BY DEF Stamp
<1>2. Evolve(s0, e) =
        CASE e.type = "journey.started" -> JourneyStarted(s, e)
          [] e.type = "journey.completed" -> JourneyCompleted(s, e)
          [] e.type = "need.threshold.crossed" -> NeedThresholdCrossed(s, e)
          [] e.type = "agent.ate" -> AgentAte(s, e)
          [] e.type = "rest.started" -> RestStarted(s, e)
          [] e.type = "agent.rested" -> AgentRested(s, e)
          [] e.type = "goal.chosen" -> GoalChosen(s, e)
          [] e.type = "plan.invalidated" -> PlanInvalidated(s, e)
          [] e.type = "risk.observed" -> RiskObserved(s, e)
  BY <1>1, Zenon DEF Evolve
<1>3. QED
  BY <1>2

(* A legal event leads from a good state to a good state.                  *)
LEMMA EvolveIsGood ==
  ASSUME NEW s0, NEW F, NEW n \in Nat, Good(s0, F), Old(F, n), n <= s0.sequence,
         NEW e, Legal(s0, e), NEW t, t = Evolve(s0, e)
  PROVE  Good(t, F) /\ t.time = e.at /\ t.sequence = s0.sequence + 1
<1>1. e.agent \in Agents /\ e.at \in Nat
  BY DecodedIs DEF Legal
<1>2. PICK s : s = Stamp(s0, e.at)
  OBVIOUS
<1>3. /\ Good(s, F) /\ s.time = e.at /\ s.sequence = s0.sequence + 1
      /\ s.agents = s0.agents /\ s.schedule = s0.schedule /\ s.items = s0.items
  <2>1. PICK at \in Nat : at = e.at
    BY <1>1
  <2>2. s = Stamp(s0, at)
    BY <1>2, <2>1
  <2>3. /\ Good(s, F) /\ s.time = at /\ s.sequence = s0.sequence + 1
        /\ s.agents = s0.agents /\ s.schedule = s0.schedule /\ s.items = s0.items
    BY <2>2, StampIsGood
  <2>4. QED
    BY <2>1, <2>3
<1>4. n < s.sequence
  <2>1. s0.sequence \in Nat
    BY DEF Good, States
  <2>2. QED
    BY <1>3, <2>1
<1>5. FoodOf(s, e.agent) = FoodOf(s0, e.agent)
  BY <1>3 DEF FoodOf
<1> DEFINE Done == Good(t, F) /\ t.time = s.time /\ t.sequence = s.sequence
<1>6. Done
  <2>1. ASSUME e.type = "journey.started", s.agents[e.agent].status = "idle"
        PROVE  Done
    <3>1. t = JourneyStarted(s, e)
      BY <1>2, <2>1, EvolveIs
    <3>2. e.payload.route \in Routes /\ e.payload.arrival \in Nat
      BY <2>1, DecodedIs DEF Legal
    <3>3. QED
      BY <1>1, <1>3, <2>1, <3>1, <3>2, JourneyStartedIsGood
  <2>2. ASSUME e.type = "journey.completed",
               NEW x \in s.schedule, x.kind = "journey.complete", x.agent = e.agent,
               e.caused = {Id(x)}
        PROVE  Done
    <3>1. t = JourneyCompleted(s, e)
      BY <1>2, <2>2, EvolveIs
    <3>2. e.payload.route \in Routes
      BY <2>2, DecodedIs DEF Legal
    <3>3. QED
      BY <1>1, <1>3, <2>2, <3>1, <3>2, JourneyCompletedIsGood
  <2>3. ASSUME e.type = "need.threshold.crossed" PROVE Done
    <3>1. t = NeedThresholdCrossed(s, e)
      BY <1>2, <2>3, EvolveIs
    <3>2. e.payload.need \in Needs /\ e.payload.next \in SUBSET Nat
      BY <2>3, DecodedIs DEF Legal
    <3>3. QED
      BY <1>1, <1>3, <3>1, <3>2, NeedThresholdCrossedIsGood
  <2>4. ASSUME e.type = "agent.ate" PROVE Done
    <3>1. t = AgentAte(s, e)
      BY <1>2, <2>4, EvolveIs
    <3>2. QED
      BY <1>1, <1>3, <3>1, AgentAteIsGood
  <2>5. ASSUME e.type = "rest.started", s.agents[e.agent].status = "idle" PROVE Done
    <3>1. t = RestStarted(s, e)
      BY <1>2, <2>5, EvolveIs
    <3>2. e.payload.ending \in Nat
      BY <2>5, DecodedIs DEF Legal
    <3>3. QED
      BY <1>1, <1>3, <2>5, <3>1, <3>2, RestStartedIsGood
  <2>6. ASSUME e.type = "agent.rested",
               NEW x \in s.schedule, x.kind = "rest.complete", x.agent = e.agent, e.caused = {Id(x)}
        PROVE  Done
    <3>1. t = AgentRested(s, e)
      BY <1>2, <2>6, EvolveIs
    <3>2. QED
      BY <1>1, <1>3, <2>6, <3>1, AgentRestedIsGood
  <2>7. ASSUME e.type = "goal.chosen", e.payload.goal = "eat" => FoodOf(s, e.agent) # {}
        PROVE  Done
    <3>1. t = GoalChosen(s, e)
      BY <1>2, <2>7, EvolveIs
    <3>2. Good(s, F) /\ n < s.sequence
      BY <1>3, <1>4
    <3>3. e.payload.goal \in GoalNames /\ (e.payload.goal = "eat" => FoodOf(s, e.agent) # {})
      BY <2>7, DecodedIs DEF Legal
    <3>4. Good(t, F) /\ t.time = s.time /\ t.sequence = s.sequence
      BY <1>1, <3>1, <3>2, <3>3, GoalChosenIsGood
    <3>5. QED
      BY <3>4
  <2>8. ASSUME e.type = "plan.invalidated" PROVE Done
    <3>1. t = PlanInvalidated(s, e)
      BY <1>2, <2>8, EvolveIs
    <3>2. QED
      BY <1>1, <1>3, <3>1, PlanInvalidatedIsGood
  <2>9. ASSUME e.type = "risk.observed" PROVE Done
    <3>1. t = RiskObserved(s, e)
      BY <1>2, <2>9, EvolveIs
    <3>2. e.payload.route \in Routes
      BY <2>9, DecodedIs DEF Legal
    <3>3. QED
      BY <1>1, <1>3, <3>1, <3>2, RiskObservedIsGood
  <2> HIDE DEF Done
  <2>10. QED
    BY <1>3, <1>5, <2>1, <2>2, <2>3, <2>4, <2>5, <2>6, <2>7, <2>8, <2>9, Zenon DEF Legal
<1>7. QED
  BY <1>3, <1>6

-----------------------------------------------------------------------------
(* Sequences of one and of two events.                                     *)

(* What After folds over the numbers of the events, the last one outermost.*)
Fold(s, es, D, f) ==
  [S \in SUBSET D |-> IF S = {} THEN s ELSE Evolve(f[S \ {Max(S)}], es[Max(S)])]

LEMMA AfterIsFold ==
  ASSUME NEW s, NEW es
  PROVE  After(s, es) = (CHOOSE f : f = Fold(s, es, DOMAIN es, f))[DOMAIN es]
  BY Zenon DEF After, FoldLeft, MapThenFoldSet, Fold

(* The numbers of the last event.                                          *)
LEMMA MaxIs ==
  /\ Max({1}) = 1 /\ Max({2}) = 2 /\ Max({1, 2}) = 2
<1>1. \A S : S \in {{1}, {2}} => \A x \in S : Max(S) = x
  BY DEF Max
<1>2. Max({1, 2}) = 2
  BY DEF Max
<1>3. QED
  BY <1>1, <1>2

LEMMA AfterOne ==
  ASSUME NEW s, NEW e
  PROVE  After(s, <<e>>) = Evolve(s, e)
<1>1. PICK es : es = <<e>>
  OBVIOUS
<1>2. DOMAIN es = {1} /\ es[1] = e
  BY <1>1
<1>3. SUBSET {1} = {{}, {1}}
  OBVIOUS
<1> DEFINE w == [S \in SUBSET {1} |-> IF S = {} THEN s ELSE Evolve(s, e)]
<1>4. w = Fold(s, es, {1}, w)
  <2>1. ASSUME NEW S \in SUBSET {1}
        PROVE  w[S] = IF S = {} THEN s ELSE Evolve(w[S \ {Max(S)}], es[Max(S)])
    <3>1. CASE S = {}
      BY <3>1
    <3>2. CASE S = {1}
      <4>1. Max(S) = 1 /\ S \ {1} = {} /\ {} \in SUBSET {1}
        BY <3>2, MaxIs
      <4>2. w[{}] = s /\ w[S] = Evolve(s, e)
        BY <3>2
      <4> HIDE DEF w
      <4>3. QED
        BY <1>2, <3>2, <4>1, <4>2
    <3>3. QED
      BY <1>3, <3>1, <3>2
  <2>2. QED
    BY <2>1 DEF Fold
<1> HIDE DEF w
<1>5. PICK f : f = CHOOSE g : g = Fold(s, es, {1}, g)
  OBVIOUS
<1>6. f = Fold(s, es, {1}, f)
  BY <1>4, <1>5
<1>7. f[{}] = s
  <2>1. {} \in SUBSET {1}
    OBVIOUS
  <2>2. QED
    BY <1>6, <2>1 DEF Fold
<1>8. f[{1}] = Evolve(f[{1} \ {1}], es[1])
  <2>1. {1} \in SUBSET {1} /\ {1} # {} /\ Max({1}) = 1
    BY MaxIs
  <2>2. QED
    BY <1>6, <2>1 DEF Fold
<1>9. {1} \ {1} = {}
  OBVIOUS
<1>10. After(s, es) = f[{1}]
  BY <1>2, <1>5, AfterIsFold
<1>11. QED
  BY <1>1, <1>2, <1>7, <1>8, <1>9, <1>10

LEMMA AfterTwo ==
  ASSUME NEW s, NEW e1, NEW e2
  PROVE  After(s, <<e1, e2>>) = Evolve(Evolve(s, e1), e2)
<1>1. PICK es : es = <<e1, e2>>
  OBVIOUS
<1>2. DOMAIN es = {1, 2} /\ es[1] = e1 /\ es[2] = e2
  BY <1>1
<1>3. SUBSET {1, 2} = {{}, {1}, {2}, {1, 2}}
  OBVIOUS
<1>4. /\ {1} \ {1} = {} /\ {2} \ {2} = {} /\ {1, 2} \ {2} = {1}
      /\ {1} # {} /\ {2} # {} /\ {1, 2} # {}
      /\ {1, 2} # {1} /\ {1, 2} # {2} /\ {1} # {2}
  OBVIOUS
<1> DEFINE w == [S \in SUBSET {1, 2} |->
                   IF S = {} THEN s
                   ELSE IF S = {1} THEN Evolve(s, e1)
                   ELSE IF S = {2} THEN Evolve(s, e2)
                   ELSE Evolve(Evolve(s, e1), e2)]
<1>5. w = Fold(s, es, {1, 2}, w)
  <2>1. /\ w[{}] = s /\ w[{1}] = Evolve(s, e1) /\ w[{2}] = Evolve(s, e2)
        /\ w[{1, 2}] = Evolve(Evolve(s, e1), e2)
    BY <1>3, <1>4
  <2>2. ASSUME NEW v, v = w
        PROVE  \A S \in SUBSET {1, 2} :
                 v[S] = IF S = {} THEN s ELSE Evolve(v[S \ {Max(S)}], es[Max(S)])
    <3>1. /\ v[{}] = s /\ v[{1}] = Evolve(s, e1) /\ v[{2}] = Evolve(s, e2)
          /\ v[{1, 2}] = Evolve(Evolve(s, e1), e2)
      BY <2>1, <2>2
    <3> HIDE DEF w
    <3>2. v[{1}] = Evolve(v[{1} \ {Max({1})}], es[Max({1})])
      BY <1>2, <1>4, <3>1, MaxIs
    <3>3. v[{2}] = Evolve(v[{2} \ {Max({2})}], es[Max({2})])
      BY <1>2, <1>4, <3>1, MaxIs
    <3>4. v[{1, 2}] = Evolve(v[{1, 2} \ {Max({1, 2})}], es[Max({1, 2})])
      BY <1>2, <1>4, <3>1, MaxIs
    <3>5. QED
      BY <1>3, <1>4, <3>1, <3>2, <3>3, <3>4
  <2>3. QED
    BY <2>2 DEF Fold
<1> HIDE DEF w
<1>6. PICK f : f = CHOOSE g : g = Fold(s, es, {1, 2}, g)
  OBVIOUS
<1>7. f = Fold(s, es, {1, 2}, f)
  BY <1>5, <1>6
<1>8. /\ {} \in SUBSET {1, 2} /\ {1} \in SUBSET {1, 2} /\ {1, 2} \in SUBSET {1, 2}
  OBVIOUS
<1>9. f[{}] = s
  BY <1>7, <1>8 DEF Fold
<1>10. f[{1}] = Evolve(f[{1} \ {1}], es[1])
  BY <1>4, <1>7, <1>8, MaxIs DEF Fold
<1>11. f[{1, 2}] = Evolve(f[{1, 2} \ {2}], es[2])
  BY <1>4, <1>7, <1>8, MaxIs DEF Fold
<1>12. After(s, es) = f[{1, 2}]
  BY <1>2, <1>6, AfterIsFold
<1>13. QED
  BY <1>1, <1>2, <1>4, <1>9, <1>10, <1>11, <1>12

-----------------------------------------------------------------------------
(* decide: what is done about a command of the schedule.                   *)

(* An event that may follow another one in any state.                      *)
Harmless(e) ==
  /\ Decodable(e)
  /\ e.type \in {"plan.invalidated", "risk.observed", "need.threshold.crossed"}

LEMMA HarmlessIsLegal ==
  ASSUME NEW e, Harmless(e), NEW s
  PROVE  Legal(s, e)
  BY DEF Harmless, Legal

(* A command of somebody at a moment, because of an event at most.         *)
Command(c) ==
  /\ c.agent \in Agents /\ c.at \in Nat
  /\ \A id \in c.caused : id[1] \in NamedByEvent

(* At most two events of the moment of the command: a legal one, and one   *)
(* that may follow anything.                                               *)
Proper(s, c, events) ==
  \/ events = <<>>
  \/ \E e : events = <<e>> /\ Legal(s, e) /\ e.at = c.at
  \/ \E e, f : events = <<e, f>> /\ Legal(s, e) /\ e.at = c.at /\ Harmless(f) /\ f.at = c.at

(* One event at most that may follow another.                              *)
Sequel(c, events) ==
  events = <<>> \/ \E e : events = <<e>> /\ Harmless(e) /\ e.at = c.at

LEMMA PairIs ==
  ASSUME NEW e, NEW f
  PROVE  <<e>> \o <<f>> = <<e, f>>
<1>1. PICK S : S = {e, f}
  OBVIOUS
<1>2. e \in S /\ f \in S
  BY <1>1
<1>3. <<e>> \in Seq(S) /\ <<f>> \in Seq(S) /\ <<e, f>> \in Seq(S)
  BY <1>2
<1>4. PICK a : a = <<e>>
  OBVIOUS
<1>5. PICK b : b = <<f>>
  OBVIOUS
<1>6. PICK d : d = <<e, f>>
  OBVIOUS
<1>7. a \in Seq(S) /\ Len(a) = 1 /\ a[1] = e
  BY <1>3, <1>4
<1>8. b \in Seq(S) /\ Len(b) = 1 /\ b[1] = f
  BY <1>3, <1>5
<1>9. d \in Seq(S) /\ Len(d) = 2 /\ d[1] = e /\ d[2] = f
  BY <1>3, <1>6
<1>10. /\ a \o b \in Seq(S) /\ Len(a \o b) = 2
       /\ \A i \in 1 .. 2 : (a \o b)[i] = IF i <= 1 THEN a[i] ELSE b[i - 1]
  BY <1>7, <1>8, ConcatProperties
<1>11. (a \o b)[1] = e /\ (a \o b)[2] = f
  BY <1>10, <1>7, <1>8
<1>12. a \o b = d
  BY <1>9, <1>10, <1>11, SeqEqual
<1>13. QED
  BY <1>4, <1>5, <1>6, <1>12

(* What a legal event and a sequel are together.                           *)
LEMMA ProperFirst ==
  ASSUME NEW s, NEW c, NEW e, Legal(s, e), e.at = c.at, NEW more, Sequel(c, more)
  PROVE  Proper(s, c, <<e>> \o more) /\ <<e>> \o more # <<>>
<1>1. CASE more = <<>>
  <2>1. <<e>> \o more = <<e>>
    BY <1>1
  <2>2. QED
    BY <2>1 DEF Proper
<1>2. ASSUME NEW f, more = <<f>>, Harmless(f), f.at = c.at
      PROVE  Proper(s, c, <<e>> \o more) /\ <<e>> \o more # <<>>
  <2>1. <<e>> \o more = <<e, f>>
    <3>1. <<e>> \o <<f>> = <<e, f>>
      BY PairIs
    <3>2. QED
      BY <1>2, <3>1
  <2>2. <<e, f>> # <<>>
    OBVIOUS
  <2>3. Proper(s, c, <<e, f>>)
    BY <1>2, Zenon DEF Proper
  <2>4. QED
    BY <2>1, <2>2, <2>3
<1>3. QED
  BY <1>1, <1>2 DEF Sequel

LEMMA SequelIsProper ==
  ASSUME NEW s, NEW c, NEW events, Sequel(c, events)
  PROVE  Proper(s, c, events)
  BY HarmlessIsLegal DEF Sequel, Proper

(* An event is addressed as its command is.                                *)
LEMMA EventIs ==
  ASSUME NEW type, NEW c, NEW payload, NEW e, e = Event(type, c, payload)
  PROVE  /\ e.type = type /\ e.agent = c.agent /\ e.at = c.at /\ e.caused = c.caused
         /\ e.payload = payload
  BY DEF Event

LEMMA EventIsDecodable ==
  ASSUME NEW type, NEW c, Command(c), NEW payload \in Payloads(type),
         NEW e, e = Event(type, c, payload)
  PROVE  Decodable(e) /\ e.type = type /\ e.at = c.at
<1>1. /\ e.type = type /\ e.agent = c.agent /\ e.at = c.at /\ e.caused = c.caused
      /\ e.payload = payload
  BY EventIs
<1>2. QED
  BY <1>1 DEF Decodable, EnvelopeFits, Command, Instants

(* A plan that fails, a crossing and a recovery may follow.                *)
LEMMA PlanFailureIsSequel ==
  ASSUME NEW agent \in Stored, NEW c, Command(c), NEW precondition \in PreconditionTypes
  PROVE  /\ Sequel(c, PlanFailure(agent, c, precondition))
         /\ PlanFailure(agent, c, precondition) = <<>> => agent.plan = 0
<1>1. CASE agent.plan = 0
  BY <1>1 DEF PlanFailure, Sequel
<1>2. CASE agent.plan # 0
  <2>1. PICK p : p = [plan |-> agent.plan, precondition |-> precondition]
    OBVIOUS
  <2>2. p \in Payloads("plan.invalidated")
    <3>1. agent.plan \in Nat \ {0}
      BY <1>2 DEF Stored
    <3>2. p \in [plan : Nat \ {0}, precondition : PreconditionTypes]
      BY <2>1, <3>1
    <3>3. QED
      BY <3>2, PayloadsAre
  <2>3. PICK e : e = Event("plan.invalidated", c, p)
    OBVIOUS
  <2>4. Harmless(e) /\ e.at = c.at
    BY <2>2, <2>3, EventIsDecodable DEF Harmless
  <2>5. PlanFailure(agent, c, precondition) = <<e>>
    BY <1>2, <2>1, <2>3 DEF PlanFailure
  <2>6. <<e>> # <<>>
    OBVIOUS
  <2>7. QED
    BY <2>4, <2>5, <2>6 DEF Sequel
<1>3. QED
  BY <1>1, <1>2

LEMMA NextCrossingNat ==
  ASSUME NEW need \in Needs, NEW baseline \in Nat, NEW level
  PROVE  NextCrossing(need, baseline, level) \in SUBSET Nat
<1>1. need \in DOMAIN Full
  BY RulesAssumption DEF ValidNeeds
<1>2. Worse(level) \in {"warning", "critical"}
  BY DEF Worse
<1>3. ReachedAt[Worse(level)] * Full[need] \in Nat
  <2>1. ReachedAt[Worse(level)] \in Nat /\ Full[need] \in Nat
    BY <1>1, <1>2, Rates
  <2>2. QED
    BY <2>1, ProductNat
<1>4. CeilDiv(ReachedAt[Worse(level)] * Full[need], 1000) \in Nat
  BY <1>3, CeilDivNat
<1>5. baseline + CeilDiv(ReachedAt[Worse(level)] * Full[need], 1000) \in Nat
  BY <1>4
<1>6. QED
  BY <1>5 DEF NextCrossing

LEMMA CrossedIsHarmless ==
  ASSUME NEW c, Command(c), NEW need \in Needs, NEW baseline \in Nat,
         NEW from \in NeedLevels, NEW level \in NeedLevels,
         NEW e, e = Crossed(c, need, from, level, baseline)
  PROVE  Harmless(e) /\ e.at = c.at
<1>1. PICK next : next = NextCrossing(need, baseline, level)
  OBVIOUS
<1>2. next \in SUBSET Nat
  BY <1>1, NextCrossingNat
<1>3. PICK p : p = [need |-> need, from |-> from, level |-> level, next |-> next]
  OBVIOUS
<1>4. p \in Payloads("need.threshold.crossed")
  <2>1. p \in [need : Needs, from : NeedLevels, level : NeedLevels, next : SUBSET Nat]
    BY <1>2, <1>3
  <2>2. QED
    BY <2>1, PayloadsAre
<1>5. e = Event("need.threshold.crossed", c, p)
  BY <1>1, <1>3 DEF Crossed
<1>6. QED
  BY <1>4, <1>5, EventIsDecodable DEF Harmless

LEMMA RecoveredIsSequel ==
  ASSUME NEW agent, NEW c, Command(c), NEW need \in Needs
  PROVE  Sequel(c, Recovered(agent, c, need))
<1>1. PICK from : from = Level(need, agent.baseline[need], c.at)
  OBVIOUS
<1>2. from \in NeedLevels /\ "normal" \in NeedLevels
  BY <1>1, LevelIsLevel DEF NeedLevels
<1>3. PICK e : e = Crossed(c, need, from, "normal", c.at)
  OBVIOUS
<1>4. Harmless(e) /\ e.at = c.at
  <2>1. PICK at \in Nat : at = c.at
    BY DEF Command
  <2>2. QED
    BY <1>2, <1>3, <2>1, CrossedIsHarmless
<1>5. Recovered(agent, c, need) \in {<<>>, <<e>>}
  BY <1>1, <1>3 DEF Recovered
<1>6. QED
  BY <1>4, <1>5 DEF Sequel

(* decide calls the function of the kind.                                  *)
LEMMA DecideIs ==
  ASSUME NEW s, NEW c
  PROVE  /\ c.kind = "journey.start" => Decide(s, c) = DecideJourneyStart(s, c)
         /\ c.kind = "journey.complete" => Decide(s, c) = DecideJourneyComplete(s, c)
         /\ c.kind = "need.threshold" => Decide(s, c) = DecideNeedThresholdCross(s, c)
         /\ c.kind = "agent.eat" => Decide(s, c) = DecideAgentEat(s, c)
         /\ c.kind = "agent.rest" => Decide(s, c) = DecideAgentRest(s, c)
         /\ c.kind = "rest.complete" => Decide(s, c) = DecideRestComplete(s, c)
         /\ c.kind = "agent.decide" => Decide(s, c) = DecideAgentDecide(s, c)
         /\ c.kind = "agent.travel" => Decide(s, c) = DecideAgentTravel(s, c)
<1>1. Decide(s, c) =
        CASE c.kind = "journey.start" -> DecideJourneyStart(s, c)
          [] c.kind = "journey.complete" -> DecideJourneyComplete(s, c)
          [] c.kind = "need.threshold" -> DecideNeedThresholdCross(s, c)
          [] c.kind = "agent.eat" -> DecideAgentEat(s, c)
          [] c.kind = "agent.rest" -> DecideAgentRest(s, c)
          [] c.kind = "rest.complete" -> DecideRestComplete(s, c)
          [] c.kind = "agent.decide" -> DecideAgentDecide(s, c)
          [] c.kind = "agent.travel" -> DecideAgentTravel(s, c)
  BY Zenon DEF Decide
<1>2. QED
  BY <1>1

(* The end of a journey or a rest is never refused, nor a decision, a step *)
(* towards a goal only to an agent that has no plan any more.              *)
Answered(s, c, events) ==
  /\ Proper(s, c, events)
  /\ events = <<>> => /\ c.kind \notin Sure
                      /\ c.kind \in Steps => s.agents[c.agent].plan = 0

(* Ways to answer.                                                         *)
LEMMA AnsweredFirst ==
  ASSUME NEW s, NEW c, NEW e, Legal(s, e), e.at = c.at, NEW more, Sequel(c, more)
  PROVE  Answered(s, c, <<e>> \o more)
<1>1. PICK events : events = <<e>> \o more
  OBVIOUS
<1>2. Proper(s, c, events) /\ events # <<>>
  BY <1>1, ProperFirst
<1>3. Answered(s, c, events)
  BY <1>2 DEF Answered
<1>4. QED
  BY <1>1, <1>3

LEMMA AnsweredOnce ==
  ASSUME NEW s, NEW c, NEW e, Legal(s, e), e.at = c.at
  PROVE  Answered(s, c, <<e>>)
<1>1. <<e>> # <<>>
  OBVIOUS
<1>2. Proper(s, c, <<e>>)
  BY Zenon DEF Proper
<1>3. QED
  BY <1>1, <1>2 DEF Answered

LEMMA AnsweredByFailure ==
  ASSUME NEW s \in States, NEW c, Command(c), c.kind \notin Sure,
         NEW precondition \in PreconditionTypes, NEW agent, agent = s.agents[c.agent]
  PROVE  Answered(s, c, PlanFailure(agent, c, precondition))
<1>1. PICK events : events = PlanFailure(agent, c, precondition)
  OBVIOUS
<1>2. Sequel(c, events) /\ (events = <<>> => agent.plan = 0)
  <2>1. agent \in Stored
    BY DEF Command, States
  <2>2. QED
    BY <1>1, <2>1, PlanFailureIsSequel
<1>3. Proper(s, c, events)
  BY <1>2, SequelIsProper
<1>4. QED
  BY <1>1, <1>2, <1>3 DEF Answered

(* Each kind of command is answered.                                       *)
LEMMA StartedIsLegal ==
  ASSUME NEW s, NEW c, Command(c), s.agents[c.agent].status = "idle", NEW r \in Routes,
         NEW e, e = Started(c, r)
  PROVE  Legal(s, e) /\ e.at = c.at
<1>1. PICK at \in Nat : at = c.at
  BY DEF Command
<1>2. PICK arrival : arrival = at + RouteMinutes[r]
  OBVIOUS
<1>3. arrival \in Nat
  BY <1>1, <1>2, RulesAssumption DEF ValidMap
<1>4. PICK p : p = [route |-> r, arrival |-> arrival]
  OBVIOUS
<1>5. p \in Payloads("journey.started")
  <2>1. p \in [route : Routes, arrival : Nat]
    BY <1>3, <1>4
  <2>2. QED
    BY <2>1, PayloadsAre
<1>6. e = Event("journey.started", c, p)
  BY <1>1, <1>2, <1>4 DEF Started
<1>7. Decodable(e) /\ e.type = "journey.started" /\ e.at = c.at
  BY <1>5, <1>6, EventIsDecodable
<1>8. e.agent = c.agent
  BY <1>6, EventIs
<1>9. QED
  BY <1>7, <1>8 DEF Legal

LEMMA JourneyStartAnswered ==
  ASSUME NEW s, NEW c, Command(c), c.kind = "journey.start", c.route \in Routes
  PROVE  Answered(s, c, Decide(s, c))
<1> DEFINE agent == s.agents[c.agent]
<1>1. Decide(s, c) = DecideJourneyStart(s, c)
  BY DecideIs
<1>2. CASE agent.status # "idle" \/ RouteFrom[c.route] # agent.place
  <2>1. Decide(s, c) = <<>>
    BY <1>1, <1>2, Zenon DEF DecideJourneyStart
  <2>2. c.kind \notin Sure /\ c.kind \notin Steps
    BY DEF Sure, NamedByEvent, Steps
  <2>3. QED
    BY <2>1, <2>2 DEF Answered, Proper
<1>3. CASE ~(agent.status # "idle" \/ RouteFrom[c.route] # agent.place)
  <2>1. PICK e : e = Started(c, c.route)
    OBVIOUS
  <2>2. Decide(s, c) = <<e>>
    BY <1>1, <1>3, <2>1, Zenon DEF DecideJourneyStart
  <2>3. PICK r \in Routes : r = c.route
    OBVIOUS
  <2>4. Legal(s, e) /\ e.at = c.at
    BY <1>3, <2>1, <2>3, StartedIsLegal
  <2>5. QED
    BY <2>2, <2>4, AnsweredOnce
<1>4. QED
  BY <1>2, <1>3

(* The command of an action.                                               *)
LEMMA CommandIs ==
  ASSUME NEW x, NEW at, NEW c, c = CommandFor(x, at)
  PROVE  /\ c.kind = x.kind /\ c.agent = x.agent /\ c.at = at /\ c.route = x.route
         /\ c.item = x.item /\ c.need = x.need /\ c.level = x.level
         /\ x.kind \in NamedByEvent => c.caused = {Id(x)}
         /\ \A id \in c.caused : id[1] \in NamedByEvent
<1>1. /\ c.kind = x.kind /\ c.agent = x.agent /\ c.at = at /\ c.route = x.route
      /\ c.item = x.item /\ c.need = x.need /\ c.level = x.level
      /\ c.caused = IF x.kind \in NamedByEvent THEN {Id(x)} ELSE {}
  BY DEF CommandFor, Caused
<1>2. x.kind \in NamedByEvent => Id(x)[1] = x.kind
  BY DEF Id, NamedByEvent
<1>3. QED
  BY <1>1, <1>2

(* What is known of an action on the schedule of a good state.             *)
LEMMA Scheduled ==
  ASSUME NEW s, NEW F, Good(s, F), NEW x \in s.schedule
  PROVE  /\ x \in Planned /\ x.kind \in KindNames /\ x.agent \in Agents /\ x.due \in Nat
         /\ x.ref \in Nat /\ Formed(x)
         /\ (x.kind # "need.threshold" => x.ref <= s.sequence)
         /\ x \in Of(s.schedule, x.agent)
<1>1. x \in Planned
  BY DEF Good, States
<1>2. Sound(x, s.sequence)
  BY DEF Good
<1>3. QED
  BY <1>1, <1>2 DEF Sound, Planned, Of

LEMMA JourneyCompleteAnswered ==
  ASSUME NEW s, NEW F, Good(s, F), NEW x \in s.schedule, x.kind = "journey.complete",
         NEW at \in Nat, NEW c, c = CommandFor(x, at)
  PROVE  Answered(s, c, Decide(s, c))
<1> DEFINE agent == s.agents[c.agent]
<1>1. /\ c.kind = "journey.complete" /\ c.agent = x.agent /\ c.at = at /\ c.route = x.route
      /\ c.caused = {Id(x)}
  BY CommandIs DEF NamedByEvent
<1>2. x.agent \in Agents /\ Formed(x) /\ x \in Of(s.schedule, x.agent) /\ Command(c)
  BY <1>1, Scheduled, CommandIs DEF Command
<1>3. Fine(agent, Of(s.schedule, c.agent), F)
  BY <1>1, <1>2 DEF Good
<1>4. agent.status = "traveling" /\ agent.route = x.route
  BY <1>1, <1>2, <1>3 DEF Fine
<1>5. x.route \in Routes
  BY <1>2 DEF Formed
<1>6. PICK e : e = Event("journey.completed", c, [route |-> c.route])
  OBVIOUS
<1>7. Legal(s, e) /\ e.at = c.at
  <2>1. PICK p : p = [route |-> c.route]
    OBVIOUS
  <2>2. p \in Payloads("journey.completed")
    <3>1. p \in [route : Routes]
      BY <1>1, <1>5, <2>1
    <3>2. QED
      BY <3>1, PayloadsAre
  <2>3. e = Event("journey.completed", c, p)
    BY <1>6, <2>1
  <2>4. Decodable(e) /\ e.type = "journey.completed" /\ e.at = c.at
    BY <1>2, <2>2, <2>3, EventIsDecodable
  <2>5. e.agent = c.agent /\ e.caused = c.caused
    BY <2>3, EventIs
  <2>6. QED
    BY <1>1, <2>4, <2>5 DEF Legal
<1>8. PICK f : f = Event("risk.observed", c, [route |-> c.route, risk |-> RouteRisk[c.route]])
  OBVIOUS
<1>9. Harmless(f) /\ f.at = c.at
  <2>1. PICK p : p = [route |-> c.route, risk |-> RouteRisk[c.route]]
    OBVIOUS
  <2>2. p \in Payloads("risk.observed")
    <3>1. RouteRisk[c.route] \in Permille
      BY <1>1, <1>5, RulesAssumption DEF ValidMap
    <3>2. p \in [route : Routes, risk : Permille]
      BY <1>1, <1>5, <2>1, <3>1
    <3>3. QED
      BY <3>2, PayloadsAre
  <2>3. f = Event("risk.observed", c, p)
    BY <1>8, <2>1
  <2>4. QED
    BY <1>2, <2>2, <2>3, EventIsDecodable DEF Harmless
<1>10. PICK more : more = IF c.route \in agent.known THEN <<>> ELSE <<f>>
  OBVIOUS
<1>11. Sequel(c, more)
  BY <1>9, <1>10 DEF Sequel
<1>12. Decide(s, c) = <<e>> \o more
  <2>1. Decide(s, c) = DecideJourneyComplete(s, c)
    BY <1>1, DecideIs
  <2>2. ~(agent.status # "traveling" \/ agent.route # c.route)
    BY <1>1, <1>4
  <2>3. QED
    BY <1>6, <1>8, <1>10, <2>1, <2>2, Zenon DEF DecideJourneyComplete
<1>13. QED
  BY <1>7, <1>11, <1>12, AnsweredFirst

LEMMA RestCompleteAnswered ==
  ASSUME NEW s, NEW F, Good(s, F), NEW x \in s.schedule, x.kind = "rest.complete",
         NEW at \in Nat, NEW c, c = CommandFor(x, at)
  PROVE  Answered(s, c, Decide(s, c))
<1> DEFINE agent == s.agents[c.agent]
<1>1. /\ c.kind = "rest.complete" /\ c.agent = x.agent /\ c.at = at /\ c.caused = {Id(x)}
  BY CommandIs DEF NamedByEvent
<1>2. x.agent \in Agents /\ x \in Of(s.schedule, x.agent) /\ Command(c)
  BY <1>1, Scheduled, CommandIs DEF Command
<1>3. Fine(agent, Of(s.schedule, c.agent), F)
  BY <1>1, <1>2 DEF Good
<1>4. agent.status = "resting"
  BY <1>1, <1>2, <1>3 DEF Fine
<1>5. PICK e : e = Event("agent.rested", c, <<>>)
  OBVIOUS
<1>6. Legal(s, e) /\ e.at = c.at
  <2>1. e.agent = c.agent /\ e.caused = c.caused
    BY <1>5, EventIs
  <2>2. <<>> \in Payloads("agent.rested")
    BY PayloadsAre
  <2>3. Decodable(e) /\ e.type = "agent.rested" /\ e.at = c.at
    BY <1>2, <1>5, <2>2, EventIsDecodable
  <2>4. QED
    BY <1>1, <2>1, <2>3 DEF Legal
<1>7. PICK more : more = Recovered(agent, c, "fatigue")
  OBVIOUS
<1>8. Sequel(c, more)
  BY <1>2, <1>7, RecoveredIsSequel DEF Needs
<1>9. Decide(s, c) = <<e>> \o more
  <2>1. Decide(s, c) = DecideRestComplete(s, c)
    BY <1>1, DecideIs
  <2>2. QED
    BY <1>4, <1>5, <1>7, <2>1, Zenon DEF DecideRestComplete
<1>10. QED
  BY <1>6, <1>8, <1>9, AnsweredFirst

LEMMA NeedThresholdAnswered ==
  ASSUME NEW s, NEW F, Good(s, F), NEW x \in s.schedule, x.kind = "need.threshold",
         NEW at \in Nat, NEW c, c = CommandFor(x, at)
  PROVE  Answered(s, c, Decide(s, c))
<1> DEFINE agent == s.agents[c.agent]
           baseline == agent.baseline[c.need]
<1>1. /\ c.kind = "need.threshold" /\ c.agent = x.agent /\ c.at = at
      /\ c.need = x.need /\ c.level = x.level
  BY CommandIs
<1>2. x.agent \in Agents /\ Formed(x)
  BY Scheduled
<1>3. c.need \in Needs /\ c.level \in NeedLevels /\ Better(c.level) \in NeedLevels
  BY <1>1, <1>2 DEF Formed, Better, NeedLevels
<1>4. c.kind \notin Sure /\ c.kind \notin Steps /\ Command(c)
  BY <1>1, <1>2, CommandIs DEF Sure, NamedByEvent, Steps, Command
<1>5. Decide(s, c) = DecideNeedThresholdCross(s, c)
  BY <1>1, DecideIs
<1>6. CASE Level(c.need, baseline, c.at) # c.level \/ c.level = "normal"
  <2>1. Decide(s, c) = <<>>
    BY <1>5, <1>6, Zenon DEF DecideNeedThresholdCross
  <2>2. QED
    BY <1>4, <2>1 DEF Answered, Proper
<1>7. CASE ~(Level(c.need, baseline, c.at) # c.level \/ c.level = "normal")
  <2>1. PICK e : e = Crossed(c, c.need, Better(c.level), c.level, baseline)
    OBVIOUS
  <2>2. agent \in Stored /\ baseline \in Nat
    <3>1. agent \in Stored
      BY <1>1, <1>2, Parts
    <3>2. QED
      BY <1>3, <3>1 DEF Stored
  <2>3. Harmless(e) /\ e.at = c.at
    BY <1>3, <1>4, <2>1, <2>2, CrossedIsHarmless
  <2>4. PICK more : more = EmergencyInterrupt(agent, c)
    OBVIOUS
  <2>5. Sequel(c, more)
    <3>1. more = <<>> \/ more = PlanFailure(agent, c, "agent.not_in_emergency")
      BY <2>4 DEF EmergencyInterrupt
    <3>2. Sequel(c, PlanFailure(agent, c, "agent.not_in_emergency"))
      BY <1>4, <2>2, PlanFailureIsSequel DEF PreconditionTypes
    <3>3. QED
      BY <3>1, <3>2 DEF Sequel
  <2>6. Decide(s, c) = <<e>> \o more
    BY <1>5, <1>7, <2>1, <2>4, Zenon DEF DecideNeedThresholdCross
  <2>7. QED
    BY <2>3, <2>5, <2>6, HarmlessIsLegal, AnsweredFirst
<1>8. QED
  BY <1>6, <1>7

LEMMA EatAnswered ==
  ASSUME NEW s \in States, NEW c, Command(c), c.kind = "agent.eat"
  PROVE  Answered(s, c, Decide(s, c))
<1> DEFINE agent == s.agents[c.agent]
<1>1. c.kind \notin Sure
  BY DEF Sure, NamedByEvent
<1>2. Decide(s, c) = DecideAgentEat(s, c)
  BY DecideIs
<1>3. CASE c.item \notin FoodOf(s, c.agent)
  <2>1. Decide(s, c) = PlanFailure(agent, c, "item.available_to_actor")
    BY <1>2, <1>3, Zenon DEF DecideAgentEat
  <2>2. QED
    BY <1>1, <2>1, AnsweredByFailure DEF PreconditionTypes
<1>4. CASE ~(c.item \notin FoodOf(s, c.agent))
  <2>1. PICK e : e = Event("agent.ate", c, [item |-> c.item])
    OBVIOUS
  <2>2. Legal(s, e) /\ e.at = c.at
    <3>1. PICK i : i = c.item
      OBVIOUS
    <3>2. PICK p : p = [item |-> i]
      OBVIOUS
    <3>3. i \in FoodOf(s, c.agent)
      BY <1>4, <3>1
    <3>4. s.items \in ItemMaps
      BY DEF States
    <3>5. i \in DOMAIN Food
      BY <3>3, <3>4 DEF FoodOf, ItemMaps
    <3>6. i \in Nat \ {0}
      BY <3>5, RunAssumption
    <3>7. p \in Payloads("agent.ate")
      <4>1. p \in [item : Nat \ {0}]
        BY <3>2, <3>6
      <4>2. QED
        BY <4>1, PayloadsAre
    <3>8. e = Event("agent.ate", c, p)
      BY <2>1, <3>1, <3>2
    <3>9. Decodable(e) /\ e.type = "agent.ate" /\ e.at = c.at
      BY <3>7, <3>8, EventIsDecodable
    <3>10. e.agent = c.agent /\ e.payload.item = i
      BY <3>2, <3>8, EventIs
    <3>11. QED
      BY <3>3, <3>9, <3>10 DEF Legal
  <2>3. PICK more : more = Recovered(agent, c, "hunger")
    OBVIOUS
  <2>4. Sequel(c, more)
    BY <2>3, RecoveredIsSequel DEF Needs
  <2>5. Decide(s, c) = <<e>> \o more
    BY <1>2, <1>4, <2>1, <2>3, Zenon DEF DecideAgentEat
  <2>6. QED
    BY <2>2, <2>4, <2>5, AnsweredFirst
<1>5. QED
  BY <1>3, <1>4

LEMMA RestAnswered ==
  ASSUME NEW s \in States, NEW c, Command(c), c.kind = "agent.rest"
  PROVE  Answered(s, c, Decide(s, c))
<1> DEFINE agent == s.agents[c.agent]
<1>1. c.kind \notin Sure
  BY DEF Sure, NamedByEvent
<1>2. Decide(s, c) = DecideAgentRest(s, c)
  BY DecideIs
<1>3. CASE agent.status # "idle"
  <2>1. Decide(s, c) = PlanFailure(agent, c, "agent.is_idle")
    BY <1>2, <1>3, Zenon DEF DecideAgentRest
  <2>2. QED
    BY <1>1, <2>1, AnsweredByFailure DEF PreconditionTypes
<1>4. CASE ~(agent.status # "idle")
  <2>1. PICK e : e = Event("rest.started", c, [ending |-> c.at + RestMinutes])
    OBVIOUS
  <2>2. Legal(s, e) /\ e.at = c.at
    <3>1. PICK at \in Nat : at = c.at
      BY DEF Command
    <3>2. PICK ending : ending = at + RestMinutes
      OBVIOUS
    <3>3. ending \in Nat
      BY <3>1, <3>2, Weights
    <3>4. PICK p : p = [ending |-> ending]
      OBVIOUS
    <3>5. p \in Payloads("rest.started")
      <4>1. p \in [ending : Nat]
        BY <3>3, <3>4
      <4>2. QED
        BY <4>1, PayloadsAre
    <3>6. e = Event("rest.started", c, p)
      BY <2>1, <3>1, <3>2, <3>4
    <3>7. Decodable(e) /\ e.type = "rest.started" /\ e.at = c.at
      BY <3>5, <3>6, EventIsDecodable
    <3>8. e.agent = c.agent
      BY <3>6, EventIs
    <3>9. QED
      BY <1>4, <3>7, <3>8 DEF Legal
  <2>3. Decide(s, c) = <<e>>
    BY <1>2, <1>4, <2>1, Zenon DEF DecideAgentRest
  <2>4. QED
    BY <2>2, <2>3, AnsweredOnce
<1>5. QED
  BY <1>3, <1>4

LEMMA DecideAnswered ==
  ASSUME NEW s \in States, NEW c, Command(c), c.kind = "agent.decide"
  PROVE  Answered(s, c, Decide(s, c))
<1>1. Decide(s, c) = DecideAgentDecide(s, c)
  BY DecideIs
<1>2. PICK goal : goal = ChooseGoal(s, c.agent, c.at)
  OBVIOUS
<1>3. PICK p : p = [goal |-> goal, previous |-> s.agents[c.agent].goal]
  OBVIOUS
<1>4. PICK e : e = Event("goal.chosen", c, p)
  OBVIOUS
<1>5. Decide(s, c) = <<e>>
  BY <1>1, <1>2, <1>3, <1>4, Zenon DEF DecideAgentDecide
<1>6. PICK ag \in Agents : ag = c.agent
  BY DEF Command
<1>7. goal \in GoalNames /\ Feasible(s, ag, goal)
  BY <1>2, <1>6, ChosenGoalIsFeasible
<1>8. goal = "eat" => FoodOf(s, ag) # {}
  BY <1>7 DEF Feasible
<1>9. p \in Payloads("goal.chosen") /\ p.goal = goal
  <2>1. PICK previous : previous = s.agents[c.agent].goal
    OBVIOUS
  <2>2. previous \in GoalNames
    BY <1>6, <2>1 DEF States, Stored
  <2>3. p \in [goal : Range(Goals), previous : Range(Goals)]
    BY <1>3, <1>7, <2>1, <2>2, GoalsAreNames
  <2>4. QED
    BY <1>3, <2>3, PayloadsAre
<1>10. Decodable(e) /\ e.type = "goal.chosen" /\ e.at = c.at
  BY <1>4, <1>9, EventIsDecodable
<1>11. Legal(s, e) /\ e.at = c.at
  <2>1. e.agent = ag /\ e.payload = p
    BY <1>4, <1>6, EventIs
  <2>2. QED
    BY <1>8, <1>9, <1>10, <2>1 DEF Legal
<1>12. QED
  BY <1>5, <1>11, AnsweredOnce

LEMMA TravelAnswered ==
  ASSUME NEW s \in States, NEW c, Command(c), c.kind = "agent.travel"
  PROVE  Answered(s, c, Decide(s, c))
<1> DEFINE agent == s.agents[c.agent]
<1>1. c.kind \notin Sure
  BY DEF Sure, NamedByEvent
<1>2. Decide(s, c) = DecideAgentTravel(s, c)
  BY DecideIs
<1>3. CASE agent.status # "idle"
  <2>1. Decide(s, c) = PlanFailure(agent, c, "agent.is_idle")
    BY <1>2, <1>3, Zenon DEF DecideAgentTravel
  <2>2. QED
    BY <1>1, <2>1, AnsweredByFailure DEF PreconditionTypes
<1>4. CASE ~(agent.status # "idle") /\ Options(agent) = {}
  <2>1. Decide(s, c) = PlanFailure(agent, c, "route.available_from_location")
    BY <1>2, <1>4, Zenon DEF DecideAgentTravel
  <2>2. QED
    BY <1>1, <2>1, AnsweredByFailure DEF PreconditionTypes
<1>5. CASE ~(agent.status # "idle") /\ ~(Options(agent) = {})
  <2>1. PICK r : r = ChooseRoute(agent)
    OBVIOUS
  <2>2. r \in Routes
    <3>1. agent \in Stored
      BY DEF Command, States
    <3>2. QED
      BY <1>5, <2>1, <3>1, ChooseRouteIsOption
  <2>3. PICK e : e = Started(c, r)
    OBVIOUS
  <2>4. Decide(s, c) = <<e>>
    BY <1>2, <1>5, <2>1, <2>3, Zenon DEF DecideAgentTravel
  <2>5. Legal(s, e) /\ e.at = c.at
    BY <1>5, <2>2, <2>3, StartedIsLegal
  <2>6. QED
    BY <2>4, <2>5, AnsweredOnce
<1>6. QED
  BY <1>3, <1>4, <1>5

(* Whatever the schedule holds, its command is answered.                   *)
LEMMA ScheduleIsAnswered ==
  ASSUME NEW s, NEW F, Good(s, F), NEW x \in s.schedule, NEW at \in Nat,
         NEW c, c = CommandFor(x, at)
  PROVE  Answered(s, c, Decide(s, c))
<1>1. c.kind = x.kind /\ c.agent = x.agent /\ c.at = at
  BY CommandIs
<1>2. x.kind \in KindNames /\ x.agent \in Agents
  BY Scheduled
<1>3. Command(c) /\ s \in States
  BY <1>1, <1>2, CommandIs DEF Command, Good
<1>4. CASE x.kind = "rest.complete"
  BY <1>4, RestCompleteAnswered
<1>5. CASE x.kind = "journey.complete"
  BY <1>5, JourneyCompleteAnswered
<1>6. CASE x.kind = "need.threshold"
  BY <1>6, NeedThresholdAnswered
<1>7. CASE x.kind = "agent.decide"
  BY <1>1, <1>3, <1>7, DecideAnswered
<1>8. CASE x.kind = "agent.eat"
  BY <1>1, <1>3, <1>8, EatAnswered
<1>9. CASE x.kind = "agent.rest"
  BY <1>1, <1>3, <1>9, RestAnswered
<1>10. CASE x.kind = "agent.travel"
  BY <1>1, <1>3, <1>10, TravelAnswered
<1>11. QED
  BY <1>2, <1>4, <1>5, <1>6, <1>7, <1>8, <1>9, <1>10 DEF KindNames

(* Accepted: the events lead from a good state to a later good one.        *)
LEMMA AcceptedIsGood ==
  ASSUME NEW s, NEW F, Good(s, F), Old(F, s.sequence),
         NEW c, NEW events, Proper(s, c, events), events # <<>>,
         NEW t, t = After(s, events)
  PROVE  Good(t, F) /\ t.time = c.at /\ t.sequence \in Nat /\ t.sequence > s.sequence
<1>1. s.sequence \in Nat
  BY DEF Good, States
<1>2. PICK n \in Nat : n = s.sequence
  BY <1>1
<1>3. Old(F, n) /\ n <= s.sequence
  BY <1>2
<1>4. ASSUME NEW e, events = <<e>>, Legal(s, e), e.at = c.at
      PROVE  Good(t, F) /\ t.time = c.at /\ t.sequence \in Nat /\ t.sequence > s.sequence
  <2>1. t = Evolve(s, e)
    BY <1>4, AfterOne
  <2>2. Good(t, F) /\ t.time = e.at /\ t.sequence = s.sequence + 1
    BY <1>3, <1>4, <2>1, EvolveIsGood
  <2>3. QED
    BY <1>1, <1>4, <2>2
<1>5. ASSUME NEW e, NEW f, events = <<e, f>>, Legal(s, e), e.at = c.at, Harmless(f), f.at = c.at
      PROVE  Good(t, F) /\ t.time = c.at /\ t.sequence \in Nat /\ t.sequence > s.sequence
  <2>1. PICK u : u = Evolve(s, e)
    OBVIOUS
  <2>2. Good(u, F) /\ u.time = e.at /\ u.sequence = s.sequence + 1
    BY <1>3, <1>5, <2>1, EvolveIsGood
  <2>3. Legal(u, f)
    BY <1>5, HarmlessIsLegal
  <2>4. n <= u.sequence
    BY <1>2, <2>2
  <2>5. t = Evolve(u, f)
    BY <1>5, <2>1, AfterTwo
  <2>6. Good(t, F) /\ t.time = f.at /\ t.sequence = u.sequence + 1
    BY <1>3, <2>2, <2>3, <2>4, <2>5, EvolveIsGood
  <2>7. QED
    BY <1>1, <1>5, <2>2, <2>6
<1>6. QED
  BY <1>4, <1>5 DEF Proper

(* Rejected: the action is not one that somebody waits for.                *)
LEMMA RejectedIsGood ==
  ASSUME NEW s, NEW F, Good(s, F), Old(F, s.sequence), NEW x \in s.schedule,
         NEW c, c.kind = x.kind, c.agent = x.agent, Answered(s, c, <<>>)
  PROVE  Good(s, F \cup {x}) /\ Old(F \cup {x}, s.sequence)
<1>1. x.kind \notin Sure /\ (x.kind \in Steps => s.agents[x.agent].plan = 0)
  BY DEF Answered
<1>2. x.kind # "need.threshold" => x.ref <= s.sequence
  BY Scheduled
<1>3. Old(F \cup {x}, s.sequence)
  BY <1>1, <1>2 DEF Old
<1>4. ASSUME NEW ag \in Agents PROVE Fine(s.agents[ag], Of(s.schedule, ag), F \cup {x})
  <2> DEFINE a == s.agents[ag]
             X == Of(s.schedule, ag)
  <2>1. Fine(a, X, F)
    BY DEF Good
  <2>2. a.status = "idle" /\ a.goal # "idle" => \E y \in X : y.kind \in Steps /\ y \notin F \cup {x}
    <3> SUFFICES ASSUME a.status = "idle", a.goal # "idle"
                 PROVE  \E y \in X : y.kind \in Steps /\ y \notin F \cup {x}
      OBVIOUS
    <3>1. PICK y \in X : y.kind \in Steps /\ y \notin F
      BY <2>1 DEF Fine
    <3>2. a.plan # 0
      BY <2>1 DEF Fine
    <3>3. y.agent = ag
      BY DEF Of
    <3>4. y # x
      BY <1>1, <3>1, <3>2, <3>3
    <3>5. QED
      BY <3>1, <3>4
  <2>3. QED
    BY <2>1, <2>2 DEF Fine
<1>5. s \in States /\ \A y \in s.schedule : Sound(y, s.sequence)
  BY DEF Good
<1>6. \A ag \in Agents : s.agents[ag].plan <= s.sequence
  BY DEF Good
<1>7. QED
  BY <1>3, <1>4, <1>5, <1>6 DEF Good

-----------------------------------------------------------------------------
(* The tables. F is now the actions whose rows are marked as failed.       *)

(* The actions whose rows are marked as failed.                            *)
Failed == {rows[id].action : id \in {i \in DOMAIN rows : rows[i].outcome = "failed"}}

(* Every row is one that can be loaded.                                    *)
RowsAreKnown ==
  \A id \in DOMAIN rows :
    /\ rows[id].outcome \in {"pending", "completed", "failed"}
    /\ rows[id].action \in Planned /\ Formed(rows[id].action)

(* Nothing is served that is later than what is announced.                 *)
Timely ==
  /\ observed \in Nat /\ observed <= MaxTime
  /\ time \in Nat /\ time <= observed /\ now \in Nat /\ now <= observed
  /\ batch \subseteq DOMAIN rows /\ \A id \in batch : rows[id].action.due <= observed

(* The inductive invariant, with what a replay arrives at.                 *)
Healthy ==
  /\ Good(Loaded, Failed) /\ Old(Failed, sequence)
  /\ RowsAreKnown /\ Timely

WorldInv == IInv /\ Healthy

(* What the state that is loaded has in common with the tables.            *)
LEMMA LoadedIs ==
  /\ Loaded.time = time /\ Loaded.sequence = sequence /\ Loaded.agents = agents
  /\ Loaded.items = items /\ Loaded.schedule = Unfinished(rows)
  BY DEF Loaded

LEMMA FailedIsScheduled == Failed \subseteq Unfinished(rows)
  BY DEF Failed, Unfinished

-----------------------------------------------------------------------------
(* A world begins healthy.                                                 *)
LEMMA FirstState ==
  ASSUME NEW ags, ags \in [Agents -> Stored],
         \A ag \in Agents : ags[ag].status = "idle" /\ ags[ag].goal = "idle" /\ ags[ag].plan = 0,
         NEW X \in SUBSET Planned,
         \A x \in X : x.kind = "need.threshold" /\ Sound(x, 0),
         NEW s, s = [time |-> 0, sequence |-> 0, agents |-> ags, items |-> Food, schedule |-> X]
  PROVE  Good(s, {})
<1>1. Food \in ItemMaps
  BY RunAssumption DEF ItemMaps
<1>2. s \in States
  BY <1>1 DEF States
<1>3. s.sequence = 0 /\ s.agents = ags /\ s.schedule = X
  OBVIOUS
<1>4. \A x \in s.schedule : Sound(x, s.sequence)
  BY <1>3
<1>5. ASSUME NEW ag \in Agents
      PROVE  s.agents[ag].plan <= s.sequence /\ Fine(s.agents[ag], Of(s.schedule, ag), {})
  <2>1. PICK a : a = ags[ag]
    OBVIOUS
  <2>2. a.status = "idle" /\ a.goal = "idle" /\ a.plan = 0
    BY <2>1
  <2>3. PICK Y : Y = Of(X, ag)
    OBVIOUS
  <2>4. \A y \in Y : y.kind = "need.threshold"
    BY <2>3 DEF Of
  <2>5. Fine(a, Y, {})
    BY <2>2, <2>4 DEF Fine, NamedByEvent
  <2>6. QED
    BY <1>3, <2>1, <2>2, <2>3, <2>5
<1>6. QED
  BY <1>2, <1>4, <1>5 DEF Good

LEMMA FirstRows ==
  ASSUME NEW x \in InitialSchedule
  PROVE  x \in Planned /\ Sound(x, 0) /\ x.kind = "need.threshold"
<1>1. PICK ag \in Agents, need \in Needs,
           due \in UNION {NextCrossing(n, 0, "normal") : n \in Needs} :
        x = Crossing(ag, need, due, "warning")
  BY DEF InitialSchedule, FirstCrossings
<1>2. due \in Nat
  <2>1. PICK n \in Needs : due \in NextCrossing(n, 0, "normal")
    BY <1>1
  <2>2. 0 \in Nat
    OBVIOUS
  <2>3. QED
    BY <2>1, <2>2, NextCrossingNat
<1>3. QED
  BY <1>1, <1>2, NewCrossing

LEMMA InitHealthy == Init => Healthy
<1> SUFFICES ASSUME Init PROVE Healthy
  OBVIOUS
<1>1. /\ rows = Enrolled /\ time = 0 /\ sequence = 0 /\ items = Food
      /\ observed = 0 /\ now = 0 /\ batch = {}
  BY DEF Init
<1>2. ASSUME NEW id \in DOMAIN Enrolled
      PROVE  Enrolled[id].outcome = "pending" /\ Enrolled[id].action \in InitialSchedule
  <2>1. PICK x \in InitialSchedule : Id(x) = id
    BY DEF Enrolled
  <2> DEFINE y == CHOOSE z \in InitialSchedule : Id(z) = id
  <2>2. y \in InitialSchedule
    BY <2>1
  <2> HIDE DEF y
  <2>3. Enrolled[id] = [action |-> y, outcome |-> "pending"]
    BY DEF Enrolled, y
  <2>4. QED
    BY <2>2, <2>3
<1>3. RowsAreKnown
  <2> SUFFICES ASSUME NEW id \in DOMAIN rows
               PROVE  /\ rows[id].outcome \in {"pending", "completed", "failed"}
                      /\ rows[id].action \in Planned /\ Formed(rows[id].action)
    BY DEF RowsAreKnown
  <2>1. rows[id].outcome = "pending" /\ rows[id].action \in InitialSchedule
    BY <1>1, <1>2
  <2>2. QED
    BY <2>1, FirstRows DEF Sound
<1>4. Failed = {}
  BY <1>1, <1>2 DEF Failed
<1>5. PICK X : X = Unfinished(rows)
  OBVIOUS
<1>6. X \subseteq InitialSchedule
  BY <1>1, <1>2, <1>5 DEF Unfinished
<1>7. X \in SUBSET Planned /\ \A x \in X : x.kind = "need.threshold" /\ Sound(x, 0)
  BY <1>6, FirstRows
<1>8. PICK place \in [Agents -> StartPlaces], caution \in [Agents -> Cautions] :
        agents = [ag \in Agents |-> Newborn(place[ag], caution[ag])]
  BY DEF Init
<1>9. ASSUME NEW ag \in Agents
      PROVE  /\ agents[ag] \in Stored
             /\ agents[ag].status = "idle" /\ agents[ag].goal = "idle" /\ agents[ag].plan = 0
  <2>1. agents[ag] = Newborn(place[ag], caution[ag])
    BY <1>8
  <2>2. PICK p, k : p = place[ag] /\ k = caution[ag]
    OBVIOUS
  <2>3. p \in Places /\ k \in Nat
    <3>1. p \in StartPlaces /\ k \in Cautions
      BY <1>8, <2>2
    <3>2. StartPlaces \subseteq Places /\ Cautions \subseteq 0 .. 10000
      BY RunAssumption
    <3>3. p \in Places /\ k \in 0 .. 10000
      BY <3>1, <3>2
    <3>4. QED
      BY <3>3
  <2>4. PICK base : base = [hunger |-> 0, fatigue |-> 0]
    OBVIOUS
  <2>5. base \in [Needs -> Nat]
    BY <2>4 DEF Needs
  <2>6. PICK a : a = [place |-> p, status |-> "idle", route |-> 0, goal |-> "idle", plan |-> 0,
                      baseline |-> base, known |-> {}, caution |-> k]
    OBVIOUS
  <2>7. a \in Stored /\ a.status = "idle" /\ a.goal = "idle" /\ a.plan = 0
    BY <2>3, <2>5, <2>6 DEF Stored, Statuses, GoalNames
  <2>8. agents[ag] = a
    BY <2>1, <2>2, <2>4, <2>6, Zenon DEF Newborn
  <2>9. QED
    BY <2>7, <2>8
<1>10. agents \in [Agents -> Stored]
  <2>1. agents = [ag \in Agents |-> agents[ag]]
    BY <1>8
  <2>2. QED
    BY <1>9, <2>1
<1>11. PICK s : s = Loaded
  OBVIOUS
<1>12. s = [time |-> 0, sequence |-> 0, agents |-> agents, items |-> Food, schedule |-> X]
  BY <1>1, <1>5, <1>11 DEF Loaded
<1>13. Good(s, {})
  BY <1>7, <1>9, <1>10, <1>12, FirstState
<1>14. Old(Failed, sequence)
  BY <1>4 DEF Old
<1>15. Timely
  BY <1>1, RunAssumption DEF Timely
<1>16. QED
  BY <1>3, <1>4, <1>11, <1>13, <1>14, <1>15 DEF Healthy

-----------------------------------------------------------------------------
(* What it says of the properties.                                         *)
LEMMA NobodyIsStuck ==
  ASSUME Healthy
  PROVE  NobodyStuck
<1> SUFFICES ASSUME NEW ag \in Agents
             PROVE  /\ agents[ag].status = "traveling" <=>
                         \E id \in Pended(ag, "journey.complete") :
                           rows[id].action.route = agents[ag].route
                    /\ agents[ag].status = "resting" <=> Pended(ag, "rest.complete") # {}
                    /\ agents[ag].goal = "idle" <=> agents[ag].plan = 0
                    /\ agents[ag].status = "idle" /\ agents[ag].goal # "idle" =>
                         Pended(ag, "agent.eat") \cup Pended(ag, "agent.rest")
                           \cup Pended(ag, "agent.travel") # {}
  BY DEF NobodyStuck
<1>1. PICK a : a = agents[ag]
  OBVIOUS
<1>2. PICK X : X = Of(Unfinished(rows), ag)
  OBVIOUS
<1>3. Fine(a, X, Failed)
  BY <1>1, <1>2, LoadedIs DEF Healthy, Good
<1>4. ASSUME NEW x \in X, x \notin Failed
      PROVE  \E id \in Pended(ag, x.kind) : rows[id].action = x
  <2>1. x \in Unfinished(rows) /\ x.agent = ag
    BY <1>2 DEF Of
  <2>2. PICK id \in DOMAIN rows : rows[id].outcome # "completed" /\ rows[id].action = x
    BY <2>1 DEF Unfinished
  <2>3. rows[id].outcome # "failed"
    BY <1>4, <2>2 DEF Failed
  <2>4. rows[id].outcome = "pending"
    BY <2>2, <2>3 DEF Healthy, RowsAreKnown
  <2>5. QED
    BY <2>1, <2>2, <2>4 DEF Pended, Pending
<1>5. ASSUME NEW kind, NEW id \in Pended(ag, kind)
      PROVE  rows[id].action \in X /\ rows[id].action.kind = kind
  <2>1. id \in DOMAIN rows /\ rows[id].outcome = "pending"
    BY DEF Pended, Pending
  <2>2. rows[id].action.agent = ag /\ rows[id].action.kind = kind
    BY DEF Pended
  <2>3. rows[id].action \in Unfinished(rows)
    BY <2>1 DEF Unfinished
  <2>4. QED
    BY <1>2, <2>2, <2>3 DEF Of
<1>6. \A x \in X : x.kind \in NamedByEvent => x \notin Failed
  BY DEF Healthy, Old, Sure
<1>7. a.status = "traveling" <=>
        \E id \in Pended(ag, "journey.complete") : rows[id].action.route = a.route
  <2>1. ASSUME a.status = "traveling"
        PROVE  \E id \in Pended(ag, "journey.complete") : rows[id].action.route = a.route
    <3>1. PICK x \in X : x.kind = "journey.complete"
      BY <1>3, <2>1 DEF Fine
    <3>2. x.route = a.route
      BY <1>3, <3>1 DEF Fine
    <3>3. x \notin Failed
      BY <1>6, <3>1 DEF NamedByEvent
    <3>4. QED
      BY <1>4, <3>1, <3>2, <3>3
  <2>2. ASSUME NEW id \in Pended(ag, "journey.complete") PROVE a.status = "traveling"
    <3>1. rows[id].action \in X /\ rows[id].action.kind = "journey.complete"
      BY <1>5
    <3>2. QED
      BY <1>3, <3>1 DEF Fine
  <2>3. QED
    BY <2>1, <2>2
<1>8. a.status = "resting" <=> Pended(ag, "rest.complete") # {}
  <2>1. ASSUME a.status = "resting" PROVE Pended(ag, "rest.complete") # {}
    <3>1. PICK x \in X : x.kind = "rest.complete"
      BY <1>3, <2>1 DEF Fine
    <3>2. x \notin Failed
      BY <1>6, <3>1 DEF NamedByEvent
    <3>3. QED
      BY <1>4, <3>1, <3>2
  <2>2. ASSUME NEW id \in Pended(ag, "rest.complete") PROVE a.status = "resting"
    <3>1. rows[id].action \in X /\ rows[id].action.kind = "rest.complete"
      BY <1>5
    <3>2. QED
      BY <1>3, <3>1 DEF Fine
  <2>3. QED
    BY <2>1, <2>2
<1>9. a.goal = "idle" <=> a.plan = 0
  BY <1>3 DEF Fine
<1>10. a.status = "idle" /\ a.goal # "idle" =>
         Pended(ag, "agent.eat") \cup Pended(ag, "agent.rest") \cup Pended(ag, "agent.travel") # {}
  <2> SUFFICES ASSUME a.status = "idle", a.goal # "idle"
               PROVE  Pended(ag, "agent.eat") \cup Pended(ag, "agent.rest")
                        \cup Pended(ag, "agent.travel") # {}
    OBVIOUS
  <2>1. PICK x \in X : x.kind \in Steps /\ x \notin Failed
    BY <1>3 DEF Fine
  <2>2. PICK id \in Pended(ag, x.kind) : TRUE
    BY <1>4, <2>1
  <2>3. x.kind = "agent.eat" \/ x.kind = "agent.rest" \/ x.kind = "agent.travel"
    BY <2>1 DEF Steps
  <2>4. QED
    BY <2>2, <2>3
<1>11. QED
  BY <1>1, <1>7, <1>8, <1>9, <1>10

LEMMA TypesAreRight ==
  ASSUME IInv, Healthy
  PROVE  TypeOK
<1>1. Good(Loaded, Failed)
  BY DEF Healthy
<1>2. /\ sequence \in Nat /\ items \in ItemMaps /\ agents \in [Agents -> Stored]
      /\ \A ag \in Agents : agents[ag].plan <= sequence
  BY <1>1, LoadedIs DEF Good, States
<1>3. \A i \in DOMAIN items : items[i] \in Agents
  BY <1>2 DEF ItemMaps
<1>4. GoalNames = Range(Goals)
  BY GoalsAreNames
<1>5. ASSUME NEW ag \in Agents PROVE agents[ag] \in AgentStates(sequence)
  <2>1. agents[ag] \in Stored /\ agents[ag].plan <= sequence
    BY <1>2
  <2>2. agents[ag].plan \in 0 .. sequence
    BY <1>2, <2>1 DEF Stored
  <2>3. QED
    BY <1>4, <2>1, <2>2 DEF Stored, AgentStates, Statuses
<1>6. agents \in [Agents -> AgentStates(sequence)]
  BY <1>2, <1>5
<1>7. time \in 0 .. observed /\ observed \in 0 .. MaxTime /\ batch \subseteq DOMAIN rows
  BY RunAssumption DEF Healthy, Timely
<1>8. ASSUME NEW id \in DOMAIN rows
      PROVE  /\ Id(rows[id].action) = id /\ Formed(rows[id].action)
             /\ rows[id].outcome \in {"pending", "completed", "failed"}
  BY DEF IInv, RowsAreRows, Healthy, RowsAreKnown
<1>9. QED
  BY <1>2, <1>3, <1>6, <1>7, <1>8 DEF TypeOK

-----------------------------------------------------------------------------
(* Every step leaves the tables healthy.                                   *)

(* A command that was accepted leaves what the rules made of the state.    *)
LEMMA AcceptedIsLoaded ==
  ASSUME NEW events, NEW after, Accept(Loaded, after, events)
  PROVE  Loaded' = after
<1>1. Loaded' = Reread(Loaded, after)
  BY DEF Accept, Save, Loaded, Reread, Unfinished
<1>2. Reread(Loaded, after) = after
  BY DEF Accept, CanSave
<1>3. QED
  BY <1>1, <1>2

(* A row stays, and what had failed stays failed.                          *)
LEMMA RowsStay ==
  ASSUME WorldInv, NEW after, NEW events, Accept(Loaded, after, events),
         NEW id \in DOMAIN rows
  PROVE  /\ id \in DOMAIN rows' /\ rows'[id].action = rows[id].action
         /\ rows'[id].outcome \in {"pending", "completed", "failed"}
         /\ rows'[id].outcome = "failed" <=> rows[id].outcome = "failed"
         /\ rows'[id].outcome = "pending" => rows[id].outcome = "pending"
<1> DEFINE added == Added(Loaded, after)
           removed == Removed(Loaded, after)
<1>1. rows' = NextRows(Loaded, after)
  BY DEF Accept, Save
<1>2. rows[id] = Row(rows[id])
  BY DEF WorldInv, IInv, RowsAreRows
<1>3. id \in removed => rows[id].outcome # "failed"
  BY DEF Accept, CanSave, Violates
<1>4. rows[id].outcome \in {"pending", "completed", "failed"}
  BY DEF WorldInv, Healthy, RowsAreKnown
<1>5. id \in DOMAIN rows'
  BY <1>1 DEF NextRows
<1>6. CASE id \in removed
  <2>1. rows'[id] = [rows[id] EXCEPT !.outcome = "completed"]
    BY <1>1, <1>6 DEF NextRows
  <2>2. rows'[id] = [action |-> rows[id].action, outcome |-> "completed"]
    BY <1>2, <2>1 DEF Row
  <2>3. QED
    BY <1>3, <1>5, <1>6, <2>2
<1>7. CASE id \notin removed
  <2>1. rows'[id] = rows[id]
    BY <1>1, <1>7 DEF NextRows
  <2>2. QED
    BY <1>4, <1>5, <2>1
<1>8. QED
  BY <1>6, <1>7

(* A row that is new is an action of the later state, and waits.           *)
LEMMA RowsCome ==
  ASSUME WorldInv, NEW after, NEW events, Accept(Loaded, after, events),
         NEW id \in DOMAIN rows', id \notin DOMAIN rows
  PROVE  rows'[id].outcome = "pending" /\ rows'[id].action \in after.schedule
<1> DEFINE added == Added(Loaded, after)
           removed == Removed(Loaded, after)
<1>1. rows' = NextRows(Loaded, after)
  BY DEF Accept, Save
<1>2. id \notin removed
  BY RemovedAreRows DEF WorldInv
<1>3. PICK x \in added : Id(x) = id
  BY <1>1 DEF NextRows
<1> DEFINE y == CHOOSE z \in added : Id(z) = id
<1>4. y \in added
  BY <1>3
<1>5. rows'[id] = [action |-> y, outcome |-> "pending"]
  BY <1>1, <1>2 DEF NextRows
<1> HIDE DEF y
<1>6. y \in after.schedule
  BY <1>4 DEF Added
<1>7. QED
  BY <1>5, <1>6

(* An accepted command leaves the tables healthy.                          *)
LEMMA AcceptHealthy ==
  ASSUME WorldInv, NEW s, s = Loaded, NEW c, NEW events, Proper(s, c, events), events # <<>>,
         NEW after, after = After(s, events), Accept(s, after, events),
         c.at \in Nat, c.at <= observed, observed' = observed, now' \in Nat, now' <= observed,
         batch' \subseteq batch
  PROVE  Healthy'
<1>1. Good(s, Failed) /\ Old(Failed, s.sequence)
  BY LoadedIs DEF WorldInv, Healthy
<1>2. /\ Good(after, Failed) /\ after.time = c.at /\ after.sequence \in Nat
      /\ after.sequence > s.sequence
  BY <1>1, AcceptedIsGood
<1>3. Loaded' = after
  BY AcceptedIsLoaded
<1>4. time' = after.time /\ sequence' = after.sequence
  BY DEF Accept, Save
<1>5. \A id \in DOMAIN rows : /\ id \in DOMAIN rows' /\ rows'[id].action = rows[id].action
                              /\ rows'[id].outcome \in {"pending", "completed", "failed"}
                              /\ rows'[id].outcome = "failed" <=> rows[id].outcome = "failed"
  BY RowsStay
<1>6. \A id \in DOMAIN rows' : id \notin DOMAIN rows =>
        rows'[id].outcome = "pending" /\ rows'[id].action \in after.schedule
  BY RowsCome
<1>7. Failed' = Failed
  BY <1>5, <1>6 DEF Failed
<1>8. Good(Loaded, Failed)'
  BY <1>2, <1>3, <1>7
<1>9. Old(Failed, sequence)'
  <2>1. \A x \in Failed : x.ref \in Nat
    <3>1. \A x \in Failed : x \in Loaded.schedule
      BY FailedIsScheduled, LoadedIs
    <3>2. QED
      BY <1>1, <3>1, Scheduled
  <2>2. s.sequence \in Nat
    BY <1>1 DEF Good, States
  <2>3. \A x \in Failed :
          x.kind \notin Sure /\ (x.kind # "need.threshold" => x.ref <= after.sequence)
    BY <1>1, <1>2, <2>1, <2>2 DEF Old
  <2>4. Old(Failed, after.sequence)
    BY <2>3 DEF Old
  <2>5. QED
    BY <1>4, <1>7, <2>4
<1>10. RowsAreKnown'
  <2> SUFFICES ASSUME NEW id \in DOMAIN rows'
               PROVE  /\ rows'[id].outcome \in {"pending", "completed", "failed"}
                      /\ rows'[id].action \in Planned /\ Formed(rows'[id].action)
    BY DEF RowsAreKnown
  <2>1. CASE id \in DOMAIN rows
    <3>1. rows[id].action \in Planned /\ Formed(rows[id].action)
      BY <2>1 DEF WorldInv, Healthy, RowsAreKnown
    <3>2. QED
      BY <1>5, <2>1, <3>1
  <2>2. CASE id \notin DOMAIN rows
    <3>1. PICK x \in after.schedule : x = rows'[id].action
      BY <1>6, <2>2
    <3>2. x \in Planned /\ Formed(x)
      BY <1>2, Scheduled
    <3>3. QED
      BY <1>6, <2>2, <3>1, <3>2
  <2>3. QED
    BY <2>1, <2>2
<1>11. Timely'
  <2>1. \A id \in batch' : id \in DOMAIN rows' /\ rows'[id].action.due <= observed
    BY <1>5 DEF WorldInv, Healthy, Timely
  <2>2. time' \in Nat /\ time' <= observed
    BY <1>2, <1>4
  <2>3. observed \in Nat /\ observed <= MaxTime
    BY DEF WorldInv, Healthy, Timely
  <2>4. QED
    BY <2>1, <2>2, <2>3 DEF Timely
<1>12. QED
  BY <1>8, <1>9, <1>10, <1>11 DEF Healthy

(* What is loaded stays when an action is marked as failed.                *)
LEMMA RefusedIsLoaded ==
  ASSUME WorldInv, NEW id \in DOMAIN rows, Pending(id), NEW x, x = rows[id].action,
         rows' = [rows EXCEPT ![id].outcome = "failed"],
         UNCHANGED <<time, sequence, agents, items>>
  PROVE  /\ rows'[id] = [action |-> x, outcome |-> "failed"]
         /\ DOMAIN rows' = DOMAIN rows /\ \A i \in DOMAIN rows : i # id => rows'[i] = rows[i]
         /\ x \in Unfinished(rows) /\ Loaded' = Loaded
<1>1. rows[id] = Row(rows[id]) /\ rows[id].outcome = "pending"
  BY DEF WorldInv, IInv, RowsAreRows, Pending
<1>2. rows'[id] = [action |-> x, outcome |-> "failed"]
  BY <1>1 DEF Row
<1>3. DOMAIN rows' = DOMAIN rows /\ \A i \in DOMAIN rows : i # id => rows'[i] = rows[i]
  OBVIOUS
<1>4. \A i \in DOMAIN rows :
        /\ rows'[i].action = rows[i].action
        /\ rows'[i].outcome # "completed" <=> rows[i].outcome # "completed"
  BY <1>1, <1>2, <1>3
<1>5. Unfinished(rows') = Unfinished(rows)
  BY <1>3, <1>4 DEF Unfinished
<1>6. rows[id].outcome # "completed"
  BY <1>1
<1>7. x \in Unfinished(rows)
  BY <1>6 DEF Unfinished
<1>8. Loaded' = Loaded
  BY <1>5 DEF Loaded
<1>9. QED
  BY <1>2, <1>3, <1>7, <1>8

(* A rejection leaves them healthy: nobody waits for what has failed.      *)
LEMMA RejectHealthy ==
  ASSUME WorldInv, NEW id \in DOMAIN rows, Pending(id), NEW c,
         c.kind = rows[id].action.kind, c.agent = rows[id].action.agent,
         Answered(Loaded, c, <<>>), rows' = [rows EXCEPT ![id].outcome = "failed"],
         UNCHANGED <<time, sequence, agents, items, observed>>,
         now' \in Nat, now' <= observed, batch' \subseteq batch
  PROVE  Healthy'
<1>1. PICK x : x = rows[id].action
  OBVIOUS
<1>2. rows[id].outcome = "pending"
  BY DEF Pending
<1>3. /\ rows'[id] = [action |-> x, outcome |-> "failed"]
      /\ DOMAIN rows' = DOMAIN rows /\ \A i \in DOMAIN rows : i # id => rows'[i] = rows[i]
      /\ x \in Unfinished(rows) /\ Loaded' = Loaded
  BY <1>1, RefusedIsLoaded
<1>4. DOMAIN rows' = DOMAIN rows /\ \A i \in DOMAIN rows : i # id => rows'[i] = rows[i]
  BY <1>3
<1>5. x \in Unfinished(rows)
  BY <1>3
<1>6. Loaded' = Loaded
  BY <1>3
<1>7. Failed' = Failed \cup {x}
  BY <1>2, <1>3, <1>4 DEF Failed
<1>8. PICK s : s = Loaded
  OBVIOUS
<1>9. Good(s, Failed) /\ Old(Failed, s.sequence) /\ x \in s.schedule
  BY <1>5, <1>8, LoadedIs DEF WorldInv, Healthy
<1>10. Good(s, Failed \cup {x}) /\ Old(Failed \cup {x}, s.sequence)
  BY <1>1, <1>8, <1>9, RejectedIsGood
<1>11. Good(Loaded, Failed)' /\ Old(Failed, sequence)'
  BY <1>6, <1>7, <1>8, <1>10, LoadedIs
<1>12. RowsAreKnown'
  BY <1>1, <1>3, <1>4 DEF WorldInv, Healthy, RowsAreKnown
<1>13. Timely'
  <2>1. \A i \in DOMAIN rows : rows'[i].action = rows[i].action
    BY <1>1, <1>3, <1>4
  <2>2. QED
    BY <1>4, <2>1 DEF WorldInv, Healthy, Timely
<1>14. QED
  BY <1>11, <1>12, <1>13 DEF Healthy

(* The tables are as they were.                                            *)
LEMMA StillHealthy ==
  ASSUME WorldInv, UNCHANGED <<time, sequence, agents, items, rows>>, Timely'
  PROVE  Healthy'
<1>1. Loaded' = Loaded /\ Failed' = Failed /\ sequence' = sequence
  BY DEF Loaded, Failed, Unfinished
<1>2. Good(Loaded, Failed)' /\ Old(Failed, sequence)'
  BY <1>1 DEF WorldInv, Healthy
<1>3. RowsAreKnown'
  BY DEF WorldInv, Healthy, RowsAreKnown
<1>4. QED
  BY <1>2, <1>3 DEF Healthy

(* A command of an action or of the operator.                              *)
Known(c) ==
  /\ c.agent \in Agents /\ c.kind \in KindNames \cup {"journey.start"}
  /\ c.kind = "need.threshold" => c.need \in Needs /\ c.level \in {"warning", "critical"}

(* It is the command of an action that is served, which is due.            *)
Served(id, c) ==
  /\ id \in batch /\ Pending(id) /\ rows[id].action.due <= c.at
  /\ c = CommandFor(rows[id].action, c.at)

(* Or it is an order of the operator, at the announced time.               *)
Ordering(c) ==
  c.kind = "journey.start" /\ c.route \in Routes /\ c.at = observed

(* A command is accepted: it moves the tables on to its moment.            *)
Advanced ==
  \E c, events :
    /\ Proper(Loaded, c, events) /\ events # <<>>
    /\ Command(c) /\ Known(c) /\ events = Decide(Loaded, c)
    /\ Ordering(c) \/ \E id \in DOMAIN rows : Served(id, c)
    /\ c.at \in Nat /\ time <= c.at /\ c.at <= observed
    /\ Accept(Loaded, After(Loaded, events), events)

(* An action is marked as failed, and nothing else is written.             *)
Refused ==
  \E id \in DOMAIN rows : \E c :
    /\ Pending(id) /\ c.kind = rows[id].action.kind /\ c.agent = rows[id].action.agent
    /\ Served(id, c) /\ Decide(Loaded, c) = <<>> /\ Answered(Loaded, c, <<>>)
    /\ c.at \in Nat /\ time <= c.at /\ c.at <= observed
    /\ rows' = [rows EXCEPT ![id].outcome = "failed"]
    /\ UNCHANGED <<time, sequence, agents, items, replica, cards>>

(* The time of the tick and its batch stay within what is announced.       *)
TickStays ==
  /\ observed' = observed /\ batch' \subseteq batch
  /\ now' \in Nat /\ now' <= observed

(* What a step of the tick does, and an order of the operator.             *)
LEMMA ServeIs ==
  ASSUME WorldInv, Serve
  PROVE  TickStays /\ (UNCHANGED tables \/ Advanced \/ Refused)
<1>1. PICK id \in First :
        LET at == Moment(rows[id].action)
            c == CommandFor(rows[id].action, at)
            events == Decide(Loaded, c)
            after == After(Loaded, events)
        IN \/ /\ ~Pending(id)
              /\ batch' = batch \ {id} /\ UNCHANGED <<tables, now>>
           \/ /\ Pending(id) /\ at >= time /\ events # <<>>
              /\ Accept(Loaded, after, events)
              /\ batch' = batch \ {id} /\ now' = at
           \/ /\ Pending(id) /\ at >= time /\ events = <<>>
              /\ rows' = [rows EXCEPT ![id].outcome = "failed"]
              /\ batch' = batch \ {id} /\ now' = now
              /\ UNCHANGED <<time, sequence, agents, items, replica, cards>>
           \/ /\ Pending(id)
              /\ at < time \/ (events # <<>> /\ ~CanSave(Loaded, after))
              /\ batch' = {} /\ UNCHANGED <<tables, now>>
  BY DEF Serve
<1>2. observed' = observed
  BY DEF Serve
<1>3. PICK x : x = rows[id].action
  OBVIOUS
<1>4. PICK at : at = Moment(x)
  OBVIOUS
<1>5. PICK c : c = CommandFor(x, at)
  OBVIOUS
<1>6. PICK s : s = Loaded
  OBVIOUS
<1>7. PICK events : events = Decide(s, c)
  OBVIOUS
<1>8. PICK after : after = After(s, events)
  OBVIOUS
<1>9. id \in batch /\ id \in DOMAIN rows
  BY DEF First, WorldInv, Healthy, Timely
<1>10. x \in Planned /\ Formed(x) /\ x.due \in Nat /\ x.due <= observed
  BY <1>3, <1>9 DEF WorldInv, Healthy, RowsAreKnown, Timely, Planned
<1>11. at \in Nat /\ at <= observed
  BY <1>4, <1>10 DEF Moment, WorldInv, Healthy, Timely
<1>12. now \in Nat /\ now <= observed
  BY DEF WorldInv, Healthy, Timely
<1>13. ASSUME Pending(id) PROVE Answered(s, c, events)
  <2>1. x \in s.schedule
    BY <1>3, <1>6, <1>9, <1>13, LoadedIs DEF Unfinished, Pending
  <2>2. Good(s, Failed)
    BY <1>6 DEF WorldInv, Healthy
  <2>3. QED
    BY <1>5, <1>7, <1>11, <2>1, <2>2, ScheduleIsAnswered
<1>14. /\ c.kind = x.kind /\ c.agent = x.agent /\ c.at = at
       /\ c.need = x.need /\ c.level = x.level
       /\ \A cause \in c.caused : cause[1] \in NamedByEvent
  BY <1>5, CommandIs
<1>15. ASSUME Pending(id), at >= time
       PROVE  Served(id, c) /\ Command(c) /\ c.at \in Nat /\ time <= c.at /\ c.at <= observed
  <2>1. x.due <= at /\ time <= at
    BY <1>4, <1>10, <1>11, <1>12, <1>15 DEF Moment, WorldInv, Healthy, Timely
  <2>2. x.agent \in Agents
    BY <1>10 DEF Planned
  <2>3. c = CommandFor(rows[id].action, c.at)
    BY <1>3, <1>5, <1>14
  <2>4. Served(id, c)
    BY <1>3, <1>9, <1>14, <1>15, <2>1, <2>3 DEF Served
  <2>5. QED
    BY <1>11, <1>14, <2>1, <2>2, <2>4 DEF Command
<1>16. CASE /\ Pending(id) /\ at >= time /\ events # <<>>
            /\ Accept(s, after, events)
            /\ batch' = batch \ {id} /\ now' = at
  <2>1. Proper(s, c, events)
    BY <1>13, <1>16 DEF Answered
  <2>2. time <= c.at /\ c.at \in Nat /\ c.at <= observed /\ Served(id, c) /\ Command(c)
    BY <1>16, <1>15
  <2>3. Known(c)
    <3>1. x.agent \in Agents /\ x.kind \in KindNames
      BY <1>10 DEF Planned
    <3>2. x.kind = "need.threshold" => x.need \in Needs /\ x.level \in {"warning", "critical"}
      BY <1>10 DEF Formed
    <3>3. QED
      BY <1>14, <3>1, <3>2 DEF Known
  <2>4. Advanced
    BY <1>6, <1>7, <1>8, <1>9, <1>16, <2>1, <2>2, <2>3 DEF Advanced
  <2>5. TickStays
    BY <1>2, <1>11, <1>16 DEF TickStays
  <2>6. QED
    BY <2>4, <2>5
<1>17. CASE /\ Pending(id) /\ at >= time /\ events = <<>>
            /\ rows' = [rows EXCEPT ![id].outcome = "failed"]
            /\ batch' = batch \ {id} /\ now' = now
            /\ UNCHANGED <<time, sequence, agents, items, replica, cards>>
  <2>1. Answered(Loaded, c, <<>>)
    BY <1>6, <1>13, <1>17
  <2>2. Decide(Loaded, c) = <<>>
    BY <1>6, <1>7, <1>17
  <2>3. Served(id, c) /\ c.at \in Nat /\ time <= c.at /\ c.at <= observed
    BY <1>17, <1>15
  <2>4. Refused
    BY <1>3, <1>9, <1>14, <1>17, <2>1, <2>2, <2>3 DEF Refused
  <2>5. TickStays
    BY <1>2, <1>12, <1>17 DEF TickStays
  <2>6. QED
    BY <2>4, <2>5
<1>18. CASE batch' \subseteq batch /\ UNCHANGED <<tables, now>>
  BY <1>2, <1>12, <1>18 DEF TickStays
<1>19. \/ /\ batch' = batch \ {id} /\ UNCHANGED <<tables, now>>
       \/ /\ Pending(id) /\ at >= time /\ events # <<>>
          /\ Accept(s, after, events)
          /\ batch' = batch \ {id} /\ now' = at
       \/ /\ Pending(id) /\ at >= time /\ events = <<>>
          /\ rows' = [rows EXCEPT ![id].outcome = "failed"]
          /\ batch' = batch \ {id} /\ now' = now
          /\ UNCHANGED <<time, sequence, agents, items, replica, cards>>
       \/ batch' = {} /\ UNCHANGED <<tables, now>>
  BY <1>1, <1>3, <1>4, <1>5, <1>6, <1>7, <1>8
<1>20. QED
  BY <1>16, <1>17, <1>18, <1>19

LEMMA OrderIs ==
  ASSUME WorldInv, NEW ag \in Agents, NEW r \in Routes, Order(ag, r)
  PROVE  TickStays /\ Advanced
<1>1. PICK s : s = Loaded
  OBVIOUS
<1>2. PICK at : at = IF observed >= time THEN observed ELSE time
  OBVIOUS
<1>3. PICK c : c = [kind |-> "journey.start", agent |-> ag, route |-> r, at |-> at, caused |-> {}]
  OBVIOUS
<1>4. PICK events : events = Decide(s, c)
  OBVIOUS
<1>5. PICK after : after = After(s, events)
  OBVIOUS
<1>6. events # <<>> /\ Accept(s, after, events) /\ UNCHANGED <<observed, batch, now>>
  BY <1>1, <1>2, <1>3, <1>4, <1>5 DEF Order
<1>7. at \in Nat /\ at <= observed
  BY <1>2 DEF WorldInv, Healthy, Timely
<1>8. c.kind = "journey.start" /\ c.agent = ag /\ c.route = r /\ c.at = at /\ c.caused = {}
  BY <1>3
<1>9. Command(c)
  BY <1>7, <1>8 DEF Command
<1>10. Proper(s, c, events)
  BY <1>4, <1>8, <1>9, JourneyStartAnswered DEF Answered
<1>11. at = observed
  BY <1>2 DEF WorldInv, Healthy, Timely
<1>12. Ordering(c)
  BY <1>8, <1>11 DEF Ordering
<1>13. TickStays
  BY <1>6 DEF TickStays, WorldInv, Healthy, Timely
<1>14. time <= c.at
  BY <1>2, <1>8 DEF WorldInv, Healthy, Timely
<1>15. Known(c)
  BY <1>8 DEF Known
<1>16. Advanced
  BY <1>1, <1>4, <1>5, <1>6, <1>7, <1>8, <1>10, <1>14, <1>15, <1>9, <1>12 DEF Advanced
<1>17. QED
  BY <1>13, <1>16

LEMMA AdvancedHealthy ==
  ASSUME WorldInv, TickStays, Advanced
  PROVE  Healthy'
<1>1. PICK c, events :
        /\ Proper(Loaded, c, events) /\ events # <<>>
        /\ c.at \in Nat /\ time <= c.at /\ c.at <= observed
        /\ Accept(Loaded, After(Loaded, events), events)
  BY DEF Advanced
<1>2. QED
  BY <1>1, AcceptHealthy DEF TickStays

LEMMA RefusedHealthy ==
  ASSUME WorldInv, TickStays, Refused
  PROVE  Healthy'
<1>1. PICK id \in DOMAIN rows :
        \E c : /\ Pending(id) /\ c.kind = rows[id].action.kind /\ c.agent = rows[id].action.agent
              /\ Answered(Loaded, c, <<>>)
              /\ rows' = [rows EXCEPT ![id].outcome = "failed"]
              /\ UNCHANGED <<time, sequence, agents, items, replica, cards>>
  BY DEF Refused
<1>2. PICK c : /\ Pending(id) /\ c.kind = rows[id].action.kind /\ c.agent = rows[id].action.agent
               /\ Answered(Loaded, c, <<>>)
               /\ rows' = [rows EXCEPT ![id].outcome = "failed"]
               /\ UNCHANGED <<time, sequence, agents, items, replica, cards>>
  BY <1>1
<1>3. QED
  BY <1>2, RejectHealthy DEF TickStays

LEMMA ServeHealthy ==
  ASSUME WorldInv, Serve
  PROVE  Healthy'
<1>1. CASE UNCHANGED tables
  <2>1. UNCHANGED <<time, sequence, agents, items, rows>>
    BY <1>1 DEF tables
  <2>2. Timely'
    BY <2>1, ServeIs DEF TickStays, WorldInv, Healthy, Timely
  <2>3. QED
    BY <2>1, <2>2, StillHealthy
<1>2. QED
  BY <1>1, ServeIs, AdvancedHealthy, RefusedHealthy

LEMMA OrderHealthy ==
  ASSUME WorldInv, NEW ag \in Agents, NEW r \in Routes, Order(ag, r)
  PROVE  Healthy'
  BY OrderIs, AdvancedHealthy

LEMMA ClaimHealthy ==
  ASSUME WorldInv, Claim
  PROVE  Healthy'
<1> DEFINE dues == {rows[id].action.due : id \in Due(observed)}
<1>1. PICK moment : moment = CHOOSE t \in dues : \A id \in Due(observed) : t <= rows[id].action.due
  OBVIOUS
<1>2. batch' = Due(moment) /\ now' = time /\ UNCHANGED <<tables, observed>>
  BY <1>1 DEF Claim
<1>3. \A id \in DOMAIN rows : rows[id].action.due \in Nat
  BY DEF WorldInv, Healthy, RowsAreKnown, Planned
<1>4. dues \subseteq Nat /\ dues # {}
  BY <1>3 DEF Claim, Due
<1>5. \E t \in dues : \A u \in dues : t <= u
  BY <1>4, LeastNat
<1>6. moment \in dues
  BY <1>1, <1>5
<1>7. moment \in Nat /\ moment <= observed
  BY <1>4, <1>6 DEF Due
<1>8. \A id \in batch' : id \in DOMAIN rows /\ rows[id].action.due <= observed
  BY <1>2, <1>3, <1>7 DEF Due, WorldInv, Healthy, Timely
<1>9. UNCHANGED <<time, sequence, agents, items, rows>>
  BY <1>2 DEF tables
<1>10. Timely'
  BY <1>2, <1>8, <1>9 DEF WorldInv, Healthy, Timely
<1>11. QED
  BY <1>9, <1>10, StillHealthy

LEMMA AnnounceHealthy ==
  ASSUME WorldInv, Announce
  PROVE  Healthy'
<1>1. PICK stride \in Strides : observed + stride <= MaxTime /\ observed' = observed + stride
  BY DEF Announce
<1>2. stride \in Nat
  BY RunAssumption
<1>3. batch = {} /\ UNCHANGED <<time, sequence, agents, items, rows, batch, now>>
  BY DEF Announce, tables
<1>4. Timely'
  BY <1>1, <1>2, <1>3 DEF WorldInv, Healthy, Timely
<1>5. QED
  BY <1>3, <1>4, StillHealthy

LEMMA NextWorldInv == WorldInv /\ [Next]_vars => WorldInv'
<1> SUFFICES ASSUME WorldInv, [Next]_vars PROVE WorldInv'
  OBVIOUS
<1>1. IInv'
  BY NextIInv DEF WorldInv
<1>2. ASSUME UNCHANGED vars PROVE Healthy'
  <2>1. UNCHANGED <<time, sequence, agents, items, rows, observed, now, batch>>
    BY <1>2 DEF vars
  <2>2. Timely'
    BY <2>1 DEF WorldInv, Healthy, Timely
  <2>3. QED
    BY <2>1, <2>2, StillHealthy
<1>3. Healthy'
  BY <1>2, ServeHealthy, ClaimHealthy, AnnounceHealthy, OrderHealthy DEF Next
<1>4. QED
  BY <1>1, <1>3 DEF WorldInv

LEMMA Holds == Spec => []WorldInv
<1>1. Init => WorldInv
  BY InitIInv, InitHealthy DEF WorldInv
<1>2. QED
  BY <1>1, NextWorldInv, PTL DEF Spec

(* Every variable holds values of its kind: what evolve writes can be      *)
(* loaded again (scheduledActionFromRow), who owns food is an agent, the   *)
(* plan of an agent is an event of the journal, and no command moves the   *)
(* world past the time the process has announced.                          *)
THEOREM TypesHold == Spec => []TypeOK
<1>1. WorldInv => TypeOK
  BY TypesAreRight DEF WorldInv
<1>2. QED
  BY <1>1, Holds, PTL

(* Whatever the operator orders and however late the schedule is served:   *)
(* who travels has his arrival before him, who rests the end of it, and who*)
(* has chosen a goal a step towards it. Only decide and evolve together see*)
(* to it: a refused action is marked as failed and never comes again, so   *)
(* none that somebody waits for may ever be refused.                       *)
THEOREM NobodyWaitsForNothing == Spec => []NobodyStuck
<1>1. WorldInv => NobodyStuck
  BY NobodyIsStuck DEF WorldInv
<1>2. QED
  BY <1>1, Holds, PTL

(* A row marked as failed is a step or news of a need.                     *)
FailuresAreHarmless ==
  \A id \in DOMAIN rows :
    rows[id].outcome = "failed" => rows[id].action.kind \in Steps \cup {"need.threshold"}

(* However late the schedule is served, the domain never refuses the end of*)
(* a journey or of a rest, nor a decision: what it may refuse is news of a *)
(* need that is out of date, and steps of a plan that has been given up. Of*)
(* these kinds alone a row can be marked as failed.                        *)
THEOREM OnlyStaleNewsIsRefused == Spec => []FailuresAreHarmless
<1>1. ASSUME WorldInv, NEW id \in DOMAIN rows, rows[id].outcome = "failed"
      PROVE  rows[id].action.kind \in Steps \cup {"need.threshold"}
  <2>1. rows[id].action \in Failed
    BY <1>1 DEF Failed
  <2>2. rows[id].action.kind \notin Sure
    BY <1>1, <2>1 DEF WorldInv, Healthy, Old
  <2>3. rows[id].action.kind \in KindNames
    BY <1>1 DEF WorldInv, Healthy, RowsAreKnown, Planned
  <2>4. QED
    BY <2>2, <2>3 DEF Sure, NamedByEvent, KindNames, Steps
<1>2. WorldInv => FailuresAreHarmless
  BY <1>1 DEF FailuresAreHarmless
<1>3. QED
  BY <1>2, Holds, PTL

-----------------------------------------------------------------------------
(* The cards of the observer: what is folded without the rules agrees with *)
(* what is folded with them.                                               *)

(* A card of an agent.                                                     *)
Card == [status : Statuses, place : Places \cup {Nowhere}, route : Routes \cup {0},
         food : Nat, goal : GoalNames, needs : [Needs -> NeedLevels]]

(* What an event leaves of a card.                                         *)
LEMMA FoldedStart ==
  ASSUME NEW card \in Card, NEW e, e.type = "journey.started", e.payload.route \in Routes,
         NEW k, k = Folded(card, e)
  PROVE  /\ k \in Card /\ k.status = "traveling" /\ k.place = Nowhere
         /\ k.route = e.payload.route /\ k.food = card.food /\ k.goal = card.goal
<1>1. k = [card EXCEPT !.status = "traveling", !.place = Nowhere, !.route = e.payload.route]
  BY DEF Folded
<1>2. QED
  BY <1>1 DEF Card, Statuses

LEMMA FoldedCompletion ==
  ASSUME NEW card \in Card, NEW e, e.type = "journey.completed", e.payload.route \in Routes,
         NEW k, k = Folded(card, e)
  PROVE  /\ k \in Card /\ k.status = "idle" /\ k.place = RouteTo[e.payload.route]
         /\ k.route = 0 /\ k.food = card.food /\ k.goal = card.goal
<1>1. k = [card EXCEPT !.status = "idle", !.place = RouteTo[e.payload.route], !.route = 0]
  BY DEF Folded
<1>2. RouteTo[e.payload.route] \in Places
  BY RulesAssumption DEF ValidMap
<1>3. QED
  BY <1>1, <1>2 DEF Card, Statuses

LEMMA FoldedFailure ==
  ASSUME NEW card \in Card, NEW e, e.type = "plan.invalidated",
         NEW k, k = Folded(card, e)
  PROVE  /\ k \in Card /\ k.status = IF card.status = "resting" THEN "idle" ELSE card.status
         /\ k.place = card.place /\ k.route = card.route
         /\ k.food = card.food /\ k.goal = "idle"
<1>1. k = GivenUp(card)
  BY DEF Folded
<1>2. k = [card EXCEPT !.goal = "idle",
                       !.status = IF card.status = "resting" THEN "idle" ELSE card.status]
  BY <1>1 DEF GivenUp
<1>3. QED
  BY <1>2 DEF Card, Statuses, GoalNames

LEMMA FoldedCrossing ==
  ASSUME NEW card \in Card, NEW e, e.type = "need.threshold.crossed",
         e.payload.need \in Needs, e.payload.level \in NeedLevels,
         NEW k, k = Folded(card, e)
  PROVE  /\ k \in Card /\ k.status = card.status /\ k.place = card.place
         /\ k.route = card.route /\ k.food = card.food /\ k.goal = card.goal
<1>1. k = [card EXCEPT !.needs = [card.needs EXCEPT ![e.payload.need] = e.payload.level]]
  BY DEF Folded
<1>2. PICK needs : needs = [card.needs EXCEPT ![e.payload.need] = e.payload.level]
  OBVIOUS
<1>3. needs \in [Needs -> NeedLevels]
  BY <1>2 DEF Card
<1>4. k = [card EXCEPT !.needs = needs]
  BY <1>1, <1>2
<1>5. QED
  BY <1>3, <1>4 DEF Card

LEMMA FoldedOther ==
  ASSUME NEW card, NEW e,
         e.type \in {"rest.started", "agent.ate", "agent.rested", "goal.chosen", "risk.observed"}
  PROVE  Folded(card, e) = Attended(card, e)
  BY DEF Folded

LEMMA FoldedRest ==
  ASSUME NEW card \in Card, NEW e, e.type = "rest.started", NEW k, k = Folded(card, e)
  PROVE  /\ k \in Card /\ k.status = "resting" /\ k.place = card.place
         /\ k.route = card.route /\ k.food = card.food /\ k.goal = card.goal
<1>1. k = [card EXCEPT !.status = "resting"]
  <2>1. Folded(card, e) = Attended(card, e)
    BY FoldedOther
  <2>2. Attended(card, e) = [card EXCEPT !.status = "resting"]
    BY DEF Attended
  <2>3. QED
    BY <2>1, <2>2
<1>2. QED
  BY <1>1 DEF Card, Statuses

LEMMA FoldedMeal ==
  ASSUME NEW card \in Card, NEW e, e.type = "agent.ate", NEW k, k = Folded(card, e)
  PROVE  /\ k \in Card /\ k.status = card.status /\ k.place = card.place
         /\ k.route = card.route /\ k.goal = "idle"
         /\ k.food = IF card.food = 0 THEN 0 ELSE card.food - 1
<1>1. k = [card EXCEPT !.food = IF card.food = 0 THEN 0 ELSE card.food - 1, !.goal = "idle"]
  <2>1. Folded(card, e) = Attended(card, e)
    BY FoldedOther
  <2>2. Attended(card, e) =
          [card EXCEPT !.food = IF card.food = 0 THEN 0 ELSE card.food - 1, !.goal = "idle"]
    BY DEF Attended
  <2>3. QED
    BY <2>1, <2>2
<1>2. PICK food : food = IF card.food = 0 THEN 0 ELSE card.food - 1
  OBVIOUS
<1>3. food \in Nat
  BY <1>2 DEF Card
<1>4. k = [card EXCEPT !.food = food, !.goal = "idle"]
  BY <1>1, <1>2
<1>5. /\ k \in Card /\ k.status = card.status /\ k.place = card.place
      /\ k.route = card.route /\ k.goal = "idle" /\ k.food = food
  BY <1>3, <1>4 DEF Card, GoalNames
<1>6. QED
  BY <1>2, <1>5

LEMMA FoldedWaking ==
  ASSUME NEW card \in Card, NEW e, e.type = "agent.rested", NEW k, k = Folded(card, e)
  PROVE  /\ k \in Card /\ k.status = "idle" /\ k.place = card.place
         /\ k.route = card.route /\ k.food = card.food /\ k.goal = "idle"
<1>1. k = [card EXCEPT !.status = "idle", !.goal = "idle"]
  <2>1. Folded(card, e) = Attended(card, e)
    BY FoldedOther
  <2>2. Attended(card, e) = [card EXCEPT !.status = "idle", !.goal = "idle"]
    BY DEF Attended
  <2>3. QED
    BY <2>1, <2>2
<1>2. QED
  BY <1>1 DEF Card, Statuses, GoalNames

LEMMA FoldedChoice ==
  ASSUME NEW card \in Card, NEW e, e.type = "goal.chosen", e.payload.goal \in GoalNames,
         NEW k, k = Folded(card, e)
  PROVE  /\ k \in Card /\ k.status = card.status /\ k.place = card.place
         /\ k.route = card.route /\ k.food = card.food /\ k.goal = e.payload.goal
<1>1. k = [card EXCEPT !.goal = e.payload.goal]
  <2>1. Folded(card, e) = Attended(card, e)
    BY FoldedOther
  <2>2. Attended(card, e) = [card EXCEPT !.goal = e.payload.goal]
    BY DEF Attended
  <2>3. QED
    BY <2>1, <2>2
<1>2. QED
  BY <1>1 DEF Card

LEMMA FoldedRisk ==
  ASSUME NEW card \in Card, NEW e, e.type = "risk.observed", NEW k, k = Folded(card, e)
  PROVE  k = card
<1>1. Folded(card, e) = Attended(card, e)
  BY FoldedOther
<1>2. Attended(card, e) = card
  BY DEF Attended
<1>3. QED
  BY <1>1, <1>2

-----------------------------------------------------------------------------
(* An agent is about to decide.                                            *)
Deciding(X, at) == \E x \in X : x.kind = "agent.decide" /\ x.due <= at

(* Nobody else has another part of the schedule.                           *)
OthersStay(s, t, g) == \A ag : ag # g => Of(t.schedule, ag) = Of(s.schedule, ag)

(* Who was about to decide, still is.                                      *)
StillDeciding(X, Y) == \A at : Deciding(X, at) => Deciding(Y, at)

(* A decision that is scheduled changes nothing else.                      *)
LEMMA WithDecisionEffect ==
  ASSUME NEW u \in States, NEW e, e.agent \in Agents, e.at \in Nat,
         NEW t, t = WithDecision(u, e)
  PROVE  /\ t.time = u.time /\ t.agents = u.agents /\ t.items = u.items
         /\ OthersStay(u, t, e.agent)
         /\ Free(u.agents[e.agent]) => Deciding(Of(t.schedule, e.agent), e.at)
         /\ Deciding(Of(u.schedule, e.agent), e.at) => Deciding(Of(t.schedule, e.agent), e.at)
<1>1. CASE ~Free(u.agents[e.agent])
  <2>1. t = u
    BY <1>1 DEF WithDecision
  <2>2. QED
    BY <1>1, <2>1 DEF OthersStay
<1>2. CASE Free(u.agents[e.agent])
  <2>1. PICK x : x = Action("agent.decide", e.agent, e.at, u.sequence)
    OBVIOUS
  <2>2. x.kind = "agent.decide" /\ x.agent = e.agent /\ x.due = e.at
    BY <2>1 DEF Action
  <2>3. PICK Gone : Gone = {y \in Of(u.schedule, e.agent) : y.kind \in {"agent.decide"}}
    OBVIOUS
  <2>4. PICK Y : Y = (u.schedule \ Gone) \cup {x}
    OBVIOUS
  <2>5. t = [u EXCEPT !.schedule = Y]
    BY <1>2, <2>1, <2>3, <2>4 DEF WithDecision, Without
  <2>6. t.time = u.time /\ t.agents = u.agents /\ t.items = u.items /\ t.schedule = Y
    BY <2>5 DEF States
  <2>7. \A ag : ag # e.agent => Of(Y, ag) = Of(u.schedule, ag)
    BY <2>2, <2>3, <2>4 DEF Of
  <2>8. x \in Of(Y, e.agent)
    BY <2>2, <2>4 DEF Of
  <2>9. Deciding(Of(Y, e.agent), e.at)
    BY <2>2, <2>8 DEF Deciding
  <2>10. OthersStay(u, t, e.agent)
    BY <2>6, <2>7 DEF OthersStay
  <2>11. QED
    BY <2>6, <2>9, <2>10
<1>3. QED
  BY <1>1, <1>2

(* What a move changes, and what it leaves.                                *)
LEMMA MovedEffect ==
  ASSUME NEW s \in States, NEW g \in Agents, NEW b \in Stored,
         NEW Gone, \A x \in Gone : x.agent = g,
         NEW New \in SUBSET Planned, \A x \in New : x.agent = g,
         NEW t, t = Moved(s, g, b, Gone, New)
  PROVE  /\ t \in States /\ t.time = s.time /\ t.items = s.items
         /\ t.agents = [s.agents EXCEPT ![g] = b] /\ t.agents[g] = b
         /\ OthersStay(s, t, g)
         /\ (\A x \in Gone : x.kind # "agent.decide") =>
              StillDeciding(Of(s.schedule, g), Of(t.schedule, g))
<1>1. /\ t \in States /\ t.time = s.time
      /\ t.agents = [s.agents EXCEPT ![g] = b] /\ t.schedule = (s.schedule \ Gone) \cup New
  BY MovedIsState
<1>2. t.items = s.items
  BY DEF Moved, States
<1>3. t.agents[g] = b
  BY <1>1 DEF States
<1>4. \A ag : ag # g => Of(t.schedule, ag) = Of(s.schedule, ag)
  BY <1>1 DEF Of
<1>5. ASSUME \A x \in Gone : x.kind # "agent.decide", NEW at, Deciding(Of(s.schedule, g), at)
      PROVE  Deciding(Of(t.schedule, g), at)
  <2>1. PICK x \in Of(s.schedule, g) : x.kind = "agent.decide" /\ x.due <= at
    BY <1>5 DEF Deciding
  <2>2. x \in Of(t.schedule, g)
    BY <1>1, <1>5, <2>1 DEF Of
  <2>3. QED
    BY <2>1, <2>2 DEF Deciding
<1>6. QED
  BY <1>1, <1>2, <1>3, <1>4, <1>5 DEF OthersStay, StillDeciding

(* A card tells of an agent. What it says of the goal may be out of date   *)
(* while the agent is about to decide.                                     *)
Tells(k, a, food, X, at) ==
  /\ k \in Card /\ k.status = a.status /\ k.route = a.route
  /\ k.place = IF a.status = "traveling" THEN Nowhere ELSE a.place
  /\ k.food = food
  /\ k.goal = a.goal \/ Deciding(X, at)

(* The cards tell of a state.                                              *)
Told(cs, s) ==
  /\ cs \in [Agents -> Card]
  /\ \A ag \in Agents :
       Tells(cs[ag], s.agents[ag], Cardinality(FoodOf(s, ag)), Of(s.schedule, ag), s.time)

(* Only one agent is another, and only its card.                           *)
LEMMA Retold ==
  ASSUME NEW s \in States, NEW t, NEW g \in Agents, NEW b, NEW cs, Told(cs, s), NEW k, NEW ds,
         ds = [cs EXCEPT ![g] = k],
         t.agents = [s.agents EXCEPT ![g] = b], t.time = s.time,
         OthersStay(s, t, g), \A ag : ag # g => FoodOf(t, ag) = FoodOf(s, ag),
         Tells(k, b, Cardinality(FoodOf(t, g)), Of(t.schedule, g), t.time)
  PROVE  Told(ds, t)
<1>1. cs \in [Agents -> Card] /\ s.agents \in [Agents -> Stored]
  BY DEF Told, States
<1>2. k \in Card
  BY DEF Tells
<1>3. ds \in [Agents -> Card]
  BY <1>1, <1>2
<1>4. ASSUME NEW ag \in Agents
      PROVE  Tells(ds[ag], t.agents[ag], Cardinality(FoodOf(t, ag)), Of(t.schedule, ag), t.time)
  <2>1. CASE ag = g
    <3>1. ds[ag] = k /\ t.agents[ag] = b
      BY <1>1, <2>1
    <3>2. QED
      BY <2>1, <3>1
  <2>2. CASE ag # g
    <3>1. ds[ag] = cs[ag] /\ t.agents[ag] = s.agents[ag]
      BY <1>1, <2>2
    <3>2. FoodOf(t, ag) = FoodOf(s, ag) /\ Of(t.schedule, ag) = Of(s.schedule, ag)
      BY <2>2 DEF OthersStay
    <3>3. Tells(cs[ag], s.agents[ag], Cardinality(FoodOf(s, ag)), Of(s.schedule, ag), s.time)
      BY DEF Told
    <3>4. QED
      BY <3>1, <3>2, <3>3
  <2>3. QED
    BY <2>1, <2>2
<1>5. QED
  BY <1>3, <1>4 DEF Told

(* The status, road, place and food of an agent are on the card.           *)
Shows(k, b, food) ==
  /\ k \in Card /\ k.status = b.status /\ k.route = b.route /\ k.food = food
  /\ k.place = IF b.status = "traveling" THEN Nowhere ELSE b.place

(* Actions of one agent.                                                   *)
Owned(X, g) == \A x \in X : x.agent = g

(* The goal on the card is right, or it is as right as it was.             *)
GoalShown(k, card, a, b, Gone) ==
  \/ k.goal = b.goal
  \/ /\ k.goal = card.goal /\ b.goal = a.goal
     /\ \A x \in Gone : x.kind # "agent.decide"

(* The cards tell of a move if the card of the agent does.                 *)
LEMMA RetoldMove ==
  ASSUME NEW s \in States, NEW e, e.agent \in Agents, e.at = s.time, NEW cs, Told(cs, s),
         NEW b \in Stored, NEW Gone, Owned(Gone, e.agent),
         NEW New \in SUBSET Planned, Owned(New, e.agent),
         Shows(Folded(cs[e.agent], e), b, cs[e.agent].food)
  PROVE  /\ GoalShown(Folded(cs[e.agent], e), cs[e.agent], s.agents[e.agent], b, Gone) =>
              /\ Told(ApplyObserverEvent(cs, e), Moved(s, e.agent, b, Gone, New))
              /\ Told(ApplyObserverEvent(cs, e),
                      WithDecision(Moved(s, e.agent, b, Gone, New), e))
         /\ Free(b) => Told(ApplyObserverEvent(cs, e),
                            WithDecision(Moved(s, e.agent, b, Gone, New), e))
<1>1. PICK g \in Agents : g = e.agent
  OBVIOUS
<1>2. PICK u : u = Moved(s, g, b, Gone, New)
  OBVIOUS
<1>3. PICK at \in Nat : at = s.time
  BY DEF States
<1>4. /\ u \in States /\ u.time = s.time /\ u.items = s.items
      /\ u.agents = [s.agents EXCEPT ![g] = b] /\ u.agents[g] = b
      /\ OthersStay(s, u, g)
      /\ (\A x \in Gone : x.kind # "agent.decide") =>
           StillDeciding(Of(s.schedule, g), Of(u.schedule, g))
  <2>1. (\A x \in Gone : x.agent = g) /\ (\A x \in New : x.agent = g)
    BY <1>1 DEF Owned
  <2>2. QED
    BY <1>2, <2>1, MovedEffect
<1>5. PICK k : k = Folded(cs[g], e)
  OBVIOUS
<1>6. Shows(k, b, cs[g].food)
  BY <1>1, <1>5
<1>7. PICK ds : ds = ApplyObserverEvent(cs, e)
  OBVIOUS
<1>8. ds = [cs EXCEPT ![g] = k]
  BY <1>1, <1>5, <1>7 DEF ApplyObserverEvent
<1>9. Tells(cs[g], s.agents[g], Cardinality(FoodOf(s, g)), Of(s.schedule, g), at)
  BY <1>3 DEF Told
<1>10. ASSUME NEW t, t.time = u.time, t.agents = u.agents, t.items = u.items,
              OthersStay(u, t, g), k.goal = b.goal \/ Deciding(Of(t.schedule, g), at)
       PROVE  Told(ds, t)
  <2>1. \A ag : FoodOf(t, ag) = FoodOf(s, ag)
    BY <1>4, <1>10 DEF FoodOf
  <2>2. k.food = Cardinality(FoodOf(t, g))
    BY <1>6, <1>9, <2>1 DEF Tells, Shows
  <2>3. t.time = at
    BY <1>3, <1>4, <1>10
  <2>4. Tells(k, b, Cardinality(FoodOf(t, g)), Of(t.schedule, g), t.time)
    BY <1>6, <1>10, <2>2, <2>3 DEF Tells, Shows
  <2>5. t.agents = [s.agents EXCEPT ![g] = b] /\ t.time = s.time /\ OthersStay(s, t, g)
    BY <1>4, <1>10 DEF OthersStay
  <2>6. \A ag : ag # g => FoodOf(t, ag) = FoodOf(s, ag)
    BY <2>1
  <2>7. QED
    BY ONLY s \in States, g \in Agents, Told(cs, s), <1>8, <2>4, <2>5, <2>6, Retold
<1>11. PICK t : t = WithDecision(u, e)
  OBVIOUS
<1>12. /\ t.time = u.time /\ t.agents = u.agents /\ t.items = u.items
       /\ OthersStay(u, t, g)
       /\ Free(b) => Deciding(Of(t.schedule, g), at)
       /\ Deciding(Of(u.schedule, g), at) => Deciding(Of(t.schedule, g), at)
  <2>1. u \in States /\ e.at \in Nat
    BY <1>3, <1>4
  <2>2. /\ t.time = u.time /\ t.agents = u.agents /\ t.items = u.items
        /\ OthersStay(u, t, e.agent)
        /\ Free(u.agents[e.agent]) => Deciding(Of(t.schedule, e.agent), e.at)
        /\ Deciding(Of(u.schedule, e.agent), e.at) => Deciding(Of(t.schedule, e.agent), e.at)
    BY <1>11, <2>1, WithDecisionEffect
  <2>3. e.at = at /\ u.agents[e.agent] = b
    BY <1>1, <1>3, <1>4
  <2>4. /\ Free(b) => Deciding(Of(t.schedule, g), at)
        /\ Deciding(Of(u.schedule, g), at) => Deciding(Of(t.schedule, g), at)
        /\ OthersStay(u, t, g)
    BY Zenon, <1>1, <2>2, <2>3
  <2>5. QED
    BY <2>2, <2>4
<1>13. ASSUME GoalShown(k, cs[g], s.agents[g], b, Gone)
       PROVE  Told(ds, u) /\ Told(ds, t)
  <2>1. k.goal = b.goal \/ Deciding(Of(u.schedule, g), at)
    BY <1>4, <1>9, <1>13 DEF GoalShown, Tells, StillDeciding
  <2>2. OthersStay(u, u, g)
    BY DEF OthersStay
  <2>3. Told(ds, u)
    <3>1. PICK v : v = u
      OBVIOUS
    <3>2. /\ v.time = u.time /\ v.agents = u.agents /\ v.items = u.items
          /\ OthersStay(u, v, g)
          /\ k.goal = b.goal \/ Deciding(Of(v.schedule, g), at)
      BY <2>1, <2>2, <3>1
    <3>3. Told(ds, v)
      BY <1>10, <3>2
    <3>4. QED
      BY <3>1, <3>3
  <2>4. QED
    BY <1>10, <1>12, <2>1, <2>3
<1>14. ASSUME Free(b) PROVE Told(ds, t)
  BY <1>10, <1>12, <1>14
<1>15. QED
  BY <1>1, <1>2, <1>5, <1>7, <1>11, <1>13, <1>14

(* What is told of one agent.                                              *)
LEMMA ToldOf ==
  ASSUME NEW cs, NEW s, Told(cs, s), NEW g \in Agents
  PROVE  /\ cs[g] \in Card /\ cs[g].status = s.agents[g].status
         /\ cs[g].route = s.agents[g].route
         /\ cs[g].place = IF s.agents[g].status = "traveling" THEN Nowhere ELSE s.agents[g].place
         /\ cs[g].food = Cardinality(FoodOf(s, g))
<1>1. Tells(cs[g], s.agents[g], Cardinality(FoodOf(s, g)), Of(s.schedule, g), s.time)
  BY DEF Told
<1>2. QED
  BY <1>1 DEF Tells

(* What is told, is told of the later moment as well.                      *)
LEMMA StampTold ==
  ASSUME NEW s0 \in States, NEW at \in Nat, s0.time <= at, NEW cs, Told(cs, s0),
         NEW s, s = Stamp(s0, at), s.time = at, s.agents = s0.agents,
         s.schedule = s0.schedule, s.items = s0.items
  PROVE  Told(cs, s)
<1>1. \A ag : FoodOf(s, ag) = FoodOf(s0, ag)
  BY DEF FoodOf
<1>2. \A ag : Deciding(Of(s0.schedule, ag), s0.time) => Deciding(Of(s.schedule, ag), at)
  <2> SUFFICES ASSUME NEW ag, Deciding(Of(s0.schedule, ag), s0.time)
               PROVE  Deciding(Of(s.schedule, ag), at)
    OBVIOUS
  <2>1. PICK x \in Of(s0.schedule, ag) : x.kind = "agent.decide" /\ x.due <= s0.time
    BY DEF Deciding
  <2>2. x.due \in Nat /\ s0.time \in Nat
    BY DEF Of, States, Planned
  <2>3. x.due <= at
    BY <2>1, <2>2
  <2>4. QED
    BY <2>1, <2>3 DEF Deciding
<1>3. QED
  BY <1>1, <1>2 DEF Told, Tells

-----------------------------------------------------------------------------
(* They do, for each type of event.                                        *)
LEMMA StartTold ==
  ASSUME NEW s \in States, NEW e, Decodable(e), e.type = "journey.started", e.at = s.time,
         NEW cs, Told(cs, s), NEW ds, ds = ApplyObserverEvent(cs, e)
  PROVE  Told(ds, JourneyStarted(s, e))
<1>1. PICK g \in Agents : g = e.agent
  BY DecodedIs
<1>2. PICK r \in Routes : r = e.payload.route
  BY DecodedIs
<1>3. PICK a \in Stored : a = s.agents[g]
  BY DEF States
<1>4. PICK b : b = OffTo(a, r)
  OBVIOUS
<1>5. b \in Stored /\ b.status = "traveling" /\ b.route = r /\ b.goal = a.goal
  BY <1>4, OffToIsStored
<1>6. PICK x : x = Arrival(g, e.payload.arrival, s.sequence, r)
  OBVIOUS
<1>7. x \in Planned /\ x.agent = g
  <2>1. e.payload.arrival \in Nat /\ s.sequence \in Nat
    BY DecodedIs DEF States
  <2>2. QED
    BY <1>6, <2>1, NewArrival
<1>8. PICK Gone : Gone = {y \in Of(s.schedule, g) : y.kind \in {"agent.travel"}}
  OBVIOUS
<1>9. Owned(Gone, g) /\ \A y \in Gone : y.kind # "agent.decide"
  BY <1>8 DEF Of, Owned
<1>10. PICK New : New = {x}
  OBVIOUS
<1>11. New \in SUBSET Planned /\ Owned(New, g)
  BY <1>7, <1>10 DEF Owned
<1>12. JourneyStarted(s, e) = Moved(s, g, b, Gone, New)
  BY <1>1, <1>2, <1>3, <1>4, <1>6, <1>8, <1>10, JourneyStartedIsMove
<1>13. PICK k : k = Folded(cs[g], e)
  OBVIOUS
<1>14. /\ k \in Card /\ k.status = "traveling" /\ k.place = Nowhere
       /\ k.route = r /\ k.food = cs[g].food /\ k.goal = cs[g].goal
  <2>1. cs[g] \in Card
    BY ToldOf
  <2>2. QED
    BY <1>2, <1>13, <2>1, FoldedStart
<1>15. Shows(k, b, cs[g].food) /\ GoalShown(k, cs[g], a, b, Gone)
  BY <1>5, <1>9, <1>14 DEF Shows, GoalShown
<1>16. QED
  BY ONLY s \in States, e.at = s.time, Told(cs, s), ds = ApplyObserverEvent(cs, e), g \in Agents,
          <1>1, <1>3, <1>5, <1>9, <1>11, <1>12, <1>13, <1>15, RetoldMove

LEMMA RestTold ==
  ASSUME NEW s \in States, NEW e, Decodable(e), e.type = "rest.started", e.at = s.time,
         s.agents[e.agent].status = "idle",
         NEW cs, Told(cs, s), NEW ds, ds = ApplyObserverEvent(cs, e)
  PROVE  Told(ds, RestStarted(s, e))
<1>1. PICK g \in Agents : g = e.agent
  BY DecodedIs
<1>2. PICK a \in Stored : a = s.agents[g]
  BY DEF States
<1>3. PICK b : b = LyingDown(a)
  OBVIOUS
<1>4. b \in Stored /\ b.status = "resting" /\ b.goal = a.goal
  BY <1>3, LyingDownIsStored
<1>5. b.route = a.route /\ b.place = a.place
  BY <1>3 DEF LyingDown, Stored
<1>6. PICK x : x = Action("rest.complete", g, e.payload.ending, s.sequence)
  OBVIOUS
<1>7. x \in Planned /\ x.agent = g
  <2>1. e.payload.ending \in Nat /\ s.sequence \in Nat
    BY DecodedIs DEF States
  <2>2. QED
    BY <1>6, <2>1, NewAction DEF Plain
<1>8. PICK Gone : Gone = {y \in Of(s.schedule, g) : y.kind \in {"agent.rest"}}
  OBVIOUS
<1>9. Owned(Gone, g) /\ \A y \in Gone : y.kind # "agent.decide"
  BY <1>8 DEF Of, Owned
<1>10. PICK New : New = {x}
  OBVIOUS
<1>11. New \in SUBSET Planned /\ Owned(New, g)
  BY <1>7, <1>10 DEF Owned
<1>12. PICK k : k = Folded(cs[g], e)
  OBVIOUS
<1>13. /\ cs[g] \in Card /\ cs[g].route = a.route /\ cs[g].place = a.place
  BY <1>1, <1>2, ToldOf
<1>14. /\ k \in Card /\ k.status = "resting" /\ k.place = a.place
       /\ k.route = a.route /\ k.food = cs[g].food /\ k.goal = cs[g].goal
  BY <1>12, <1>13, FoldedRest
<1>15. RestStarted(s, e) = Moved(s, g, b, Gone, New)
  BY <1>1, <1>2, <1>3, <1>6, <1>8, <1>10, RestStartedIsMove
<1>16. Shows(k, b, cs[g].food) /\ GoalShown(k, cs[g], a, b, Gone)
  BY <1>4, <1>5, <1>9, <1>14 DEF Shows, GoalShown
<1>17. QED
  BY ONLY s \in States, e.at = s.time, Told(cs, s), ds = ApplyObserverEvent(cs, e), g \in Agents,
          <1>1, <1>2, <1>4, <1>9, <1>11, <1>12, <1>15, <1>16, RetoldMove

LEMMA RiskTold ==
  ASSUME NEW s \in States, NEW e, Decodable(e), e.type = "risk.observed", e.at = s.time,
         NEW cs, Told(cs, s), NEW ds, ds = ApplyObserverEvent(cs, e)
  PROVE  Told(ds, RiskObserved(s, e))
<1>1. PICK g \in Agents : g = e.agent
  BY DecodedIs
<1>2. PICK r \in Routes : r = e.payload.route
  BY DecodedIs
<1>3. PICK a \in Stored : a = s.agents[g]
  BY DEF States
<1>4. PICK b : b = Learning(a, r)
  OBVIOUS
<1>5. b \in Stored /\ b.status = a.status /\ b.route = a.route /\ b.goal = a.goal
  BY <1>4, LearningIsStored
<1>6. b.place = a.place
  BY <1>4 DEF Learning, Stored
<1>7. PICK None : None = {}
  OBVIOUS
<1>8. Owned(None, g) /\ None \in SUBSET Planned /\ \A y \in None : y.kind # "agent.decide"
  BY <1>7 DEF Owned
<1>9. RiskObserved(s, e) = Moved(s, g, b, None, None)
  BY <1>1, <1>2, <1>3, <1>4, <1>7, RiskObservedIsMove
<1>10. PICK k : k = Folded(cs[g], e)
  OBVIOUS
<1>11. k = cs[g]
  <2>1. cs[g] \in Card
    BY ToldOf
  <2>2. QED
    BY <1>10, <2>1, FoldedRisk
<1>12. /\ k \in Card /\ k.status = a.status /\ k.route = a.route
       /\ k.place = IF a.status = "traveling" THEN Nowhere ELSE a.place
  BY <1>1, <1>3, <1>11, ToldOf
<1>13. Shows(k, b, cs[g].food) /\ GoalShown(k, cs[g], a, b, None)
  BY <1>5, <1>6, <1>8, <1>11, <1>12 DEF Shows, GoalShown
<1>14. QED
  BY ONLY s \in States, e.at = s.time, Told(cs, s), ds = ApplyObserverEvent(cs, e), g \in Agents,
          <1>1, <1>3, <1>5, <1>8, <1>9, <1>10, <1>13, RetoldMove

LEMMA CrossingTold ==
  ASSUME NEW s \in States, NEW e, Decodable(e), e.type = "need.threshold.crossed",
         e.at = s.time, NEW cs, Told(cs, s), NEW ds, ds = ApplyObserverEvent(cs, e)
  PROVE  Told(ds, NeedThresholdCrossed(s, e))
<1>1. PICK g \in Agents : g = e.agent
  BY DecodedIs
<1>2. PICK p : p = e.payload
  OBVIOUS
<1>3. p.need \in Needs /\ p.level \in NeedLevels /\ p.next \in SUBSET Nat
  BY <1>2, DecodedIs
<1>4. PICK a \in Stored : a = s.agents[g]
  BY DEF States
<1>5. PICK Gone : Gone = {x \in Of(s.schedule, g) : x.kind = "need.threshold" /\ x.need = p.need}
  OBVIOUS
<1>6. Owned(Gone, g) /\ \A y \in Gone : y.kind # "agent.decide"
  BY <1>5 DEF Of, Owned
<1>7. PICK New : New = {Crossing(g, p.need, due, Worse(p.level)) : due \in p.next}
  OBVIOUS
<1>8. New \in SUBSET Planned /\ Owned(New, g)
  <2> SUFFICES ASSUME NEW x \in New PROVE x \in Planned /\ x.agent = g
    BY DEF Owned
  <2>1. PICK due \in Nat : x = Crossing(g, p.need, due, Worse(p.level))
    BY <1>3, <1>7
  <2>2. Worse(p.level) \in {"warning", "critical"}
    BY DEF Worse
  <2>3. s.sequence \in Nat
    BY DEF States
  <2>4. QED
    BY <1>3, <2>1, <2>2, <2>3, NewCrossing
<1>9. NeedThresholdCrossed(s, e) = WithDecision(Moved(s, g, a, Gone, New), e)
  BY <1>1, <1>2, <1>4, <1>5, <1>7, NeedThresholdCrossedIsMove
<1>10. PICK k : k = Folded(cs[g], e)
  OBVIOUS
<1>11. /\ cs[g] \in Card /\ cs[g].status = a.status /\ cs[g].route = a.route
       /\ cs[g].place = IF a.status = "traveling" THEN Nowhere ELSE a.place
  BY <1>1, <1>4, ToldOf
<1>12. /\ k \in Card /\ k.status = cs[g].status /\ k.place = cs[g].place
       /\ k.route = cs[g].route /\ k.food = cs[g].food /\ k.goal = cs[g].goal
  BY <1>2, <1>3, <1>10, <1>11, FoldedCrossing
<1>13. Shows(k, a, cs[g].food) /\ GoalShown(k, cs[g], a, a, Gone)
  BY <1>6, <1>11, <1>12 DEF Shows, GoalShown
<1>14. QED
  BY ONLY s \in States, e.at = s.time, Told(cs, s), ds = ApplyObserverEvent(cs, e), g \in Agents,
          a \in Stored, <1>1, <1>4, <1>6, <1>8, <1>9, <1>10, <1>13, RetoldMove

LEMMA ArrivalTold ==
  ASSUME NEW s, NEW F, Good(s, F), NEW e, Decodable(e), e.type = "journey.completed",
         e.at = s.time,
         NEW x \in s.schedule, x.kind = "journey.complete", x.agent = e.agent, e.caused = {Id(x)},
         NEW cs, Told(cs, s), NEW ds, ds = ApplyObserverEvent(cs, e)
  PROVE  Told(ds, JourneyCompleted(s, e))
<1>1. PICK g \in Agents : g = e.agent
  BY DecodedIs
<1>2. PICK r \in Routes : r = e.payload.route
  BY DecodedIs
<1>3. s \in States
  BY DEF Good
<1>4. PICK a \in Stored : a = s.agents[g]
  BY <1>3 DEF States
<1>5. PICK place \in Places : place = RouteTo[r]
  BY RulesAssumption DEF ValidMap
<1>6. PICK b : b = Arrived(a, place)
  OBVIOUS
<1>7. b \in Stored /\ b.status = "idle" /\ b.goal = "idle"
  BY <1>6, ArrivedIsStored
<1>8. b.place = place /\ b.route = 0
  BY <1>6 DEF Arrived, Stored
<1>9. PICK Gone : Gone = {y \in s.schedule : Id(y) \in e.caused}
  OBVIOUS
<1>10. Gone = {x}
  BY <1>1, <1>9, OnlyOne DEF NamedByEvent
<1>11. Owned(Gone, g)
  BY <1>1, <1>10 DEF Owned
<1>12. PICK None : None = {}
  OBVIOUS
<1>13. None \in SUBSET Planned /\ Owned(None, g)
  BY <1>12 DEF Owned
<1>14. JourneyCompleted(s, e) = WithDecision(Moved(s, g, b, Gone, None), e)
  BY <1>1, <1>2, <1>3, <1>4, <1>5, <1>6, <1>9, <1>12, JourneyCompletedIsMove
<1>15. PICK k : k = Folded(cs[g], e)
  OBVIOUS
<1>16. /\ k \in Card /\ k.status = "idle" /\ k.place = place /\ k.route = 0
       /\ k.food = cs[g].food
  <2>1. cs[g] \in Card
    BY ToldOf
  <2>2. QED
    BY <1>2, <1>5, <1>15, <2>1, FoldedCompletion
<1>17. Shows(k, b, cs[g].food) /\ Free(b)
  BY <1>7, <1>8, <1>16 DEF Shows, Free
<1>18. QED
  BY ONLY e.at = s.time, Told(cs, s), ds = ApplyObserverEvent(cs, e), g \in Agents,
          <1>1, <1>3, <1>7, <1>11, <1>13, <1>14, <1>15, <1>17, RetoldMove

LEMMA WakingTold ==
  ASSUME NEW s, NEW F, Good(s, F), NEW e, Decodable(e), e.type = "agent.rested",
         e.at = s.time,
         NEW x \in s.schedule, x.kind = "rest.complete", x.agent = e.agent, e.caused = {Id(x)},
         NEW cs, Told(cs, s), NEW ds, ds = ApplyObserverEvent(cs, e)
  PROVE  Told(ds, AgentRested(s, e))
<1>1. PICK g \in Agents : g = e.agent
  BY DecodedIs
<1>2. s \in States
  BY DEF Good
<1>3. PICK a \in Stored : a = s.agents[g]
  BY <1>2 DEF States
<1>4. a.status = "resting"
  <2>1. PICK X : X = Of(s.schedule, g)
    OBVIOUS
  <2>2. Fine(a, X, F)
    BY <1>3, <2>1, Parts
  <2>3. x \in X
    BY <1>1, <2>1 DEF Of
  <2>4. QED
    BY <2>2, <2>3 DEF Fine
<1>5. e.at \in Nat
  BY DecodedIs
<1>6. PICK b : b = Risen(a, e.at)
  OBVIOUS
<1>7. b \in Stored /\ b.status = "idle" /\ b.goal = "idle"
  BY <1>5, <1>6, RisenIsStored
<1>8. b.place = a.place /\ b.route = a.route
  <2>1. PICK baseline : baseline = [a.baseline EXCEPT !.fatigue = e.at]
    OBVIOUS
  <2>2. b = RisenWith(a, baseline)
    BY <1>6, <2>1 DEF Risen
  <2>3. QED
    BY <2>2 DEF RisenWith, Stored
<1>9. PICK Gone : Gone = {y \in s.schedule : Id(y) \in e.caused}
  OBVIOUS
<1>10. Gone = {x}
  BY <1>1, <1>9, OnlyOne DEF NamedByEvent
<1>11. Owned(Gone, g)
  BY <1>1, <1>10 DEF Owned
<1>12. PICK None : None = {}
  OBVIOUS
<1>13. None \in SUBSET Planned /\ Owned(None, g)
  BY <1>12 DEF Owned
<1>14. AgentRested(s, e) = WithDecision(Moved(s, g, b, Gone, None), e)
  BY <1>1, <1>2, <1>3, <1>6, <1>9, <1>12, AgentRestedIsMove
<1>15. PICK k : k = Folded(cs[g], e)
  OBVIOUS
<1>16. cs[g] \in Card /\ cs[g].place = a.place /\ cs[g].route = a.route
  BY <1>3, <1>4, ToldOf
<1>17. /\ k \in Card /\ k.status = "idle" /\ k.place = a.place /\ k.route = a.route
       /\ k.food = cs[g].food
  BY <1>15, <1>16, FoldedWaking
<1>18. Shows(k, b, cs[g].food) /\ Free(b)
  BY <1>7, <1>8, <1>17 DEF Shows, Free
<1>19. QED
  BY ONLY e.at = s.time, Told(cs, s), ds = ApplyObserverEvent(cs, e), g \in Agents,
          <1>1, <1>2, <1>7, <1>11, <1>13, <1>14, <1>15, <1>18, RetoldMove

LEMMA ChoiceTold ==
  ASSUME NEW s \in States, NEW e, Decodable(e), e.type = "goal.chosen", e.at = s.time,
         e.payload.goal = "eat" => FoodOf(s, e.agent) # {},
         NEW cs, Told(cs, s), NEW ds, ds = ApplyObserverEvent(cs, e)
  PROVE  Told(ds, GoalChosen(s, e))
<1>1. PICK g \in Agents : g = e.agent
  BY DecodedIs
<1>2. PICK goal \in GoalNames : goal = e.payload.goal
  BY DecodedIs
<1>3. PICK a \in Stored : a = s.agents[g]
  BY DEF States
<1>4. PICK plan \in Nat : plan = IF goal = "idle" THEN 0 ELSE s.sequence
  BY DEF States
<1>5. PICK b : b = Choosing(a, goal, plan)
  OBVIOUS
<1>6. b \in Stored /\ b.status = a.status /\ b.route = a.route /\ b.goal = goal
  BY <1>5, ChoosingIsStored
<1>7. b.place = a.place
  BY <1>5 DEF Choosing, Stored
<1>8. PICK Gone : Gone = {x \in Of(s.schedule, g) : x.kind \in {"agent.decide"}}
  OBVIOUS
<1>9. Owned(Gone, g)
  BY <1>8 DEF Owned, Of
<1>10. PICK New : New = StepFor(s, e)
  OBVIOUS
<1>11. New \in SUBSET Planned /\ Owned(New, g)
  <2>1. e.at \in Nat
    BY DecodedIs
  <2>2. \A x \in StepFor(s, e) : x \in Planned /\ x.agent = e.agent
    BY <1>1, <1>2, <2>1, StepIsNew
  <2>3. QED
    BY <1>1, <1>10, <2>2 DEF Owned
<1>12. GoalChosen(s, e) = Moved(s, g, b, Gone, New)
  BY <1>1, <1>2, <1>3, <1>4, <1>5, <1>8, <1>10, GoalChosenIsMove
<1>13. PICK k : k = Folded(cs[g], e)
  OBVIOUS
<1>14. /\ cs[g] \in Card /\ cs[g].status = a.status /\ cs[g].route = a.route
       /\ cs[g].place = IF a.status = "traveling" THEN Nowhere ELSE a.place
  BY <1>3, ToldOf
<1>15. /\ k \in Card /\ k.status = cs[g].status /\ k.place = cs[g].place
       /\ k.route = cs[g].route /\ k.food = cs[g].food /\ k.goal = goal
  BY <1>2, <1>13, <1>14, FoldedChoice
<1>16. Shows(k, b, cs[g].food) /\ GoalShown(k, cs[g], a, b, Gone)
  BY <1>6, <1>7, <1>14, <1>15 DEF Shows, GoalShown
<1>17. QED
  BY ONLY s \in States, e.at = s.time, Told(cs, s), ds = ApplyObserverEvent(cs, e), g \in Agents,
          <1>1, <1>3, <1>6, <1>9, <1>11, <1>12, <1>13, <1>16, RetoldMove

LEMMA FailureTold ==
  ASSUME NEW s \in States, NEW e, Decodable(e), e.type = "plan.invalidated", e.at = s.time,
         NEW cs, Told(cs, s), NEW ds, ds = ApplyObserverEvent(cs, e)
  PROVE  Told(ds, PlanInvalidated(s, e))
<1>1. PICK g \in Agents : g = e.agent
  BY DecodedIs
<1>2. PICK a \in Stored : a = s.agents[g]
  BY DEF States
<1>3. PICK b : b = GivingUp(a)
  OBVIOUS
<1>4. /\ b \in Stored /\ b.status = IF a.status = "resting" THEN "idle" ELSE a.status
      /\ b.route = a.route /\ b.goal = "idle"
  BY <1>3, GivingUpIsStored
<1>5. b.place = a.place
  BY <1>3 DEF GivingUp, Stored
<1>6. PICK Gone : Gone = {x \in Of(s.schedule, g) : x.kind \in OfPlan}
  OBVIOUS
<1>7. Owned(Gone, g)
  BY <1>6 DEF Owned, Of
<1>8. PICK None : None = {}
  OBVIOUS
<1>9. None \in SUBSET Planned /\ Owned(None, g)
  BY <1>8 DEF Owned
<1>10. PlanInvalidated(s, e) = WithDecision(Moved(s, g, b, Gone, None), e)
  BY <1>1, <1>2, <1>3, <1>6, <1>8, PlanInvalidatedIsMove
<1>11. PICK k : k = Folded(cs[g], e)
  OBVIOUS
<1>12. /\ cs[g] \in Card /\ cs[g].status = a.status /\ cs[g].route = a.route
       /\ cs[g].place = IF a.status = "traveling" THEN Nowhere ELSE a.place
  BY <1>2, ToldOf
<1>13. /\ k \in Card /\ k.status = IF a.status = "resting" THEN "idle" ELSE a.status
       /\ k.place = cs[g].place /\ k.route = a.route /\ k.food = cs[g].food /\ k.goal = "idle"
  BY <1>11, <1>12, FoldedFailure
<1>14. Shows(k, b, cs[g].food) /\ GoalShown(k, cs[g], a, b, Gone)
  BY <1>4, <1>5, <1>12, <1>13 DEF Shows, GoalShown
<1>15. QED
  BY ONLY s \in States, e.at = s.time, Told(cs, s), ds = ApplyObserverEvent(cs, e), g \in Agents,
          <1>1, <1>2, <1>4, <1>7, <1>9, <1>10, <1>11, <1>14, RetoldMove

(* One item less, of one agent.                                            *)
LEMMA LessFood ==
  ASSUME NEW s \in States, NEW g \in Agents, NEW i \in FoodOf(s, g),
         NEW t, t.items = Eaten(s.items, i)
  PROVE  /\ \A ag : ag # g => FoodOf(t, ag) = FoodOf(s, ag)
         /\ Cardinality(FoodOf(s, g)) \in Nat /\ Cardinality(FoodOf(s, g)) > 0
         /\ Cardinality(FoodOf(t, g)) = Cardinality(FoodOf(s, g)) - 1
<1>1. DOMAIN t.items = DOMAIN s.items \ {i}
  BY DEF Eaten
<1>2. \A j \in DOMAIN t.items : t.items[j] = s.items[j]
  BY DEF Eaten
<1>3. s.items[i] = g
  BY DEF FoodOf
<1>4. \A ag : FoodOf(t, ag) = FoodOf(s, ag) \ {i}
  BY <1>1, <1>2 DEF FoodOf
<1>5. \A ag : ag # g => FoodOf(t, ag) = FoodOf(s, ag)
  BY <1>3, <1>4 DEF FoodOf
<1>6. PICK S : S = FoodOf(s, g)
  OBVIOUS
<1>7. IsFiniteSet(S)
  <2>1. s.items \in ItemMaps
    BY DEF States
  <2>2. S \in SUBSET DOMAIN Food
    BY <1>6, <2>1 DEF FoodOf, ItemMaps
  <2>3. QED
    BY <2>2, RunAssumption, FS_Subset
<1>8. /\ IsFiniteSet(S \ {i}) /\ Cardinality(S) \in Nat
      /\ Cardinality(S \ {i}) = Cardinality(S) - 1
  BY <1>6, <1>7, FS_RemoveElement, FS_CardinalityType
<1>9. Cardinality(S \ {i}) \in Nat
  BY <1>8, FS_CardinalityType
<1>10. Cardinality(S) > 0
  BY <1>8, <1>9
<1>11. FoodOf(t, g) = S \ {i}
  BY <1>4, <1>6
<1>12. QED
  BY <1>5, <1>6, <1>8, <1>10, <1>11

LEMMA MealTold ==
  ASSUME NEW s \in States, NEW e, Decodable(e), e.type = "agent.ate", e.at = s.time,
         e.payload.item \in FoodOf(s, e.agent),
         NEW cs, Told(cs, s), NEW ds, ds = ApplyObserverEvent(cs, e)
  PROVE  Told(ds, AgentAte(s, e))
<1>1. PICK g \in Agents : g = e.agent
  BY DecodedIs
<1>2. PICK i \in FoodOf(s, g) : i = e.payload.item
  BY <1>1
<1>3. PICK a \in Stored : a = s.agents[g]
  BY DEF States
<1>4. e.at \in Nat
  BY DecodedIs
<1>5. PICK b : b = Fed(a, e.at)
  OBVIOUS
<1>6. b \in Stored /\ b.status = a.status /\ b.route = a.route /\ b.goal = "idle"
  BY <1>4, <1>5, FedIsStored
<1>7. b.place = a.place
  <2>1. PICK baseline : baseline = [a.baseline EXCEPT !.hunger = e.at]
    OBVIOUS
  <2>2. b = FedWith(a, baseline)
    BY <1>5, <2>1 DEF Fed
  <2>3. QED
    BY <2>2 DEF FedWith, Stored
<1>8. PICK Gone : Gone = {x \in Of(s.schedule, g) : x.kind = "agent.eat" /\ x.item = i}
  OBVIOUS
<1>9. PICK u : u = Moved(s, g, b, Gone, {})
  OBVIOUS
<1>10. /\ u \in States /\ u.time = s.time /\ u.agents = [s.agents EXCEPT ![g] = b]
       /\ OthersStay(s, u, g)
  <2>1. (\A x \in Gone : x.agent = g) /\ {} \in SUBSET Planned /\ \A x \in {} : x.agent = g
    BY <1>8 DEF Of
  <2>2. QED
    BY <1>6, <1>9, <2>1, MovedEffect
<1>11. PICK f : f = Eaten(s.items, i)
  OBVIOUS
<1>12. f \in ItemMaps
  <2>1. s.items \in ItemMaps
    BY DEF States
  <2>2. QED
    BY <1>11, <2>1, EatenIsMap
<1>13. PICK v : v = Keeping(u, f)
  OBVIOUS
<1>14. /\ v \in States /\ v.time = u.time /\ v.agents = u.agents
       /\ v.schedule = u.schedule /\ v.items = f
  BY <1>10, <1>12, <1>13 DEF Keeping, States
<1>15. PICK t : t = WithDecision(v, e)
  OBVIOUS
<1>16. AgentAte(s, e) = t
  BY <1>1, <1>2, <1>3, <1>5, <1>8, <1>9, <1>11, <1>13, <1>15, AgentAteIsMove
<1>17. t.time = v.time /\ t.agents = v.agents /\ t.items = v.items /\ OthersStay(v, t, g)
  <2>1. /\ t.time = v.time /\ t.agents = v.agents /\ t.items = v.items
        /\ OthersStay(v, t, e.agent)
    <3>1. v \in States /\ e.agent \in Agents
      BY <1>1, <1>14
    <3>2. QED
      BY <1>4, <1>15, <3>1, WithDecisionEffect
  <2>2. QED
    BY <1>1, <2>1
<1>18. /\ \A ag : ag # g => FoodOf(t, ag) = FoodOf(s, ag)
       /\ Cardinality(FoodOf(s, g)) \in Nat /\ Cardinality(FoodOf(s, g)) > 0
       /\ Cardinality(FoodOf(t, g)) = Cardinality(FoodOf(s, g)) - 1
  <2>1. t.items = Eaten(s.items, i)
    BY <1>11, <1>14, <1>17
  <2>2. QED
    BY <2>1, LessFood
<1>19. PICK k : k = Folded(cs[g], e)
  OBVIOUS
<1>20. /\ cs[g] \in Card /\ cs[g].status = a.status /\ cs[g].route = a.route
       /\ cs[g].place = IF a.status = "traveling" THEN Nowhere ELSE a.place
       /\ cs[g].food = Cardinality(FoodOf(s, g))
  BY <1>3, ToldOf
<1>21. /\ k \in Card /\ k.status = cs[g].status /\ k.place = cs[g].place
       /\ k.route = cs[g].route /\ k.goal = "idle"
       /\ k.food = IF cs[g].food = 0 THEN 0 ELSE cs[g].food - 1
  BY <1>19, <1>20, FoldedMeal
<1>22. Tells(k, b, Cardinality(FoodOf(t, g)), Of(t.schedule, g), t.time)
  <2>1. k.food = Cardinality(FoodOf(t, g))
    BY <1>18, <1>20, <1>21
  <2>2. /\ k.status = b.status /\ k.route = b.route /\ k.goal = b.goal
        /\ k.place = IF b.status = "traveling" THEN Nowhere ELSE b.place
    BY <1>6, <1>7, <1>20, <1>21
  <2>3. QED
    BY <1>21, <2>1, <2>2 DEF Tells
<1>23. t.agents = [s.agents EXCEPT ![g] = b] /\ t.time = s.time
  BY <1>10, <1>14, <1>17
<1>24. OthersStay(s, t, g)
  BY <1>10, <1>14, <1>17 DEF OthersStay
<1>25. ds = [cs EXCEPT ![g] = k]
  BY <1>1, <1>19 DEF ApplyObserverEvent
<1>26. \A ag : ag # g => FoodOf(t, ag) = FoodOf(s, ag)
  BY <1>18
<1>27. Told(ds, t)
  BY ONLY s \in States, g \in Agents, Told(cs, s), <1>22, <1>23, <1>24, <1>25, <1>26, Retold
<1>28. QED
  BY <1>16, <1>27

(* The observer's fold follows the rules.                                  *)
LEMMA EvolveTold ==
  ASSUME NEW s0, NEW F, Good(s0, F), NEW e, Legal(s0, e), s0.time <= e.at,
         NEW cs, Told(cs, s0), NEW ds, ds = ApplyObserverEvent(cs, e)
  PROVE  Told(ds, Evolve(s0, e))
<1>1. Decodable(e) /\ e.at \in Nat
  <2>1. Decodable(e)
    BY DEF Legal
  <2>2. QED
    BY <2>1, DecodedIs
<1>2. PICK s : s = Stamp(s0, e.at)
  OBVIOUS
<1>3. /\ Good(s, F) /\ s.time = e.at /\ s.agents = s0.agents
      /\ s.schedule = s0.schedule /\ s.items = s0.items
  BY <1>1, <1>2, StampIsGood
<1>4. s0 \in States /\ s \in States
  BY <1>3 DEF Good
<1>5. Told(cs, s)
  <2>1. PICK at \in Nat : at = e.at
    BY <1>1
  <2>2. s0.time <= at /\ s = Stamp(s0, at) /\ s.time = at
    BY <1>2, <1>3, <2>1
  <2>3. QED
    BY <1>3, <1>4, <2>2, StampTold
<1>6. \A ag : FoodOf(s, ag) = FoodOf(s0, ag)
  BY <1>3 DEF FoodOf
<1>7. e.at = s.time
  BY <1>3
<1>8. CASE e.type = "journey.started"
  <2>1. Told(ds, JourneyStarted(s, e))
    BY <1>1, <1>4, <1>5, <1>7, <1>8, StartTold
  <2>2. QED
    BY <1>2, <1>8, <2>1, EvolveIs
<1>9. CASE e.type = "journey.completed"
  <2>1. PICK x \in s.schedule :
          x.kind = "journey.complete" /\ x.agent = e.agent /\ e.caused = {Id(x)}
    BY <1>3, <1>9 DEF Legal
  <2>2. Told(ds, JourneyCompleted(s, e))
    BY <1>1, <1>3, <1>5, <1>7, <1>9, <2>1, ArrivalTold
  <2>3. QED
    BY <1>2, <1>9, <2>2, EvolveIs
<1>10. CASE e.type = "need.threshold.crossed"
  <2>1. Told(ds, NeedThresholdCrossed(s, e))
    BY <1>1, <1>4, <1>5, <1>7, <1>10, CrossingTold
  <2>2. QED
    BY <1>2, <1>10, <2>1, EvolveIs
<1>11. CASE e.type = "agent.ate"
  <2>1. e.payload.item \in FoodOf(s, e.agent)
    BY <1>6, <1>11 DEF Legal
  <2>2. Told(ds, AgentAte(s, e))
    BY <1>1, <1>4, <1>5, <1>7, <1>11, <2>1, MealTold
  <2>3. QED
    BY <1>2, <1>11, <2>2, EvolveIs
<1>12. CASE e.type = "rest.started"
  <2>1. s.agents[e.agent].status = "idle"
    BY <1>3, <1>12 DEF Legal
  <2>2. Told(ds, RestStarted(s, e))
    BY <1>1, <1>4, <1>5, <1>7, <1>12, <2>1, RestTold
  <2>3. QED
    BY <1>2, <1>12, <2>2, EvolveIs
<1>13. CASE e.type = "agent.rested"
  <2>1. PICK x \in s.schedule :
          x.kind = "rest.complete" /\ x.agent = e.agent /\ e.caused = {Id(x)}
    BY <1>3, <1>13 DEF Legal
  <2>2. Told(ds, AgentRested(s, e))
    BY <1>1, <1>3, <1>5, <1>7, <1>13, <2>1, WakingTold
  <2>3. QED
    BY <1>2, <1>13, <2>2, EvolveIs
<1>14. CASE e.type = "goal.chosen"
  <2>1. e.payload.goal = "eat" => FoodOf(s, e.agent) # {}
    BY <1>6, <1>14 DEF Legal
  <2>2. Told(ds, GoalChosen(s, e))
    BY <1>1, <1>4, <1>5, <1>7, <1>14, <2>1, ChoiceTold
  <2>3. QED
    BY <1>2, <1>14, <2>2, EvolveIs
<1>15. CASE e.type = "plan.invalidated"
  <2>1. Told(ds, PlanInvalidated(s, e))
    BY <1>1, <1>4, <1>5, <1>7, <1>15, FailureTold
  <2>2. QED
    BY <1>2, <1>15, <2>1, EvolveIs
<1>16. CASE e.type = "risk.observed"
  <2>1. Told(ds, RiskObserved(s, e))
    BY <1>1, <1>4, <1>5, <1>7, <1>16, RiskTold
  <2>2. QED
    BY <1>2, <1>16, <2>1, EvolveIs
<1>17. QED
  BY <1>8, <1>9, <1>10, <1>11, <1>12, <1>13, <1>14, <1>15, <1>16 DEF Legal

-----------------------------------------------------------------------------
(* Cards of sequences of one and of two events.                            *)

(* The cards that events lead to.                                          *)
CardsFolded(cs, es) == FoldLeft(ApplyObserverEvent, cs, es)

(* What it folds over the numbers of the events, the last one outermost.   *)
CardFold(cs, es, D, f) ==
  [S \in SUBSET D |-> IF S = {} THEN cs ELSE ApplyObserverEvent(f[S \ {Max(S)}], es[Max(S)])]

LEMMA CardsAreFold ==
  ASSUME NEW cs, NEW es
  PROVE  CardsFolded(cs, es) = (CHOOSE f : f = CardFold(cs, es, DOMAIN es, f))[DOMAIN es]
  BY Zenon DEF CardsFolded, FoldLeft, MapThenFoldSet, CardFold

LEMMA FoldedOne ==
  ASSUME NEW s, NEW e
  PROVE  CardsFolded(s, <<e>>) = ApplyObserverEvent(s, e)
<1>1. PICK es : es = <<e>>
  OBVIOUS
<1>2. DOMAIN es = {1} /\ es[1] = e
  BY <1>1
<1>3. SUBSET {1} = {{}, {1}}
  OBVIOUS
<1> DEFINE w == [S \in SUBSET {1} |-> IF S = {} THEN s ELSE ApplyObserverEvent(s, e)]
<1>4. w = CardFold(s, es, {1}, w)
  <2>1. ASSUME NEW S \in SUBSET {1}
        PROVE  w[S] = IF S = {} THEN s ELSE ApplyObserverEvent(w[S \ {Max(S)}], es[Max(S)])
    <3>1. CASE S = {}
      BY <3>1
    <3>2. CASE S = {1}
      <4>1. Max(S) = 1 /\ S \ {1} = {} /\ {} \in SUBSET {1}
        BY <3>2, MaxIs
      <4>2. w[{}] = s /\ w[S] = ApplyObserverEvent(s, e)
        BY <3>2
      <4> HIDE DEF w
      <4>3. QED
        BY <1>2, <3>2, <4>1, <4>2
    <3>3. QED
      BY <1>3, <3>1, <3>2
  <2>2. QED
    BY <2>1 DEF CardFold
<1> HIDE DEF w
<1>5. PICK f : f = CHOOSE g : g = CardFold(s, es, {1}, g)
  OBVIOUS
<1>6. f = CardFold(s, es, {1}, f)
  BY <1>4, <1>5
<1>7. f[{}] = s
  <2>1. {} \in SUBSET {1}
    OBVIOUS
  <2>2. QED
    BY <1>6, <2>1 DEF CardFold
<1>8. f[{1}] = ApplyObserverEvent(f[{1} \ {1}], es[1])
  <2>1. {1} \in SUBSET {1} /\ {1} # {} /\ Max({1}) = 1
    BY MaxIs
  <2>2. QED
    BY <1>6, <2>1 DEF CardFold
<1>9. {1} \ {1} = {}
  OBVIOUS
<1>10. CardsFolded(s, es) = f[{1}]
  BY <1>2, <1>5, CardsAreFold
<1>11. QED
  BY <1>1, <1>2, <1>7, <1>8, <1>9, <1>10
LEMMA FoldedTwo ==
  ASSUME NEW s, NEW e1, NEW e2
  PROVE  CardsFolded(s, <<e1, e2>>) = ApplyObserverEvent(ApplyObserverEvent(s, e1), e2)
<1>1. PICK es : es = <<e1, e2>>
  OBVIOUS
<1>2. DOMAIN es = {1, 2} /\ es[1] = e1 /\ es[2] = e2
  BY <1>1
<1>3. SUBSET {1, 2} = {{}, {1}, {2}, {1, 2}}
  OBVIOUS
<1>4. /\ {1} \ {1} = {} /\ {2} \ {2} = {} /\ {1, 2} \ {2} = {1}
      /\ {1} # {} /\ {2} # {} /\ {1, 2} # {}
      /\ {1, 2} # {1} /\ {1, 2} # {2} /\ {1} # {2}
  OBVIOUS
<1> DEFINE w == [S \in SUBSET {1, 2} |->
                   IF S = {} THEN s
                   ELSE IF S = {1} THEN ApplyObserverEvent(s, e1)
                   ELSE IF S = {2} THEN ApplyObserverEvent(s, e2)
                   ELSE ApplyObserverEvent(ApplyObserverEvent(s, e1), e2)]
<1>5. w = CardFold(s, es, {1, 2}, w)
  <2>1. /\ w[{}] = s /\ w[{1}] = ApplyObserverEvent(s, e1) /\ w[{2}] = ApplyObserverEvent(s, e2)
        /\ w[{1, 2}] = ApplyObserverEvent(ApplyObserverEvent(s, e1), e2)
    BY <1>3, <1>4
  <2>2. ASSUME NEW v, v = w
        PROVE  \A S \in SUBSET {1, 2} :
                 v[S] = IF S = {} THEN s ELSE ApplyObserverEvent(v[S \ {Max(S)}], es[Max(S)])
    <3>1. /\ v[{}] = s /\ v[{1}] = ApplyObserverEvent(s, e1) /\ v[{2}] = ApplyObserverEvent(s, e2)
          /\ v[{1, 2}] = ApplyObserverEvent(ApplyObserverEvent(s, e1), e2)
      BY <2>1, <2>2
    <3> HIDE DEF w
    <3>2. v[{1}] = ApplyObserverEvent(v[{1} \ {Max({1})}], es[Max({1})])
      BY <1>2, <1>4, <3>1, MaxIs
    <3>3. v[{2}] = ApplyObserverEvent(v[{2} \ {Max({2})}], es[Max({2})])
      BY <1>2, <1>4, <3>1, MaxIs
    <3>4. v[{1, 2}] = ApplyObserverEvent(v[{1, 2} \ {Max({1, 2})}], es[Max({1, 2})])
      BY <1>2, <1>4, <3>1, MaxIs
    <3>5. QED
      BY <1>3, <1>4, <3>1, <3>2, <3>3, <3>4
  <2>3. QED
    BY <2>2 DEF CardFold
<1> HIDE DEF w
<1>6. PICK f : f = CHOOSE g : g = CardFold(s, es, {1, 2}, g)
  OBVIOUS
<1>7. f = CardFold(s, es, {1, 2}, f)
  BY <1>5, <1>6
<1>8. /\ {} \in SUBSET {1, 2} /\ {1} \in SUBSET {1, 2} /\ {1, 2} \in SUBSET {1, 2}
  OBVIOUS
<1>9. f[{}] = s
  BY <1>7, <1>8 DEF CardFold
<1>10. f[{1}] = ApplyObserverEvent(f[{1} \ {1}], es[1])
  BY <1>4, <1>7, <1>8, MaxIs DEF CardFold
<1>11. f[{1, 2}] = ApplyObserverEvent(f[{1, 2} \ {2}], es[2])
  BY <1>4, <1>7, <1>8, MaxIs DEF CardFold
<1>12. CardsFolded(s, es) = f[{1, 2}]
  BY <1>2, <1>6, CardsAreFold
<1>13. QED
  BY <1>1, <1>2, <1>4, <1>9, <1>10, <1>11, <1>12

-----------------------------------------------------------------------------
(* A card that tells of a row of the table of agents fits its own table.   *)
LEMMA ToldFits ==
  ASSUME NEW cs, NEW t \in States, Told(cs, t), NEW ag \in Agents, AgentFits(t.agents[ag])
  PROVE  CardFits(cs[ag])
<1>1. PICK a \in Stored : a = t.agents[ag]
  BY DEF States
<1>2. /\ cs[ag] \in Card /\ cs[ag].status = a.status /\ cs[ag].route = a.route
      /\ cs[ag].place = IF a.status = "traveling" THEN Nowhere ELSE a.place
  BY <1>1, ToldOf
<1>3. a.status = "traveling" <=> a.route # 0
  <2>1. AgentFits(a)
    BY <1>1
  <2>2. QED
    BY ONLY <2>1 DEF AgentFits
<1>4. a.place # Nowhere /\ a.status \in {"idle", "traveling", "resting"}
  BY RunAssumption DEF Stored, Statuses
<1>5. cs[ag].food >= 0
  BY <1>2 DEF Card
<1>6. QED
  BY <1>2, <1>3, <1>4, <1>5 DEF CardFits

(* The cards follow a command that is accepted.                            *)
LEMMA CardsFollow ==
  ASSUME NEW s, NEW F, Good(s, F), Old(F, s.sequence),
         NEW c, NEW events, Proper(s, c, events), events # <<>>, c.at \in Nat, s.time <= c.at,
         NEW t, t = After(s, events), \A ag \in Agents : AgentFits(t.agents[ag]),
         NEW cs, Told(cs, s)
  PROVE  Told(CardsAfter(cs, events), t) /\ CardsAfter(cs, events) = CardsFolded(cs, events)
<1>1. PICK next : next = CardsFolded(cs, events)
  OBVIOUS
<1>2. PICK n \in Nat : n = s.sequence
  BY DEF Good, States
<1>3. Old(F, n) /\ n <= s.sequence
  BY <1>2
<1>4. ASSUME NEW e, events = <<e>>, Legal(s, e), e.at = c.at
      PROVE  Told(next, t) /\ \A i \in DOMAIN events : Decodable(events[i])
  <2>1. events = <<e>> /\ Legal(s, e) /\ e.at = c.at
    BY <1>4
  <2>2. t = Evolve(s, e)
    BY <2>1, AfterOne
  <2>3. next = ApplyObserverEvent(cs, e)
    BY <1>1, <2>1, FoldedOne
  <2>4. s.time <= e.at
    BY <2>1
  <2>5. Told(next, t)
    BY <2>1, <2>2, <2>3, <2>4, EvolveTold
  <2>6. \A i \in DOMAIN events : Decodable(events[i])
    <3>1. Decodable(e)
      BY <2>1 DEF Legal
    <3>2. DOMAIN events = {1} /\ events[1] = e
      BY <2>1
    <3>3. QED
      BY <3>1, <3>2
  <2>7. QED
    BY <2>5, <2>6
<1>5. ASSUME NEW e, NEW f, events = <<e, f>>, Legal(s, e), e.at = c.at, Harmless(f), f.at = c.at
      PROVE  Told(next, t) /\ \A i \in DOMAIN events : Decodable(events[i])
  <2>1. events = <<e, f>> /\ Legal(s, e) /\ e.at = c.at /\ Harmless(f) /\ f.at = c.at
    BY <1>5
  <2>2. PICK u : u = Evolve(s, e)
    OBVIOUS
  <2>3. t = Evolve(u, f)
    BY <2>1, <2>2, AfterTwo
  <2>4. PICK ds : ds = ApplyObserverEvent(cs, e)
    OBVIOUS
  <2>5. next = ApplyObserverEvent(ds, f)
    BY <1>1, <2>1, <2>4, FoldedTwo
  <2>6. Good(u, F) /\ u.time = e.at
    BY <1>3, <2>1, <2>2, EvolveIsGood
  <2>7. Told(ds, u)
    <3>1. s.time <= e.at
      BY <2>1
    <3>2. QED
      BY <2>1, <2>2, <2>4, <3>1, EvolveTold
  <2>8. Told(next, t)
    <3>1. Legal(u, f)
      BY <2>1, HarmlessIsLegal
    <3>2. u.time <= f.at
      BY <2>1, <2>6
    <3>3. QED
      BY <2>3, <2>5, <2>6, <2>7, <3>1, <3>2, EvolveTold
  <2>9. \A i \in DOMAIN events : Decodable(events[i])
    <3>1. Decodable(e)
      BY <2>1 DEF Legal
    <3>2. Decodable(f)
      BY <2>1 DEF Harmless
    <3>3. DOMAIN events = {1, 2} /\ events[1] = e /\ events[2] = f
      BY <2>1
    <3>4. QED
      BY <3>1, <3>2, <3>3
  <2>10. QED
    BY <2>8, <2>9
<1>6. Told(next, t) /\ \A i \in DOMAIN events : Decodable(events[i])
  BY <1>4, <1>5 DEF Proper
<1>7. t \in States
  BY AcceptedIsGood DEF Good
<1>8. \A ag \in Agents : CardFits(next[ag])
  BY <1>6, <1>7, ToldFits
<1>9. CardsAfter(cs, events) = next
  BY <1>1, <1>6, <1>8 DEF CardsAfter, CardsFolded
<1>10. QED
  BY <1>1, <1>6, <1>9

-----------------------------------------------------------------------------
(* The cards are told with every step.                                     *)

(* The tables, the schedule and the cards are right together.              *)
ToldInv == WorldInv /\ Told(cards, Loaded)

(* genesisFromSnapshot.                                                    *)
LEMMA FirstCards == Init => Told(cards, Loaded)
<1> SUFFICES ASSUME Init PROVE Told(cards, Loaded)
  OBVIOUS
<1>1. PICK s : s = Loaded
  OBVIOUS
<1>2. s.agents = agents /\ s.items = Food
  BY <1>1, LoadedIs DEF Init
<1>3. cards = [ag \in Agents |-> GenesisCard(s, ag)]
  BY <1>1 DEF Init
<1>4. PICK place \in [Agents -> StartPlaces], caution \in [Agents -> Cautions] :
        agents = [ag \in Agents |-> Newborn(place[ag], caution[ag])]
  BY DEF Init
<1>5. ASSUME NEW ag \in Agents
      PROVE  /\ cards[ag] \in Card
             /\ Tells(cards[ag], s.agents[ag], Cardinality(FoodOf(s, ag)),
                      Of(s.schedule, ag), s.time)
  <2>1. PICK p \in Places : p = place[ag]
    BY <1>4, RunAssumption
  <2>2. s.agents[ag] = Newborn(p, caution[ag])
    BY <1>2, <1>4, <2>1
  <2>3. PICK a : a = s.agents[ag]
    OBVIOUS
  <2>4. a.place = p /\ a.status = "idle" /\ a.route = 0 /\ a.goal = "idle"
    BY <2>2, <2>3 DEF Newborn
  <2>5. PICK food : food = Cardinality(FoodOf(s, ag))
    OBVIOUS
  <2>6. food \in Nat
    <3>1. FoodOf(s, ag) \in SUBSET DOMAIN Food
      BY <1>2 DEF FoodOf
    <3>2. IsFiniteSet(FoodOf(s, ag))
      BY <3>1, RunAssumption, FS_Subset
    <3>3. QED
      BY <2>5, <3>2, FS_CardinalityType
  <2>7. PICK needs : needs = [n \in Needs |-> "normal"]
    OBVIOUS
  <2>8. needs \in [Needs -> NeedLevels]
    BY <2>7 DEF NeedLevels
  <2>9. PICK k : k = [status |-> "idle", place |-> p, route |-> 0, food |-> food,
                      goal |-> "idle", needs |-> needs]
    OBVIOUS
  <2>10. cards[ag] = k
    BY <1>3, <2>3, <2>4, <2>5, <2>7, <2>9 DEF GenesisCard
  <2>11. k \in Card
    BY <2>6, <2>8, <2>9 DEF Card, Statuses, GoalNames
  <2>12. Tells(k, a, food, Of(s.schedule, ag), s.time)
    BY <2>4, <2>9, <2>11 DEF Tells
  <2>13. QED
    BY <2>3, <2>5, <2>10, <2>11, <2>12
<1>6. cards \in [Agents -> Card]
  BY <1>3, <1>5
<1>7. QED
  BY <1>1, <1>5, <1>6 DEF Told

(* Steps of each sort keep it.                                             *)
LEMMA AdvancedTold ==
  ASSUME ToldInv, Advanced
  PROVE  Told(cards, Loaded)'
<1>1. PICK s : s = Loaded
  OBVIOUS
<1>2. PICK c, events :
        /\ Proper(s, c, events) /\ events # <<>>
        /\ c.at \in Nat /\ time <= c.at
        /\ Accept(s, After(s, events), events)
  BY <1>1 DEF Advanced
<1>3. PICK t : t = After(s, events)
  OBVIOUS
<1>4. Loaded' = t
  BY <1>1, <1>2, <1>3, AcceptedIsLoaded
<1>5. cards' = CardsAfter(cards, events)
  BY <1>2 DEF Accept
<1>6. \A ag \in Agents : AgentFits(t.agents[ag])
  BY <1>2, <1>3 DEF Accept, CanSave, Violates
<1>7. Good(s, Failed) /\ Old(Failed, s.sequence) /\ s.time <= c.at
  BY <1>1, <1>2, LoadedIs DEF ToldInv, WorldInv, Healthy
<1>8. Told(cards, s)
  BY <1>1 DEF ToldInv
<1>9. Told(CardsAfter(cards, events), t)
  BY <1>2, <1>3, <1>6, <1>7, <1>8, CardsFollow
<1>10. QED
  BY <1>4, <1>5, <1>9

LEMMA RefusedTold ==
  ASSUME ToldInv, Refused
  PROVE  Told(cards, Loaded)'
<1>1. PICK id \in DOMAIN rows :
        /\ Pending(id) /\ rows' = [rows EXCEPT ![id].outcome = "failed"]
        /\ UNCHANGED <<time, sequence, agents, items, replica, cards>>
  BY DEF Refused
<1>2. Loaded' = Loaded
  BY <1>1, RefusedIsLoaded DEF ToldInv
<1>3. QED
  BY <1>1, <1>2 DEF ToldInv

LEMMA StillTold ==
  ASSUME ToldInv, UNCHANGED tables
  PROVE  Told(cards, Loaded)'
<1>1. Loaded' = Loaded /\ cards' = cards
  BY DEF tables, Loaded
<1>2. QED
  BY <1>1 DEF ToldInv

LEMMA NextToldInv == ToldInv /\ [Next]_vars => ToldInv'
<1> SUFFICES ASSUME ToldInv, [Next]_vars PROVE ToldInv'
  OBVIOUS
<1>1. WorldInv'
  BY NextWorldInv DEF ToldInv
<1>2. CASE UNCHANGED vars
  <2>1. UNCHANGED tables
    BY <1>2 DEF vars, tables
  <2>2. QED
    BY <1>1, <2>1, StillTold DEF ToldInv
<1>3. CASE Announce
  <2>1. UNCHANGED tables
    BY <1>3 DEF Announce
  <2>2. QED
    BY <1>1, <2>1, StillTold DEF ToldInv
<1>4. CASE Claim
  <2>1. UNCHANGED tables
    BY <1>4 DEF Claim
  <2>2. QED
    BY <1>1, <2>1, StillTold DEF ToldInv
<1>5. CASE Serve
  <2>1. UNCHANGED tables \/ Advanced \/ Refused
    BY <1>5, ServeIs DEF ToldInv
  <2>2. QED
    BY <1>1, <2>1, StillTold, AdvancedTold, RefusedTold DEF ToldInv
<1>6. CASE \E ag \in Agents, r \in Routes : Order(ag, r)
  <2>1. Advanced
    BY <1>6, OrderIs DEF ToldInv
  <2>2. QED
    BY <1>1, <2>1, AdvancedTold DEF ToldInv
<1>7. QED
  BY <1>2, <1>3, <1>4, <1>5, <1>6 DEF Next

(* Once the moment is over nobody is about to decide.                      *)
LEMMA WhatIsTold ==
  ASSUME ToldInv
  PROVE  CardsTellTheWorld
<1> SUFFICES ASSUME NEW ag \in Agents
             PROVE  /\ cards[ag].status = agents[ag].status
                    /\ cards[ag].route = agents[ag].route
                    /\ cards[ag].place = IF agents[ag].status = "traveling" THEN Nowhere
                                         ELSE agents[ag].place
                    /\ cards[ag].food = Cardinality(FoodOf([items |-> items], ag))
                    /\ Due(time) = {} => cards[ag].goal = agents[ag].goal
  BY DEF CardsTellTheWorld
<1>1. PICK s : s = Loaded
  OBVIOUS
<1>2. s.agents = agents /\ s.items = items /\ s.time = time /\ s.schedule = Unfinished(rows)
  BY <1>1, LoadedIs
<1>3. Told(cards, s)
  BY <1>1 DEF ToldInv
<1>4. /\ cards[ag].status = agents[ag].status /\ cards[ag].route = agents[ag].route
      /\ cards[ag].place = IF agents[ag].status = "traveling" THEN Nowhere ELSE agents[ag].place
      /\ cards[ag].food = Cardinality(FoodOf(s, ag))
  BY <1>2, <1>3, ToldOf
<1>5. FoodOf(s, ag) = FoodOf([items |-> items], ag)
  BY <1>2 DEF FoodOf
<1>6. ASSUME Due(time) = {} PROVE cards[ag].goal = agents[ag].goal
  <2>1. cards[ag].goal = agents[ag].goal \/ Deciding(Of(s.schedule, ag), time)
    BY <1>2, <1>3 DEF Told, Tells
  <2>2. ~Deciding(Of(s.schedule, ag), time)
    <3> SUFFICES ASSUME NEW x \in Of(s.schedule, ag), x.kind = "agent.decide", x.due <= time
                 PROVE  FALSE
      BY DEF Deciding
    <3>1. PICK id \in DOMAIN rows : rows[id].outcome # "completed" /\ rows[id].action = x
      BY <1>2 DEF Of, Unfinished
    <3>2. rows[id].outcome # "failed"
      <4>1. \A y \in Failed : y.kind # "agent.decide"
        BY DEF ToldInv, WorldInv, Healthy, Old, Sure
      <4>2. QED
        BY <3>1, <4>1 DEF Failed
    <3>3. rows[id].outcome = "pending"
      BY <3>1, <3>2 DEF ToldInv, WorldInv, Healthy, RowsAreKnown
    <3>4. id \in Due(time)
      BY <3>1, <3>3 DEF Due, Pending
    <3>5. QED
      BY <1>6, <3>4
  <2>3. QED
    BY <2>1, <2>2
<1>7. QED
  BY <1>4, <1>5, <1>6

(* The card of an agent, folded by the observer without the rules of the   *)
(* world (applyObserverEvent), shows his status, place, road and food, and *)
(* once the moment is over his goal: every event can be decoded, every card*)
(* fits its table, and what the fold of a journey that ends leaves undone  *)
(* is done by a decision that evolve schedules for the same moment.        *)
THEOREM TheObserverIsToldTheTruth == Spec => []CardsTellTheWorld
<1>1. Init => ToldInv
  BY InitIInv, InitHealthy, FirstCards DEF ToldInv, WorldInv
<1>2. ToldInv => CardsTellTheWorld
  BY WhatIsTold
<1>3. QED
  BY <1>1, <1>2, NextToldInv, PTL DEF Spec

-----------------------------------------------------------------------------
(* What becomes of the needs. A crossing that evolve schedules is the only *)
(* announcement of a level: what the card says of a need, its baseline and *)
(* the crossing that is awaited belong together.                           *)

(* The crossings of a need that are on the schedule.                       *)
Awaited(s, ag, n) == {x \in Of(s.schedule, ag) : x.kind = "need.threshold" /\ x.need = n}

(* Event e answers a need of an agent, or announces a level of it.         *)
Renewed(e, ag, n) ==
  /\ ag = e.agent
  /\ (e.type = "agent.ate" /\ n = "hunger") \/ (e.type = "agent.rested" /\ n = "fatigue")
Announced(e, ag, n) ==
  ag = e.agent /\ e.type = "need.threshold.crossed" /\ n = e.payload.need

(* What becomes of the needs when e turns s into t.                        *)
NeedsFollow(s, e, t) ==
  \A ag \in Agents, n \in Needs :
    /\ t.agents[ag].baseline[n] =
         IF Renewed(e, ag, n) THEN e.at ELSE s.agents[ag].baseline[n]
    /\ Awaited(t, ag, n) =
         IF Announced(e, ag, n)
         THEN {Crossing(ag, n, due, Worse(e.payload.level)) : due \in e.payload.next}
         ELSE Awaited(s, ag, n)

(* A decision that is scheduled changes no need.                           *)
LEMMA WithDecisionNeeds ==
  ASSUME NEW u \in States, NEW e, NEW t, t = WithDecision(u, e)
  PROVE  t.agents = u.agents /\ \A ag, n : Awaited(t, ag, n) = Awaited(u, ag, n)
<1>1. CASE ~Free(u.agents[e.agent])
  <2>1. t = u
    BY <1>1 DEF WithDecision
  <2>2. QED
    BY <2>1
<1>2. CASE Free(u.agents[e.agent])
  <2>1. PICK x : x = Action("agent.decide", e.agent, e.at, u.sequence)
    OBVIOUS
  <2>2. x.kind # "need.threshold"
    BY <2>1 DEF Action
  <2>3. PICK Gone : Gone = {y \in Of(u.schedule, e.agent) : y.kind \in {"agent.decide"}}
    OBVIOUS
  <2>4. PICK Y : Y = (u.schedule \ Gone) \cup {x}
    OBVIOUS
  <2>5. t = [u EXCEPT !.schedule = Y]
    BY <1>2, <2>1, <2>3, <2>4 DEF WithDecision, Without
  <2>6. t.agents = u.agents /\ t.schedule = Y
    BY <2>5 DEF States
  <2>7. \A y \in Gone : y.kind # "need.threshold"
    BY <2>3
  <2>8. \A ag, n : Awaited(t, ag, n) = Awaited(u, ag, n)
    BY <2>2, <2>4, <2>6, <2>7 DEF Awaited, Of
  <2>9. QED
    BY <2>6, <2>8
<1>3. QED
  BY <1>1, <1>2

(* What agent a becomes as b by event e, and actions that are no news.     *)
Renews(e, g, a, b) ==
  \A n \in Needs : b.baseline[n] = IF Renewed(e, g, n) THEN e.at ELSE a.baseline[n]
NoNews(X) == \A x \in X : x.kind # "need.threshold"

(* An event that announces no level moves no crossing.                     *)
LEMMA NeedsByMove ==
  ASSUME NEW s \in States, NEW e, NEW g \in Agents, g = e.agent,
         e.type # "need.threshold.crossed", NEW a, a = s.agents[g],
         NEW b, Renews(e, g, a, b), NEW Gone, NoNews(Gone), NEW New, NoNews(New),
         NEW u \in States, u.agents = [s.agents EXCEPT ![g] = b],
         u.schedule = (s.schedule \ Gone) \cup New
  PROVE  NeedsFollow(s, e, u) /\ NeedsFollow(s, e, WithDecision(u, e))
<1>1. \A ag, n : Awaited(u, ag, n) = Awaited(s, ag, n)
  BY DEF Awaited, Of, NoNews
<1>2. ASSUME NEW ag \in Agents, NEW n \in Needs
      PROVE  u.agents[ag].baseline[n] =
               IF Renewed(e, ag, n) THEN e.at ELSE s.agents[ag].baseline[n]
  <2>1. CASE ag = g
    <3>1. u.agents[ag] = b
      BY <2>1 DEF States
    <3>2. QED
      BY <2>1, <3>1 DEF Renews
  <2>2. CASE ag # g
    <3>1. u.agents[ag] = s.agents[ag]
      BY <2>2 DEF States
    <3>2. ~Renewed(e, ag, n)
      BY <2>2 DEF Renewed
    <3>3. QED
      BY <3>1, <3>2
  <2>3. QED
    BY <2>1, <2>2
<1>3. \A ag, n : ~Announced(e, ag, n)
  BY DEF Announced
<1>4. NeedsFollow(s, e, u)
  BY <1>1, <1>2, <1>3 DEF NeedsFollow
<1>5. PICK t : t = WithDecision(u, e)
  OBVIOUS
<1>6. t.agents = u.agents /\ \A ag, n : Awaited(t, ag, n) = Awaited(u, ag, n)
  BY <1>5, WithDecisionNeeds
<1>7. NeedsFollow(s, e, t)
  BY <1>4, <1>6 DEF NeedsFollow
<1>8. QED
  BY <1>4, <1>5, <1>7

(* Who does not eat or get up keeps the baselines of his needs.            *)
LEMMA NeedsKept ==
  ASSUME NEW s \in States, NEW e, NEW g \in Agents, g = e.agent,
         e.type \notin {"need.threshold.crossed", "agent.ate", "agent.rested"},
         NEW b \in Stored, b.baseline = s.agents[g].baseline,
         NEW Gone, NoNews(Gone), NEW New \in SUBSET Planned, NoNews(New),
         NEW u, u = Moved(s, g, b, Gone, New)
  PROVE  NeedsFollow(s, e, u) /\ NeedsFollow(s, e, WithDecision(u, e))
<1>1. /\ u \in States /\ u.agents = [s.agents EXCEPT ![g] = b]
      /\ u.schedule = (s.schedule \ Gone) \cup New
  BY MovedIsState
<1>2. PICK a : a = s.agents[g]
  OBVIOUS
<1>3. Renews(e, g, a, b)
  BY <1>2 DEF Renews, Renewed
<1>4. e.type # "need.threshold.crossed"
  OBVIOUS
<1>5. QED
  BY ONLY <1>1, <1>2, <1>3, <1>4, s \in States, g = e.agent, g \in Agents,
          NoNews(Gone), NoNews(New), NeedsByMove

-----------------------------------------------------------------------------
(* What evolve makes of the needs, event by event.                         *)

LEMMA StartNeeds ==
  ASSUME NEW s \in States, NEW e, Decodable(e), e.type = "journey.started"
  PROVE  NeedsFollow(s, e, JourneyStarted(s, e))
<1>1. PICK g \in Agents : g = e.agent
  BY DecodedIs
<1>2. PICK r \in Routes : r = e.payload.route
  BY DecodedIs
<1>3. PICK a \in Stored : a = s.agents[g]
  BY DEF States
<1>4. PICK b : b = OffTo(a, r)
  OBVIOUS
<1>5. b \in Stored
  BY <1>4, OffToIsStored
<1>6. b.baseline = a.baseline
  BY <1>4 DEF OffTo, Stored
<1>7. PICK x : x = Arrival(g, e.payload.arrival, s.sequence, r)
  OBVIOUS
<1>8. x \in Planned /\ x.kind # "need.threshold"
  <2>1. e.payload.arrival \in Nat /\ s.sequence \in Nat
    BY DecodedIs DEF States
  <2>2. QED
    BY <1>7, <2>1, NewArrival
<1>9. PICK Gone : Gone = {y \in Of(s.schedule, g) : y.kind \in {"agent.travel"}}
  OBVIOUS
<1>10. PICK New : New = {x}
  OBVIOUS
<1>11. PICK t : t = Moved(s, g, b, Gone, New)
  OBVIOUS
<1>12. JourneyStarted(s, e) = t
  BY <1>1, <1>2, <1>3, <1>4, <1>7, <1>9, <1>10, <1>11, JourneyStartedIsMove
<1>13. /\ NoNews(Gone)
       /\ New \in SUBSET Planned /\ NoNews(New)
  BY <1>8, <1>9, <1>10 DEF NoNews
<1>14. NeedsFollow(s, e, t)
  BY <1>1, <1>3, <1>5, <1>6, <1>11, <1>13, NeedsKept
<1>15. QED
  BY <1>12, <1>14

LEMMA RestNeeds ==
  ASSUME NEW s \in States, NEW e, Decodable(e), e.type = "rest.started"
  PROVE  NeedsFollow(s, e, RestStarted(s, e))
<1>1. PICK g \in Agents : g = e.agent
  BY DecodedIs
<1>2. PICK a \in Stored : a = s.agents[g]
  BY DEF States
<1>3. PICK b : b = LyingDown(a)
  OBVIOUS
<1>4. b \in Stored
  BY <1>3, LyingDownIsStored
<1>5. b.baseline = a.baseline
  BY <1>3 DEF LyingDown, Stored
<1>6. PICK x : x = Action("rest.complete", g, e.payload.ending, s.sequence)
  OBVIOUS
<1>7. x \in Planned /\ x.kind # "need.threshold"
  <2>1. e.payload.ending \in Nat /\ s.sequence \in Nat
    BY DecodedIs DEF States
  <2>2. QED
    BY <1>6, <2>1, NewAction DEF Plain
<1>8. PICK Gone : Gone = {y \in Of(s.schedule, g) : y.kind \in {"agent.rest"}}
  OBVIOUS
<1>9. PICK New : New = {x}
  OBVIOUS
<1>10. PICK t : t = Moved(s, g, b, Gone, New)
  OBVIOUS
<1>11. RestStarted(s, e) = t
  BY <1>1, <1>2, <1>3, <1>6, <1>8, <1>9, <1>10, RestStartedIsMove
<1>12. /\ NoNews(Gone)
       /\ New \in SUBSET Planned /\ NoNews(New)
  BY <1>7, <1>8, <1>9 DEF NoNews
<1>13. NeedsFollow(s, e, t)
  BY <1>1, <1>2, <1>4, <1>5, <1>10, <1>12, NeedsKept
<1>14. QED
  BY <1>11, <1>13

LEMMA RiskNeeds ==
  ASSUME NEW s \in States, NEW e, Decodable(e), e.type = "risk.observed"
  PROVE  NeedsFollow(s, e, RiskObserved(s, e))
<1>1. PICK g \in Agents : g = e.agent
  BY DecodedIs
<1>2. PICK r \in Routes : r = e.payload.route
  BY DecodedIs
<1>3. PICK a \in Stored : a = s.agents[g]
  BY DEF States
<1>4. PICK b : b = Learning(a, r)
  OBVIOUS
<1>5. b \in Stored
  BY <1>4, LearningIsStored
<1>6. b.baseline = a.baseline
  BY <1>4 DEF Learning, Stored
<1>7. PICK None : None = {}
  OBVIOUS
<1>8. PICK t : t = Moved(s, g, b, None, None)
  OBVIOUS
<1>9. RiskObserved(s, e) = t
  BY <1>1, <1>2, <1>3, <1>4, <1>7, <1>8, RiskObservedIsMove
<1>10. None \in SUBSET Planned /\ NoNews(None)
  BY <1>7 DEF NoNews
<1>11. NeedsFollow(s, e, t)
  BY <1>1, <1>3, <1>5, <1>6, <1>8, <1>10, NeedsKept
<1>12. QED
  BY <1>9, <1>11

LEMMA ChoiceNeeds ==
  ASSUME NEW s \in States, NEW e, Decodable(e), e.type = "goal.chosen",
         e.payload.goal = "eat" => FoodOf(s, e.agent) # {}
  PROVE  NeedsFollow(s, e, GoalChosen(s, e))
<1>1. PICK g \in Agents : g = e.agent
  BY DecodedIs
<1>2. PICK goal \in GoalNames : goal = e.payload.goal
  BY DecodedIs
<1>3. PICK a \in Stored : a = s.agents[g]
  BY DEF States
<1>4. PICK plan \in Nat : plan = IF goal = "idle" THEN 0 ELSE s.sequence
  <2>1. s.sequence \in Nat
    BY DEF States
  <2>2. QED
    BY <2>1
<1>5. PICK b : b = Choosing(a, goal, plan)
  OBVIOUS
<1>6. b \in Stored
  <2>1. goal \in GoalNames /\ plan \in Nat /\ a \in Stored
    BY <1>2, <1>3, <1>4
  <2>2. QED
    BY ONLY <1>5, <2>1, ChoosingIsStored
<1>7. b.baseline = a.baseline
  BY <1>5 DEF Choosing, Stored
<1>8. PICK New : New = StepFor(s, e)
  OBVIOUS
<1>9. \A x \in New : x \in Planned /\ x.kind # "need.threshold"
  <2>1. e.at \in Nat
    BY DecodedIs
  <2>2. \A x \in New : x \in Planned /\ x.kind \in Steps
    BY <1>1, <1>2, <1>8, <2>1, StepIsNew
  <2>3. QED
    BY <2>2 DEF Steps
<1>10. PICK Gone : Gone = {y \in Of(s.schedule, g) : y.kind \in {"agent.decide"}}
  OBVIOUS
<1>11. PICK t : t = Moved(s, g, b, Gone, New)
  OBVIOUS
<1>12. GoalChosen(s, e) = t
  BY <1>1, <1>2, <1>3, <1>4, <1>5, <1>8, <1>10, <1>11, GoalChosenIsMove
<1>13. /\ NoNews(Gone)
       /\ New \in SUBSET Planned /\ NoNews(New)
  BY <1>9, <1>10 DEF NoNews
<1>14. NeedsFollow(s, e, t)
  BY <1>1, <1>3, <1>6, <1>7, <1>11, <1>13, NeedsKept
<1>15. QED
  BY <1>12, <1>14

LEMMA FailureNeeds ==
  ASSUME NEW s \in States, NEW e, Decodable(e), e.type = "plan.invalidated"
  PROVE  NeedsFollow(s, e, PlanInvalidated(s, e))
<1>1. PICK g \in Agents : g = e.agent
  BY DecodedIs
<1>2. PICK a \in Stored : a = s.agents[g]
  BY DEF States
<1>3. PICK b : b = GivingUp(a)
  OBVIOUS
<1>4. b \in Stored
  BY <1>3, GivingUpIsStored
<1>5. b.baseline = a.baseline
  BY <1>3 DEF GivingUp, Stored
<1>6. PICK Gone : Gone = {y \in Of(s.schedule, g) : y.kind \in OfPlan}
  OBVIOUS
<1>7. PICK None : None = {}
  OBVIOUS
<1>8. PICK u : u = Moved(s, g, b, Gone, None)
  OBVIOUS
<1>9. PlanInvalidated(s, e) = WithDecision(u, e)
  BY <1>1, <1>2, <1>3, <1>6, <1>7, <1>8, PlanInvalidatedIsMove
<1>10. /\ NoNews(Gone)
       /\ None \in SUBSET Planned /\ NoNews(None)
  BY <1>6, <1>7 DEF OfPlan, NoNews
<1>11. NeedsFollow(s, e, WithDecision(u, e))
  BY <1>1, <1>2, <1>4, <1>5, <1>8, <1>10, NeedsKept
<1>12. QED
  BY <1>9, <1>11

LEMMA ArrivalNeeds ==
  ASSUME NEW s, NEW F, Good(s, F), NEW e, Decodable(e), e.type = "journey.completed",
         NEW x \in s.schedule, x.kind = "journey.complete", x.agent = e.agent, e.caused = {Id(x)}
  PROVE  NeedsFollow(s, e, JourneyCompleted(s, e))
<1>1. PICK g \in Agents : g = e.agent
  BY DecodedIs
<1>2. PICK r \in Routes : r = e.payload.route
  BY DecodedIs
<1>3. s \in States
  BY DEF Good
<1>4. PICK a \in Stored : a = s.agents[g]
  BY <1>3 DEF States
<1>5. PICK place \in Places : place = RouteTo[r]
  BY RulesAssumption DEF ValidMap
<1>6. PICK b : b = Arrived(a, place)
  OBVIOUS
<1>7. b \in Stored
  BY <1>6, ArrivedIsStored
<1>8. b.baseline = a.baseline
  BY <1>6 DEF Arrived, Stored
<1>9. PICK Gone : Gone = {y \in s.schedule : Id(y) \in e.caused}
  OBVIOUS
<1>10. Gone = {x}
  BY <1>1, <1>9, OnlyOne DEF NamedByEvent
<1>11. PICK None : None = {}
  OBVIOUS
<1>12. PICK u : u = Moved(s, g, b, Gone, None)
  OBVIOUS
<1>13. JourneyCompleted(s, e) = WithDecision(u, e)
  BY <1>1, <1>2, <1>3, <1>4, <1>5, <1>6, <1>9, <1>11, <1>12, JourneyCompletedIsMove
<1>14. /\ NoNews(Gone)
       /\ None \in SUBSET Planned /\ NoNews(None)
  BY <1>10, <1>11 DEF NoNews
<1>15. NeedsFollow(s, e, WithDecision(u, e))
  BY <1>1, <1>3, <1>4, <1>7, <1>8, <1>12, <1>14, NeedsKept
<1>16. QED
  BY <1>13, <1>15

(* News of a need: what was awaited of it makes room for what comes next.  *)
LEMMA CrossingNeeds ==
  ASSUME NEW s \in States, NEW e, Decodable(e), e.type = "need.threshold.crossed"
  PROVE  NeedsFollow(s, e, NeedThresholdCrossed(s, e))
<1>1. PICK g \in Agents : g = e.agent
  BY DecodedIs
<1>2. PICK need \in Needs : need = e.payload.need
  BY DecodedIs
<1>3. PICK level \in NeedLevels : level = e.payload.level
  BY DecodedIs
<1>4. PICK dues \in SUBSET Nat : dues = e.payload.next
  BY DecodedIs
<1>5. PICK a \in Stored : a = s.agents[g]
  BY DEF States
<1>6. PICK Gone : Gone = {x \in Of(s.schedule, g) : x.kind = "need.threshold" /\ x.need = need}
  OBVIOUS
<1>7. PICK New : New = {Crossing(g, need, due, Worse(level)) : due \in dues}
  OBVIOUS
<1>8. New \in SUBSET Planned
  BY <1>7, NewCrossing DEF Worse
<1>9. \A x \in New : x.agent = g /\ x.kind = "need.threshold" /\ x.need = need
  BY <1>7 DEF Crossing, Action
<1>10. PICK u : u = Moved(s, g, a, Gone, New)
  OBVIOUS
<1>11. NeedThresholdCrossed(s, e) = WithDecision(u, e)
  BY <1>1, <1>2, <1>3, <1>4, <1>5, <1>6, <1>7, <1>10, NeedThresholdCrossedIsMove
<1>12. /\ u \in States /\ u.agents = [s.agents EXCEPT ![g] = a]
       /\ u.schedule = (s.schedule \ Gone) \cup New
  BY <1>8, <1>10, MovedIsState
<1>13. u.agents = s.agents
  BY <1>5, <1>12 DEF States
<1>14. ASSUME NEW ag \in Agents, NEW n \in Needs
       PROVE  Awaited(u, ag, n) = IF ag = g /\ n = need THEN New ELSE Awaited(s, ag, n)
  <2>1. CASE ag = g /\ n = need
    BY <1>6, <1>9, <1>12, <2>1 DEF Awaited, Of
  <2>2. CASE ~(ag = g /\ n = need)
    BY <1>6, <1>9, <1>12, <2>2 DEF Awaited, Of
  <2>3. QED
    BY <2>1, <2>2
<1>15. PICK t : t = WithDecision(u, e)
  OBVIOUS
<1>16. t.agents = u.agents /\ \A ag, n : Awaited(t, ag, n) = Awaited(u, ag, n)
  BY <1>12, <1>15, WithDecisionNeeds
<1>17. \A ag \in Agents, n \in Needs :
         /\ ~Renewed(e, ag, n)
         /\ Announced(e, ag, n) <=> ag = g /\ n = need
  BY <1>1, <1>2 DEF Renewed, Announced
<1>18. NeedsFollow(s, e, t)
  <2> SUFFICES ASSUME NEW ag \in Agents, NEW n \in Needs
               PROVE  /\ t.agents[ag].baseline[n] =
                           IF Renewed(e, ag, n) THEN e.at ELSE s.agents[ag].baseline[n]
                      /\ Awaited(t, ag, n) =
                           IF Announced(e, ag, n)
                           THEN {Crossing(ag, n, due, Worse(e.payload.level)) :
                                   due \in e.payload.next}
                           ELSE Awaited(s, ag, n)
    BY Zenon DEF NeedsFollow
  <2>1. t.agents[ag].baseline[n] = IF Renewed(e, ag, n) THEN e.at ELSE s.agents[ag].baseline[n]
    BY <1>13, <1>16, <1>17
  <2>2. Awaited(t, ag, n) = IF ag = g /\ n = need THEN New ELSE Awaited(s, ag, n)
    BY <1>14, <1>16
  <2>3. CASE ag = g /\ n = need
    <3>1. {Crossing(ag, n, due, Worse(e.payload.level)) : due \in e.payload.next} = New
      BY <1>3, <1>4, <1>7, <2>3
    <3>2. QED
      BY <1>17, <2>1, <2>2, <2>3, <3>1
  <2>4. CASE ~(ag = g /\ n = need)
    BY <1>17, <2>1, <2>2, <2>4
  <2>5. QED
    BY <2>3, <2>4
<1>19. QED
  BY <1>11, <1>15, <1>18

(* Who gets up is as rested as anybody can be.                             *)
LEMMA WakingNeeds ==
  ASSUME NEW s, NEW F, Good(s, F), NEW e, Decodable(e), e.type = "agent.rested",
         NEW x \in s.schedule, x.kind = "rest.complete", x.agent = e.agent, e.caused = {Id(x)}
  PROVE  NeedsFollow(s, e, AgentRested(s, e))
<1>1. PICK g \in Agents : g = e.agent
  BY DecodedIs
<1>2. s \in States
  BY DEF Good
<1>3. PICK a \in Stored : a = s.agents[g]
  BY <1>2 DEF States
<1>4. PICK at \in Nat : at = e.at
  BY DecodedIs
<1>5. PICK b : b = Risen(a, at)
  OBVIOUS
<1>6. b \in Stored
  BY <1>5, RisenIsStored
<1>7. Renews(e, g, a, b)
  <2>1. b.baseline = [a.baseline EXCEPT !.fatigue = at]
    BY <1>5 DEF Risen, RisenWith, Stored
  <2>2. \A n \in Needs : b.baseline[n] = IF n = "fatigue" THEN at ELSE a.baseline[n]
    BY <2>1 DEF Stored, Needs
  <2>3. \A n \in Needs : Renewed(e, g, n) <=> n = "fatigue"
    BY <1>1 DEF Renewed
  <2>4. QED
    BY <1>4, <2>2, <2>3 DEF Renews
<1>8. PICK Gone : Gone = {y \in s.schedule : Id(y) \in e.caused}
  OBVIOUS
<1>9. Gone = {x}
  BY <1>1, <1>8, OnlyOne DEF NamedByEvent
<1>10. PICK None : None = {}
  OBVIOUS
<1>11. PICK u : u = Moved(s, g, b, Gone, None)
  OBVIOUS
<1>12. AgentRested(s, e) = WithDecision(u, e)
  BY <1>1, <1>2, <1>3, <1>4, <1>5, <1>8, <1>10, <1>11, AgentRestedIsMove
<1>13. /\ u \in States /\ u.agents = [s.agents EXCEPT ![g] = b]
       /\ u.schedule = (s.schedule \ Gone) \cup None
  BY <1>2, <1>6, <1>10, <1>11, MovedIsState
<1>14. NoNews(Gone) /\ NoNews(None) /\ e.type # "need.threshold.crossed"
  BY <1>9, <1>10 DEF NoNews
<1>15. NeedsFollow(s, e, WithDecision(u, e))
  BY ONLY <1>1, <1>2, <1>3, <1>7, <1>13, <1>14, NeedsByMove
<1>16. QED
  BY <1>12, <1>15

(* Who eats is not hungry any more.                                        *)
LEMMA MealNeeds ==
  ASSUME NEW s \in States, NEW e, Decodable(e), e.type = "agent.ate"
  PROVE  NeedsFollow(s, e, AgentAte(s, e))
<1>1. PICK g \in Agents : g = e.agent
  BY DecodedIs
<1>2. PICK a \in Stored : a = s.agents[g]
  BY DEF States
<1>3. PICK at \in Nat : at = e.at
  BY DecodedIs
<1>4. PICK b : b = Fed(a, at)
  OBVIOUS
<1>5. b \in Stored
  BY <1>4, FedIsStored
<1>6. Renews(e, g, a, b)
  <2>1. b.baseline = [a.baseline EXCEPT !.hunger = at]
    BY <1>4 DEF Fed, FedWith, Stored
  <2>2. \A n \in Needs : b.baseline[n] = IF n = "hunger" THEN at ELSE a.baseline[n]
    BY <2>1 DEF Stored, Needs
  <2>3. \A n \in Needs : Renewed(e, g, n) <=> n = "hunger"
    BY <1>1 DEF Renewed
  <2>4. QED
    BY <1>3, <2>2, <2>3 DEF Renews
<1>7. PICK Gone : Gone = {x \in Of(s.schedule, g) : x.kind = "agent.eat" /\ x.item = e.payload.item}
  OBVIOUS
<1>8. PICK None : None = {}
  OBVIOUS
<1>9. PICK m : m = Moved(s, g, b, Gone, None)
  OBVIOUS
<1>10. /\ m \in States /\ m.agents = [s.agents EXCEPT ![g] = b]
       /\ m.schedule = (s.schedule \ Gone) \cup None
  BY <1>5, <1>8, <1>9, MovedIsState
<1>11. PICK f : f = Eaten(s.items, e.payload.item)
  OBVIOUS
<1>12. f \in ItemMaps
  BY <1>11, EatenIsMap DEF States
<1>13. PICK u : u = Keeping(m, f)
  OBVIOUS
<1>14. /\ u \in States /\ u.agents = [s.agents EXCEPT ![g] = b]
       /\ u.schedule = (s.schedule \ Gone) \cup None
  BY <1>10, <1>12, <1>13 DEF Keeping, States
<1>15. AgentAte(s, e) = WithDecision(u, e)
  BY <1>1, <1>2, <1>3, <1>4, <1>7, <1>8, <1>9, <1>11, <1>13, AgentAteIsMove
<1>16. NoNews(Gone) /\ NoNews(None) /\ e.type # "need.threshold.crossed"
  BY <1>7, <1>8 DEF NoNews
<1>17. NeedsFollow(s, e, WithDecision(u, e))
  BY ONLY <1>1, <1>2, <1>6, <1>14, <1>16, s \in States, NeedsByMove
<1>18. QED
  BY <1>15, <1>17

(* A legal event does to the needs what follows from its type.             *)
LEMMA EvolveNeeds ==
  ASSUME NEW s0, NEW F, Good(s0, F), NEW e, Legal(s0, e), NEW t, t = Evolve(s0, e)
  PROVE  NeedsFollow(s0, e, t)
<1>1. Decodable(e) /\ e.at \in Nat
  <2>1. Decodable(e)
    BY DEF Legal
  <2>2. QED
    BY <2>1, DecodedIs
<1>2. PICK s : s = Stamp(s0, e.at)
  OBVIOUS
<1>3. Good(s, F) /\ s.agents = s0.agents /\ s.schedule = s0.schedule /\ s.items = s0.items
  BY <1>1, <1>2, StampIsGood
<1>4. s \in States
  BY <1>3 DEF Good
<1>5. \A ag : FoodOf(s, ag) = FoodOf(s0, ag)
  BY <1>3 DEF FoodOf
<1>6. NeedsFollow(s, e, t)
  <2>1. CASE e.type = "journey.started"
    BY <1>1, <1>2, <1>4, <2>1, EvolveIs, StartNeeds
  <2>2. CASE e.type = "journey.completed"
    <3>1. PICK x \in s.schedule :
            x.kind = "journey.complete" /\ x.agent = e.agent /\ e.caused = {Id(x)}
      BY <1>3, <2>2 DEF Legal
    <3>2. NeedsFollow(s, e, JourneyCompleted(s, e))
      BY <1>1, <1>3, <2>2, <3>1, ArrivalNeeds
    <3>3. QED
      BY <1>2, <2>2, <3>2, EvolveIs
  <2>3. CASE e.type = "need.threshold.crossed"
    BY <1>1, <1>2, <1>4, <2>3, EvolveIs, CrossingNeeds
  <2>4. CASE e.type = "agent.ate"
    BY <1>1, <1>2, <1>4, <2>4, EvolveIs, MealNeeds
  <2>5. CASE e.type = "rest.started"
    BY <1>1, <1>2, <1>4, <2>5, EvolveIs, RestNeeds
  <2>6. CASE e.type = "agent.rested"
    <3>1. PICK x \in s.schedule :
            x.kind = "rest.complete" /\ x.agent = e.agent /\ e.caused = {Id(x)}
      BY <1>3, <2>6 DEF Legal
    <3>2. NeedsFollow(s, e, AgentRested(s, e))
      BY <1>1, <1>3, <2>6, <3>1, WakingNeeds
    <3>3. QED
      BY <1>2, <2>6, <3>2, EvolveIs
  <2>7. CASE e.type = "goal.chosen"
    <3>1. e.payload.goal = "eat" => FoodOf(s, e.agent) # {}
      BY <1>5, <2>7 DEF Legal
    <3>2. NeedsFollow(s, e, GoalChosen(s, e))
      BY <1>1, <1>4, <2>7, <3>1, ChoiceNeeds
    <3>3. QED
      BY <1>2, <2>7, <3>2, EvolveIs
  <2>8. CASE e.type = "plan.invalidated"
    BY <1>1, <1>2, <1>4, <2>8, EvolveIs, FailureNeeds
  <2>9. CASE e.type = "risk.observed"
    BY <1>1, <1>2, <1>4, <2>9, EvolveIs, RiskNeeds
  <2>10. QED
    BY <2>1, <2>2, <2>3, <2>4, <2>5, <2>6, <2>7, <2>8, <2>9 DEF Legal
<1>7. \A ag, n : Awaited(s, ag, n) = Awaited(s0, ag, n)
  BY <1>3 DEF Awaited
<1>8. QED
  BY <1>3, <1>6, <1>7 DEF NeedsFollow

(* The card of an agent is told of a need by its news only.                *)
LEMMA CardNeeds ==
  ASSUME NEW s, NEW card \in Card, NEW e, Legal(s, e), NEW k, k = Folded(card, e)
  PROVE  k.needs = IF e.type = "need.threshold.crossed"
                   THEN [card.needs EXCEPT ![e.payload.need] = e.payload.level]
                   ELSE card.needs
<1>1. CASE e.type = "need.threshold.crossed"
  <2>1. k = [card EXCEPT !.needs = [card.needs EXCEPT ![e.payload.need] = e.payload.level]]
    BY <1>1 DEF Folded
  <2>2. QED
    BY <1>1, <2>1 DEF Card
<1>2. CASE e.type \in {"journey.started", "journey.completed", "plan.invalidated"}
  BY <1>2 DEF Folded, GivenUp, Card
<1>3. CASE e.type \in {"rest.started", "agent.ate", "agent.rested", "goal.chosen", "risk.observed"}
  <2>1. k = Attended(card, e)
    BY <1>3, FoldedOther
  <2>2. QED
    BY <1>3, <2>1 DEF Attended, Card
<1>4. QED
  BY <1>1, <1>2, <1>3 DEF Legal

LEMMA FoldedNeeds ==
  ASSUME NEW s, NEW cs \in [Agents -> Card], NEW e, Legal(s, e),
         NEW ds, ds = ApplyObserverEvent(cs, e), NEW ag \in Agents, NEW n \in Needs
  PROVE  ds[ag].needs[n] = IF Announced(e, ag, n) THEN e.payload.level ELSE cs[ag].needs[n]
<1>1. PICK g \in Agents : g = e.agent
  BY DecodedIs DEF Legal
<1>2. PICK k : k = Folded(cs[g], e)
  OBVIOUS
<1>3. ds = [cs EXCEPT ![g] = k]
  BY <1>1, <1>2 DEF ApplyObserverEvent
<1>4. CASE ag # g
  BY <1>1, <1>3, <1>4 DEF Announced
<1>5. CASE ag = g
  <2>1. PICK card \in Card : card = cs[g]
    BY <1>1
  <2>2. ds[ag] = k
    BY ONLY <1>3, <1>5, ag \in Agents, cs \in [Agents -> Card]
  <2>3. k = Folded(card, e)
    BY <1>2, <2>1
  <2>4. k.needs = IF e.type = "need.threshold.crossed"
                  THEN [card.needs EXCEPT ![e.payload.need] = e.payload.level]
                  ELSE card.needs
    BY ONLY <2>3, Legal(s, e), card \in Card, CardNeeds
  <2>5. CASE e.type # "need.threshold.crossed"
    <3>1. k.needs = card.needs
      BY <2>4, <2>5
    <3>2. QED
      BY <1>5, <2>1, <2>2, <2>5, <3>1 DEF Announced
  <2>6. CASE e.type = "need.threshold.crossed"
    <3>1. k.needs = [card.needs EXCEPT ![e.payload.need] = e.payload.level]
      BY <2>4, <2>6
    <3>2. card.needs \in [Needs -> NeedLevels]
      BY <2>1 DEF Card
    <3>3. k.needs[n] = IF n = e.payload.need THEN e.payload.level ELSE card.needs[n]
      BY <3>1, <3>2
    <3>4. QED
      BY <1>1, <1>5, <2>1, <2>2, <2>6, <3>3 DEF Announced
  <2>7. QED
    BY <2>5, <2>6
<1>6. QED
  BY <1>4, <1>5

-----------------------------------------------------------------------------
(* A need of an agent: L was last announced of it, it grows from B, and C  *)
(* is awaited. The level announced has been reached, and unless it is the  *)
(* worst, one crossing is awaited, no later than the next is reached.      *)
Feels(n, L, B, C, at) ==
  /\ B <= at
  /\ L # "normal" => Reached(n, B, at, L)
  /\ L = "critical" => C = {}
  /\ L # "critical" => \E x : C = {x} /\ \E due \in NextCrossing(n, B, L) : x.due <= due

LEMMA NeedsHaveRates == DOMAIN Full = Needs
  BY RulesAssumption DEF ValidNeeds

(* It is felt as long as nothing is done about it.                         *)
LEMMA FeltOn ==
  ASSUME NEW n \in Needs, NEW L \in NeedLevels, NEW B \in Nat, NEW C,
         NEW at \in Nat, NEW later \in Nat, at <= later, Feels(n, L, B, C, at)
  PROVE  Feels(n, L, B, C, later)
<1>1. B <= later
  BY DEF Feels
<1>2. ASSUME L # "normal" PROVE Reached(n, B, later, L)
  <2>1. PICK much : much = ReachedAt[L] * Full[n]
    OBVIOUS
  <2>2. much \in Nat
    BY <1>2, <2>1, NeedsHaveRates, Thresholds DEF NeedLevels
  <2>3. at > B /\ (at - B) * 1000 >= much
    BY <1>2, <2>1 DEF Feels, Reached
  <2>4. later > B /\ (later - B) * 1000 >= much
    BY <2>2, <2>3
  <2>5. QED
    BY <2>1, <2>4 DEF Reached
<1>3. QED
  BY <1>1, <1>2 DEF Feels

(* Nothing is announced of a need that is answered while it is not felt.   *)
LEMMA FeltNot ==
  ASSUME NEW n \in Needs, NEW L \in NeedLevels, NEW B \in Nat, NEW C \in SUBSET Planned,
         NEW at \in Nat, Feels(n, L, B, C, at), Level(n, B, at) = "normal"
  PROVE  Feels(n, L, at, C, at)
<1>1. ~Reached(n, B, at, "warning") /\ ~Reached(n, B, at, "critical")
  BY DEF Level
<1>2. L = "normal"
  BY <1>1 DEF Feels, NeedLevels
<1>3. PICK x : C = {x} /\ \E due \in NextCrossing(n, B, L) : x.due <= due
  BY <1>2 DEF Feels
<1>4. PICK due \in NextCrossing(n, B, L) : x.due <= due
  BY <1>3
<1>5. PICK wait \in Int : wait = CeilDiv(ReachedAt["warning"] * Full[n], 1000)
  BY NeedsHaveRates, Thresholds, LeastEnough
<1>6. due = B + wait /\ NextCrossing(n, at, L) = {at + wait}
  BY <1>2, <1>4, <1>5 DEF NextCrossing, Worse
<1>7. B <= at
  BY DEF Feels
<1>8. x.due \in Nat
  BY <1>3 DEF Planned
<1>9. x.due <= at + wait
  BY <1>4, <1>5, <1>6, <1>7, <1>8
<1>10. QED
  BY <1>2, <1>3, <1>6, <1>9 DEF Feels

(* What is announced of a need is felt, and the next crossing is awaited.  *)
LEMMA FeltNews ==
  ASSUME NEW ag \in Agents, NEW n \in Needs, NEW L \in NeedLevels, NEW B \in Nat,
         NEW at \in Nat, B <= at, L # "normal" => Reached(n, B, at, L),
         NEW C, C = {Crossing(ag, n, due, Worse(L)) : due \in NextCrossing(n, B, L)}
  PROVE  Feels(n, L, B, C, at)
<1>1. CASE L = "critical"
  <2>1. NextCrossing(n, B, L) = {}
    BY <1>1 DEF NextCrossing
  <2>2. C = {}
    BY <2>1
  <2>3. QED
    BY <1>1, <2>2 DEF Feels
<1>2. CASE L # "critical"
  <2>1. PICK due : due = B + CeilDiv(ReachedAt[Worse(L)] * Full[n], 1000)
    OBVIOUS
  <2>2. NextCrossing(n, B, L) = {due}
    BY <1>2, <2>1 DEF NextCrossing
  <2>3. PICK x : x = Crossing(ag, n, due, Worse(L))
    OBVIOUS
  <2>4. C = {x}
    BY <2>2, <2>3
  <2>5. x.due = due
    BY <2>3 DEF Crossing, Action
  <2>6. due \in Int
    <3>1. ReachedAt[Worse(L)] * Full[n] \in Nat
      BY NeedsHaveRates, Thresholds DEF Worse
    <3>2. QED
      BY <2>1, <3>1, LeastEnough
  <2>7. x.due <= due
    BY <2>5, <2>6
  <2>8. QED
    BY <1>2, <2>2, <2>4, <2>7 DEF Feels
<1>3. QED
  BY <1>1, <1>2

FeltBy(cs, s, ag, n) ==
  Feels(n, cs[ag].needs[n], s.agents[ag].baseline[n], Awaited(s, ag, n), s.time)

(* The cards, the baselines and the crossings on the schedule agree.       *)
NeedsTold(cs, s) == \A ag \in Agents, n \in Needs : FeltBy(cs, s, ag, n)

(* News of a need that grows from B: the level has been reached, and what  *)
(* comes next is known.                                                    *)
True(e, B) ==
  LET n == e.payload.need L == e.payload.level
  IN (L # "normal" => Reached(n, B, e.at, L)) /\ e.payload.next = NextCrossing(n, B, L)

(* What an event leaves of a need of an agent.                             *)
LEMMA FeltAfter ==
  ASSUME NEW s, NEW F, Good(s, F), NEW e, Legal(s, e), s.time <= e.at,
         NEW t, t = Evolve(s, e), t.time = e.at,
         NEW cs \in [Agents -> Card], NEW ds, ds = ApplyObserverEvent(cs, e),
         NEW ag \in Agents, NEW n \in Needs,
         \/ ~Renewed(e, ag, n) /\ ~Announced(e, ag, n) /\ FeltBy(cs, s, ag, n)
         \/ /\ Renewed(e, ag, n) /\ FeltBy(cs, s, ag, n)
            /\ Level(n, s.agents[ag].baseline[n], e.at) = "normal"
         \/ /\ Announced(e, ag, n) /\ s.agents[ag].baseline[n] <= e.at
            /\ True(e, s.agents[ag].baseline[n])
  PROVE  FeltBy(ds, t, ag, n)
<1>1. s \in States
  BY DEF Good
<1>2. PICK at \in Nat : at = e.at
  BY DecodedIs DEF Legal
<1>3. PICK B \in Nat : B = s.agents[ag].baseline[n]
  BY <1>1 DEF States, Stored
<1>4. PICK L \in NeedLevels : L = cs[ag].needs[n]
  BY DEF Card
<1>5. PICK C \in SUBSET Planned : C = Awaited(s, ag, n)
  BY <1>1 DEF Awaited, Of, States
<1>6. PICK now0 \in Nat : now0 = s.time
  BY <1>1 DEF States
<1>7. now0 <= at
  BY <1>2, <1>6
<1>8. /\ t.agents[ag].baseline[n] = IF Renewed(e, ag, n) THEN at ELSE B
      /\ Awaited(t, ag, n) = IF Announced(e, ag, n)
           THEN {Crossing(ag, n, due, Worse(e.payload.level)) : due \in e.payload.next} ELSE C
  <2>1. NeedsFollow(s, e, t)
    BY EvolveNeeds
  <2>2. QED
    BY <1>2, <1>3, <1>5, <2>1 DEF NeedsFollow
<1>9. ds[ag].needs[n] = IF Announced(e, ag, n) THEN e.payload.level ELSE L
  BY <1>4, FoldedNeeds
<1>10. ~(Renewed(e, ag, n) /\ Announced(e, ag, n))
  BY DEF Renewed, Announced
<1>11. FeltBy(cs, s, ag, n) => Feels(n, L, B, C, at)
  BY <1>3, <1>4, <1>5, <1>6, <1>7, FeltOn DEF FeltBy
<1>12. CASE ~Renewed(e, ag, n) /\ ~Announced(e, ag, n) /\ FeltBy(cs, s, ag, n)
  BY <1>2, <1>8, <1>9, <1>11, <1>12 DEF FeltBy
<1>13. CASE /\ Renewed(e, ag, n) /\ FeltBy(cs, s, ag, n)
            /\ Level(n, s.agents[ag].baseline[n], e.at) = "normal"
  <2>1. Feels(n, L, B, C, at) /\ Level(n, B, at) = "normal"
    BY <1>2, <1>3, <1>11, <1>13
  <2>2. Feels(n, L, at, C, at)
    BY <2>1, FeltNot
  <2>3. QED
    BY <1>2, <1>8, <1>9, <1>10, <1>13, <2>2 DEF FeltBy
<1>14. CASE /\ Announced(e, ag, n) /\ s.agents[ag].baseline[n] <= e.at
            /\ True(e, s.agents[ag].baseline[n])
  <2>1. e.payload.need = n /\ e.type = "need.threshold.crossed"
    BY <1>14 DEF Announced
  <2>2. PICK l \in NeedLevels : l = e.payload.level
    BY <2>1, DecodedIs DEF Legal
  <2>3. (l # "normal" => Reached(n, B, at, l)) /\ e.payload.next = NextCrossing(n, B, l)
    BY <1>2, <1>3, <1>14, <2>1, <2>2 DEF True
  <2>4. PICK D : D = {Crossing(ag, n, due, Worse(l)) : due \in NextCrossing(n, B, l)}
    OBVIOUS
  <2>5. B <= at
    BY <1>2, <1>3, <1>14
  <2>6. Feels(n, l, B, D, at)
    BY <2>3, <2>4, <2>5, FeltNews
  <2>7. Awaited(t, ag, n) = D
    BY <1>8, <1>14, <2>2, <2>3, <2>4
  <2>8. t.agents[ag].baseline[n] = B /\ ds[ag].needs[n] = l
    BY <1>8, <1>9, <1>10, <1>14, <2>2
  <2>9. QED
    BY <1>2, <2>6, <2>7, <2>8 DEF FeltBy
<1>15. QED
  BY <1>12, <1>13, <1>14

-----------------------------------------------------------------------------
(* What decide says of needs.                                              *)
Quiet(e) == e.type \notin {"need.threshold.crossed", "agent.ate", "agent.rested"}

(* An event that says what is true of the needs.                           *)
Heard(s, e) ==
  \/ Quiet(e)
  \/ e.type = "need.threshold.crossed" /\ True(e, s.agents[e.agent].baseline[e.payload.need])
  \/ /\ e.type \in {"agent.ate", "agent.rested"}
     /\ \A n \in Needs : Renewed(e, e.agent, n) =>
          Level(n, s.agents[e.agent].baseline[n], e.at) = "normal"

(* News that the need which e answers is over.                             *)
Relief(e, f) ==
  /\ f.type = "need.threshold.crossed" /\ f.agent = e.agent
  /\ Renewed(e, e.agent, f.payload.need) /\ True(f, e.at)

Heeding(s, events) ==
  \/ \E e : events = <<e>> /\ Heard(s, e)
  \/ \E e, f : events = <<e, f>> /\ Heard(s, e) /\ Quiet(f)
  \/ \E e, f : events = <<e, f>> /\ Relief(e, f)

LEMMA HeardTold ==
  ASSUME NEW s, NEW F, Good(s, F), NEW e, Legal(s, e), Heard(s, e), s.time <= e.at,
         NEW t, t = Evolve(s, e), t.time = e.at,
         NEW cs \in [Agents -> Card], NEW ds, ds = ApplyObserverEvent(cs, e), NeedsTold(cs, s)
  PROVE  NeedsTold(ds, t)
<1> SUFFICES ASSUME NEW ag \in Agents, NEW n \in Needs PROVE FeltBy(ds, t, ag, n)
  BY DEF NeedsTold
<1>1. FeltBy(cs, s, ag, n)
  BY DEF NeedsTold
<1>2. PICK B : B = s.agents[ag].baseline[n]
  OBVIOUS
<1>3. B <= e.at
  <2>1. B \in Nat /\ s.time \in Nat /\ e.at \in Nat
    <3>1. s \in States
      BY DEF Good
    <3>2. e.at \in Nat
      BY DecodedIs DEF Legal
    <3>3. QED
      BY <1>2, <3>1, <3>2 DEF States, Stored
  <2>2. B <= s.time
    BY <1>1, <1>2 DEF FeltBy, Feels
  <2>3. QED
    BY <2>1, <2>2
<1>4. CASE ~Renewed(e, ag, n) /\ ~Announced(e, ag, n)
  BY <1>1, <1>4, FeltAfter
<1>5. CASE Renewed(e, ag, n)
  <2>1. ag = e.agent /\ e.type \in {"agent.ate", "agent.rested"}
    BY <1>5 DEF Renewed
  <2>2. Level(n, B, e.at) = "normal"
    BY <1>2, <1>5, <2>1 DEF Heard, Quiet
  <2>3. QED
    BY <1>1, <1>2, <1>5, <2>2, FeltAfter
<1>6. CASE Announced(e, ag, n)
  <2>1. ag = e.agent /\ e.type = "need.threshold.crossed" /\ n = e.payload.need
    BY <1>6 DEF Announced
  <2>2. True(e, B)
    BY <1>2, <2>1 DEF Heard, Quiet
  <2>3. QED
    BY <1>2, <1>3, <1>6, <2>2, FeltAfter
<1>7. QED
  BY <1>4, <1>5, <1>6

LEMMA ReliefTold ==
  ASSUME NEW s, NEW F, Good(s, F), NEW e, Legal(s, e), s.time <= e.at,
         NEW u, u = Evolve(s, e), u.time = e.at, Good(u, F),
         NEW f, Legal(u, f), f.at = e.at, Relief(e, f),
         NEW t, t = Evolve(u, f), t.time = f.at,
         NEW cs \in [Agents -> Card], NEW ds \in [Agents -> Card], ds = ApplyObserverEvent(cs, e),
         NEW ks, ks = ApplyObserverEvent(ds, f), NeedsTold(cs, s)
  PROVE  NeedsTold(ks, t)
<1> SUFFICES ASSUME NEW ag \in Agents, NEW n \in Needs PROVE FeltBy(ks, t, ag, n)
  BY DEF NeedsTold
<1>1. FeltBy(cs, s, ag, n)
  BY DEF NeedsTold
<1>2. e.type \in {"agent.ate", "agent.rested"} /\ f.type = "need.threshold.crossed"
  BY DEF Relief, Renewed
<1>3. Announced(f, ag, n) <=> Renewed(e, ag, n)
  BY <1>2 DEF Relief, Renewed, Announced
<1>4. e.at \in Nat
  BY DecodedIs DEF Legal
<1>5. u.time <= f.at
  BY <1>4
<1>6. CASE Announced(f, ag, n)
  <2>1. NeedsFollow(s, e, u)
    BY EvolveNeeds
  <2>2. u.agents[ag].baseline[n] = e.at
    BY <1>3, <1>6, <2>1 DEF NeedsFollow
  <2>3. PICK B : B = u.agents[ag].baseline[n]
    OBVIOUS
  <2>4. True(f, B) /\ B <= f.at
    BY <1>4, <2>2, <2>3 DEF Relief
  <2>5. QED
    BY <1>5, <1>6, <2>3, <2>4, FeltAfter
<1>7. CASE ~Announced(f, ag, n)
  <2>1. ~Renewed(e, ag, n) /\ ~Announced(e, ag, n)
    BY <1>2, <1>3, <1>7 DEF Announced
  <2>2. FeltBy(ds, u, ag, n)
    BY <1>1, <2>1, FeltAfter
  <2>3. ~Renewed(f, ag, n)
    BY <1>2 DEF Renewed
  <2>4. QED
    BY <1>5, <1>7, <2>2, <2>3, FeltAfter
<1>8. QED
  BY <1>6, <1>7

(* The needs follow a command that is accepted.                            *)
LEMMA NeedsHeard ==
  ASSUME NEW s, NEW F, Good(s, F), Old(F, s.sequence),
         NEW c, NEW events, Proper(s, c, events), Heeding(s, events), c.at \in Nat, s.time <= c.at,
         NEW t, t = After(s, events), NEW cs, Told(cs, s), NeedsTold(cs, s),
         NEW next, next = CardsFolded(cs, events)
  PROVE  NeedsTold(next, t)
<1>1. cs \in [Agents -> Card]
  BY DEF Told
<1>2. PICK n \in Nat : n = s.sequence
  BY DEF Good, States
<1>3. Old(F, n) /\ n <= s.sequence
  BY <1>2
<1>4. ASSUME NEW e, events = <<e>> PROVE Legal(s, e) /\ e.at = c.at
  BY <1>4 DEF Proper
<1>5. ASSUME NEW e, NEW f, events = <<e, f>>
      PROVE  Legal(s, e) /\ e.at = c.at /\ Harmless(f) /\ f.at = c.at
  BY <1>5 DEF Proper
<1>6. ASSUME NEW e, Legal(s, e), e.at = c.at, NEW u, u = Evolve(s, e),
             NEW ds, ds = ApplyObserverEvent(cs, e)
      PROVE  Good(u, F) /\ u.time = e.at /\ Told(ds, u) /\ ds \in [Agents -> Card]
  <2>1. Good(u, F) /\ u.time = e.at
    BY <1>3, <1>6, EvolveIsGood
  <2>2. s.time <= e.at
    BY <1>6
  <2>3. Told(ds, u)
    BY <1>6, <2>2, EvolveTold
  <2>4. QED
    BY <2>1, <2>3 DEF Told
<1>7. ASSUME NEW e, events = <<e>>, Heard(s, e) PROVE NeedsTold(next, t)
  <2>1. t = Evolve(s, e)
    BY <1>7, AfterOne
  <2>2. next = ApplyObserverEvent(cs, e)
    BY <1>7, FoldedOne
  <2>3. Legal(s, e) /\ e.at = c.at
    BY <1>4, <1>7
  <2>4. t.time = e.at
    BY <1>6, <2>1, <2>2, <2>3
  <2>5. s.time <= e.at
    BY <2>3
  <2>6. QED
    BY <1>1, <1>7, <2>1, <2>2, <2>3, <2>4, <2>5, HeardTold
<1>8. ASSUME NEW e, NEW f, events = <<e, f>>, (Heard(s, e) /\ Quiet(f)) \/ Relief(e, f)
      PROVE  NeedsTold(next, t)
  <2>1. Legal(s, e) /\ e.at = c.at /\ Harmless(f) /\ f.at = c.at
    BY <1>5, <1>8
  <2>2. PICK u : u = Evolve(s, e)
    OBVIOUS
  <2>3. PICK ds : ds = ApplyObserverEvent(cs, e)
    OBVIOUS
  <2>4. t = Evolve(u, f)
    BY <1>8, <2>2, AfterTwo
  <2>5. next = ApplyObserverEvent(ds, f)
    BY <1>8, <2>3, FoldedTwo
  <2>6. Good(u, F) /\ u.time = e.at /\ ds \in [Agents -> Card]
    BY <1>6, <2>1, <2>2, <2>3
  <2>7. Legal(u, f)
    BY <2>1, HarmlessIsLegal
  <2>8. s.time <= e.at /\ u.time <= f.at /\ f.at = e.at
    BY <2>1, <2>6
  <2>9. t.time = f.at
    <3>1. u.sequence = s.sequence + 1
      BY <1>3, <2>1, <2>2, EvolveIsGood
    <3>2. n <= u.sequence
      BY <1>2, <3>1
    <3>3. QED
      BY <1>3, <2>4, <2>6, <2>7, <3>2, EvolveIsGood
  <2>10. CASE Heard(s, e) /\ Quiet(f)
    <3>1. NeedsTold(ds, u)
      BY <1>1, <2>1, <2>2, <2>3, <2>6, <2>8, <2>10, HeardTold
    <3>2. Heard(u, f)
      BY <2>10 DEF Heard
    <3>3. QED
      BY <2>4, <2>5, <2>6, <2>7, <2>8, <2>9, <3>1, <3>2, HeardTold
  <2>11. CASE Relief(e, f)
    BY <1>1, <2>1, <2>2, <2>3, <2>4, <2>5, <2>6, <2>7, <2>8, <2>9, <2>11, ReliefTold
  <2>12. QED
    BY <1>8, <2>10, <2>11
<1>9. QED
  BY <1>7, <1>8 DEF Heeding

-----------------------------------------------------------------------------
(* What decide says of needs is heeded.                                    *)

LEMMA HeedingFirst ==
  ASSUME NEW s, NEW e, NEW more,
         \/ more = <<>> /\ Heard(s, e)
         \/ \E f : more = <<f>> /\ ((Heard(s, e) /\ Quiet(f)) \/ Relief(e, f))
  PROVE  Heeding(s, <<e>> \o more)
<1>1. CASE more = <<>> /\ Heard(s, e)
  <2>1. <<e>> \o more = <<e>>
    BY <1>1
  <2>2. QED
    BY <1>1, <2>1 DEF Heeding
<1>2. ASSUME NEW f, more = <<f>>, (Heard(s, e) /\ Quiet(f)) \/ Relief(e, f)
      PROVE  Heeding(s, <<e>> \o more)
  <2>1. <<e>> \o more = <<e, f>>
    <3>1. <<e>> \o <<f>> = <<e, f>>
      BY PairIs
    <3>2. QED
      BY <1>2, <3>1
  <2>2. Heeding(s, <<e, f>>)
    BY <1>2, Zenon DEF Heeding
  <2>3. QED
    BY <2>1, <2>2
<1>3. QED
  BY <1>1, <1>2

LEMMA QuietIsHeeding ==
  ASSUME NEW s, NEW e, Quiet(e)
  PROVE  Heeding(s, <<e>>)
<1>1. Heard(s, e)
  BY DEF Heard
<1>2. QED
  BY <1>1, Zenon DEF Heeding

LEMMA FailureIsQuiet ==
  ASSUME NEW agent, NEW c, NEW precondition, NEW events,
         events = PlanFailure(agent, c, precondition), events # <<>>
  PROVE  \E e : events = <<e>> /\ Quiet(e)
<1>1. PICK e : e = Event("plan.invalidated", c,
                         [plan |-> agent.plan, precondition |-> precondition])
  OBVIOUS
<1>2. events = <<e>>
  BY <1>1, Zenon DEF PlanFailure
<1>3. Quiet(e)
  BY <1>1, EventIs DEF Quiet
<1>4. QED
  BY <1>2, <1>3

LEMMA FailureIsHeeding ==
  ASSUME NEW s, NEW agent, NEW c, NEW precondition, NEW events,
         events = PlanFailure(agent, c, precondition), events # <<>>
  PROVE  Heeding(s, events)
<1>1. PICK e : events = <<e>> /\ Quiet(e)
  BY FailureIsQuiet
<1>2. QED
  BY <1>1, QuietIsHeeding

(* News says the level that has been reached, and what comes after it.     *)
LEMMA NewsIsTrue ==
  ASSUME NEW c, NEW need, NEW from, NEW level, NEW baseline,
         level # "normal" => Reached(need, baseline, c.at, level),
         NEW e, e = Crossed(c, need, from, level, baseline)
  PROVE  /\ e.type = "need.threshold.crossed" /\ e.agent = c.agent /\ e.at = c.at
         /\ e.payload.need = need /\ True(e, baseline)
<1>1. PICK next : next = NextCrossing(need, baseline, level)
  OBVIOUS
<1>2. PICK p : p = [need |-> need, from |-> from, level |-> level, next |-> next]
  OBVIOUS
<1>3. e = Event("need.threshold.crossed", c, p)
  BY <1>1, <1>2 DEF Crossed
<1>4. e.type = "need.threshold.crossed" /\ e.agent = c.agent /\ e.at = c.at /\ e.payload = p
  BY <1>3, EventIs
<1>5. p.need = need /\ p.level = level /\ p.next = next
  BY <1>2
<1>6. QED
  BY <1>1, <1>4, <1>5 DEF True

LEMMA LevelIsReached ==
  ASSUME NEW need, NEW baseline, NEW at, NEW level, level = Level(need, baseline, at),
         level # "normal"
  PROVE  Reached(need, baseline, at, level)
  BY DEF Level

(* Who has answered a need says so, if it was felt.                        *)
LEMMA RecoveredIsRelief ==
  ASSUME NEW s, NEW c, NEW need \in Needs, NEW e, e.agent = c.agent, e.at = c.at,
         e.type \in {"agent.ate", "agent.rested"},
         \A n \in Needs : Renewed(e, e.agent, n) <=> n = need,
         NEW more, more = Recovered(s.agents[c.agent], c, need)
  PROVE  Heeding(s, <<e>> \o more)
<1>1. PICK level : level = Level(need, s.agents[c.agent].baseline[need], c.at)
  OBVIOUS
<1>2. CASE level = "normal"
  <2>1. more = <<>>
    BY <1>1, <1>2, Zenon DEF Recovered
  <2>2. Heard(s, e)
    BY <1>1, <1>2 DEF Heard
  <2>3. QED
    BY <2>1, <2>2, HeedingFirst
<1>3. CASE level # "normal"
  <2>1. PICK f : f = Crossed(c, need, level, "normal", c.at)
    OBVIOUS
  <2>2. more = <<f>>
    BY <1>1, <1>3, <2>1, Zenon DEF Recovered
  <2>3. /\ f.type = "need.threshold.crossed" /\ f.agent = c.agent
        /\ f.payload.need = need /\ True(f, c.at)
    BY <2>1, NewsIsTrue
  <2>4. Relief(e, f)
    BY <2>3 DEF Relief
  <2>5. QED
    BY <2>2, <2>4, HeedingFirst
<1>4. QED
  BY <1>2, <1>3

LEMMA StartIsQuiet ==
  ASSUME NEW c, NEW r PROVE Quiet(Started(c, r))
  BY EventIs DEF Started, Quiet

(* Each command that is not rejected.                                      *)
LEMMA DecideHeeds ==
  ASSUME NEW s, NEW c, Known(c), NEW events, events = Decide(s, c), events # <<>>
  PROVE  Heeding(s, events)
<1>1. PICK agent : agent = s.agents[c.agent]
  OBVIOUS
<1>2. CASE c.kind = "journey.start"
  <2>1. events = DecideJourneyStart(s, c)
    BY <1>2, DecideIs
  <2>2. PICK e : e = Started(c, c.route)
    OBVIOUS
  <2>3. events = <<e>>
    BY <2>1, <2>2, Zenon DEF DecideJourneyStart
  <2>4. QED
    BY <2>2, <2>3, StartIsQuiet, QuietIsHeeding
<1>3. CASE c.kind = "journey.complete"
  <2>1. events = DecideJourneyComplete(s, c)
    BY <1>3, DecideIs
  <2>2. PICK e : e = Event("journey.completed", c, [route |-> c.route])
    OBVIOUS
  <2>3. PICK f : f = Event("risk.observed", c, [route |-> c.route, risk |-> RouteRisk[c.route]])
    OBVIOUS
  <2>4. PICK more : more = IF c.route \in agent.known THEN <<>> ELSE <<f>>
    OBVIOUS
  <2>5. events = <<e>> \o more
    BY <1>1, <2>1, <2>2, <2>3, <2>4, Zenon DEF DecideJourneyComplete
  <2>6. Heard(s, e) /\ Quiet(f)
    BY <2>2, <2>3, EventIs DEF Heard, Quiet
  <2>7. more = <<>> \/ more = <<f>>
    BY <2>4
  <2>8. QED
    BY <2>5, <2>6, <2>7, HeedingFirst
<1>4. CASE c.kind = "need.threshold"
  <2>1. events = DecideNeedThresholdCross(s, c)
    BY <1>4, DecideIs
  <2>2. PICK baseline : baseline = agent.baseline[c.need]
    OBVIOUS
  <2>3. Level(c.need, baseline, c.at) = c.level /\ c.level # "normal"
    BY <1>1, <2>1, <2>2, Zenon DEF DecideNeedThresholdCross
  <2>4. PICK e : e = Crossed(c, c.need, Better(c.level), c.level, baseline)
    OBVIOUS
  <2>5. PICK more : more = EmergencyInterrupt(agent, c)
    OBVIOUS
  <2>6. events = <<e>> \o more
    BY <1>1, <2>1, <2>2, <2>3, <2>4, <2>5, Zenon DEF DecideNeedThresholdCross
  <2>7. Reached(c.need, baseline, c.at, c.level)
    BY <2>3, LevelIsReached
  <2>8. /\ e.type = "need.threshold.crossed" /\ e.agent = c.agent
        /\ e.payload.need = c.need /\ True(e, baseline)
    BY <2>4, <2>7, NewsIsTrue
  <2>9. Heard(s, e)
    BY <1>1, <2>2, <2>8 DEF Heard
  <2>10. more = <<>> \/ \E f : more = <<f>> /\ Quiet(f)
    <3>1. more = <<>> \/ more = PlanFailure(agent, c, "agent.not_in_emergency")
      BY <2>5 DEF EmergencyInterrupt
    <3>2. QED
      BY <3>1, FailureIsQuiet
  <2>11. QED
    BY <2>6, <2>9, <2>10, HeedingFirst
<1>5. CASE c.kind = "agent.eat"
  <2>1. events = DecideAgentEat(s, c)
    BY <1>5, DecideIs
  <2>2. CASE c.item \notin FoodOf(s, c.agent)
    <3>1. events = PlanFailure(agent, c, "item.available_to_actor")
      BY <1>1, <2>1, <2>2, Zenon DEF DecideAgentEat
    <3>2. QED
      BY <3>1, FailureIsHeeding
  <2>3. CASE ~(c.item \notin FoodOf(s, c.agent))
    <3>1. PICK e : e = Event("agent.ate", c, [item |-> c.item])
      OBVIOUS
    <3>2. PICK more : more = Recovered(agent, c, "hunger")
      OBVIOUS
    <3>3. events = <<e>> \o more
      BY <1>1, <2>1, <2>3, <3>1, <3>2, Zenon DEF DecideAgentEat
    <3>4. e.type = "agent.ate" /\ e.agent = c.agent /\ e.at = c.at
      BY <3>1, EventIs
    <3>5. \A n \in Needs : Renewed(e, e.agent, n) <=> n = "hunger"
      BY <3>4 DEF Renewed
    <3>6. "hunger" \in Needs
      BY DEF Needs
    <3>7. QED
      BY <1>1, <3>2, <3>3, <3>4, <3>5, <3>6, RecoveredIsRelief
  <2>4. QED
    BY <2>2, <2>3
<1>6. CASE c.kind = "agent.rest"
  <2>1. events = DecideAgentRest(s, c)
    BY <1>6, DecideIs
  <2>2. CASE agent.status # "idle"
    <3>1. events = PlanFailure(agent, c, "agent.is_idle")
      BY <1>1, <2>1, <2>2, Zenon DEF DecideAgentRest
    <3>2. QED
      BY <3>1, FailureIsHeeding
  <2>3. CASE agent.status = "idle"
    <3>1. PICK e : e = Event("rest.started", c, [ending |-> c.at + RestMinutes])
      OBVIOUS
    <3>2. events = <<e>>
      BY <1>1, <2>1, <2>3, <3>1, Zenon DEF DecideAgentRest
    <3>3. Quiet(e)
      BY <3>1, EventIs DEF Quiet
    <3>4. QED
      BY <3>2, <3>3, QuietIsHeeding
  <2>4. QED
    BY <2>2, <2>3
<1>7. CASE c.kind = "rest.complete"
  <2>1. events = DecideRestComplete(s, c)
    BY <1>7, DecideIs
  <2>2. PICK e : e = Event("agent.rested", c, <<>>)
    OBVIOUS
  <2>3. PICK more : more = Recovered(agent, c, "fatigue")
    OBVIOUS
  <2>4. events = <<e>> \o more
    BY <1>1, <2>1, <2>2, <2>3, Zenon DEF DecideRestComplete
  <2>5. e.type = "agent.rested" /\ e.agent = c.agent /\ e.at = c.at
    BY <2>2, EventIs
  <2>6. \A n \in Needs : Renewed(e, e.agent, n) <=> n = "fatigue"
    BY <2>5 DEF Renewed
  <2>7. "fatigue" \in Needs
    BY DEF Needs
  <2>8. QED
    BY <1>1, <2>3, <2>4, <2>5, <2>6, <2>7, RecoveredIsRelief
<1>8. CASE c.kind = "agent.decide"
  <2>1. events = DecideAgentDecide(s, c)
    BY <1>8, DecideIs
  <2>2. PICK e : events = <<e>> /\ e.type = "goal.chosen"
    BY <2>1, EventIs DEF DecideAgentDecide
  <2>3. QED
    BY <2>2, QuietIsHeeding DEF Quiet
<1>9. CASE c.kind = "agent.travel"
  <2>1. events = DecideAgentTravel(s, c)
    BY <1>9, DecideIs
  <2>2. CASE agent.status # "idle"
    <3>1. events = PlanFailure(agent, c, "agent.is_idle")
      BY <1>1, <2>1, <2>2, Zenon DEF DecideAgentTravel
    <3>2. QED
      BY <3>1, FailureIsHeeding
  <2>3. CASE agent.status = "idle" /\ Options(agent) = {}
    <3>1. events = PlanFailure(agent, c, "route.available_from_location")
      BY <1>1, <2>1, <2>3, Zenon DEF DecideAgentTravel
    <3>2. QED
      BY <3>1, FailureIsHeeding
  <2>4. CASE agent.status = "idle" /\ Options(agent) # {}
    <3>1. PICK e : e = Started(c, ChooseRoute(agent))
      OBVIOUS
    <3>2. events = <<e>>
      BY <1>1, <2>1, <2>4, <3>1, Zenon DEF DecideAgentTravel
    <3>3. QED
      BY <3>1, <3>2, StartIsQuiet, QuietIsHeeding
  <2>5. QED
    BY <2>2, <2>3, <2>4
<1>10. QED
  BY <1>2, <1>3, <1>4, <1>5, <1>6, <1>7, <1>8, <1>9 DEF Known, KindNames

-----------------------------------------------------------------------------
(* A world begins with the crossings of its needs, and keeps them.         *)

(* The first crossings, and nothing else, are awaited when a world begins. *)
LEMMA FirstCrossingIs ==
  ASSUME NEW ag \in Agents, NEW n \in Needs, NEW due, NEW x, x = Crossing(ag, n, due, "warning")
  PROVE  /\ x.kind = "need.threshold" /\ x.agent = ag /\ x.need = n /\ x.due = due
         /\ Id(x) = <<"need.threshold", ag, n, due>>
<1>1. x.kind = "need.threshold" /\ x.agent = ag /\ x.need = n /\ x.due = due
  BY DEF Crossing, Action
<1>2. QED
  BY <1>1 DEF Id

LEMMA FirstScheduleIs ==
  ASSUME NEW x
  PROVE  x \in InitialSchedule <=>
           \E ag \in Agents, n \in Needs : \E due \in NextCrossing(n, 0, "normal") :
             x = Crossing(ag, n, due, "warning")
<1>1. ASSUME x \in InitialSchedule
      PROVE  \E ag \in Agents, n \in Needs : \E due \in NextCrossing(n, 0, "normal") :
               x = Crossing(ag, n, due, "warning")
  <2>1. PICK ag \in Agents, n \in Needs,
             due \in UNION {NextCrossing(m, 0, "normal") : m \in Needs} :
          x = Crossing(ag, n, due, "warning")
    BY <1>1 DEF InitialSchedule, FirstCrossings
  <2>2. x.need = n /\ x.due = due
    BY <2>1, FirstCrossingIs
  <2>3. x.due \in NextCrossing(x.need, 0, "normal")
    BY <1>1 DEF InitialSchedule
  <2>4. due \in NextCrossing(n, 0, "normal")
    BY <2>2, <2>3
  <2>5. QED
    BY <2>1, <2>4
<1>2. ASSUME NEW ag \in Agents, NEW n \in Needs, NEW due \in NextCrossing(n, 0, "normal"),
             x = Crossing(ag, n, due, "warning")
      PROVE  x \in InitialSchedule
  <2>1. x.need = n /\ x.due = due
    BY <1>2, FirstCrossingIs
  <2>2. x \in FirstCrossings
    BY <1>2 DEF FirstCrossings
  <2>3. QED
    BY <1>2, <2>1, <2>2 DEF InitialSchedule
<1>3. QED
  BY <1>1, <1>2

LEMMA FirstUnfinished == Init => Unfinished(rows) = InitialSchedule
<1> SUFFICES ASSUME Init PROVE Unfinished(rows) = InitialSchedule
  OBVIOUS
<1>1. rows = Enrolled
  BY DEF Init
<1>2. DOMAIN Enrolled = {Id(x) : x \in InitialSchedule}
  BY DEF Enrolled
<1>3. ASSUME NEW x \in InitialSchedule, NEW y \in InitialSchedule, Id(y) = Id(x) PROVE y = x
  <2>1. PICK ag \in Agents, n \in Needs : \E due \in NextCrossing(n, 0, "normal") :
          x = Crossing(ag, n, due, "warning")
    BY <1>3, FirstScheduleIs
  <2>2. PICK due : x = Crossing(ag, n, due, "warning")
    BY <2>1
  <2>3. PICK bg \in Agents, m \in Needs : \E then \in NextCrossing(m, 0, "normal") :
          y = Crossing(bg, m, then, "warning")
    BY <1>3, FirstScheduleIs
  <2>4. PICK then : y = Crossing(bg, m, then, "warning")
    BY <2>3
  <2>5. Id(x) = <<"need.threshold", ag, n, due>> /\ Id(y) = <<"need.threshold", bg, m, then>>
    BY <2>2, <2>4, FirstCrossingIs
  <2>6. bg = ag /\ m = n /\ then = due
    BY <1>3, <2>5
  <2>7. QED
    BY <2>2, <2>4, <2>6
<1>4. ASSUME NEW x \in InitialSchedule
      PROVE  Enrolled[Id(x)] = [action |-> x, outcome |-> "pending"]
  <2>1. PICK y : y = CHOOSE z \in InitialSchedule : Id(z) = Id(x)
    OBVIOUS
  <2>2. y \in InitialSchedule /\ Id(y) = Id(x)
    BY <2>1
  <2>3. y = x
    BY <1>3, <2>2
  <2>4. QED
    BY <1>2, <2>1, <2>3 DEF Enrolled
<1>5. ASSUME NEW x \in InitialSchedule PROVE x \in Unfinished(rows)
  <2>1. Id(x) \in DOMAIN rows
    BY <1>1, <1>2
  <2>2. PICK id : id = Id(x)
    OBVIOUS
  <2>3. rows[id] = [action |-> x, outcome |-> "pending"]
    BY <1>1, <1>4, <2>2
  <2>4. rows[id].action = x /\ rows[id].outcome # "completed"
    BY <2>3
  <2>5. QED
    BY <2>1, <2>2, <2>4 DEF Unfinished
<1>6. ASSUME NEW x \in Unfinished(rows) PROVE x \in InitialSchedule
  <2>1. PICK id \in DOMAIN rows : x = rows[id].action
    BY DEF Unfinished
  <2>2. PICK y \in InitialSchedule : id = Id(y)
    BY <1>1, <1>2
  <2>3. Enrolled[Id(y)] = [action |-> y, outcome |-> "pending"]
    BY <1>4
  <2>4. rows[id] = Enrolled[Id(y)]
    BY ONLY <1>1, <2>2
  <2>5. rows[id].action = y
    BY <2>3, <2>4
  <2>6. QED
    BY <2>1, <2>2, <2>5
<1>7. QED
  <2>1. \A x : x \in Unfinished(rows) <=> x \in InitialSchedule
    BY <1>5, <1>6
  <2>2. PICK X : X = Unfinished(rows)
    OBVIOUS
  <2>3. PICK Y : Y = InitialSchedule
    OBVIOUS
  <2>4. X = Y
    BY <2>1, <2>2, <2>3
  <2>5. QED
    BY <2>2, <2>3, <2>4

LEMMA FirstAwaited ==
  ASSUME Init, NEW ag \in Agents, NEW n \in Needs
  PROVE  Awaited(Loaded, ag, n) =
           {Crossing(ag, n, due, "warning") : due \in NextCrossing(n, 0, "normal")}
<1>1. PICK C : C = Awaited(Loaded, ag, n)
  OBVIOUS
<1>2. Loaded.schedule = InitialSchedule
  BY FirstUnfinished, LoadedIs
<1>3. \A x : x \in C <=> x \in InitialSchedule /\ x.agent = ag
                         /\ x.kind = "need.threshold" /\ x.need = n
  BY <1>1, <1>2 DEF Awaited, Of
<1>4. ASSUME NEW x \in C
      PROVE  \E due \in NextCrossing(n, 0, "normal") : x = Crossing(ag, n, due, "warning")
  <2>1. x \in InitialSchedule /\ x.agent = ag /\ x.need = n
    BY <1>3
  <2>2. PICK bg \in Agents, m \in Needs : \E due \in NextCrossing(m, 0, "normal") :
          x = Crossing(bg, m, due, "warning")
    BY <2>1, FirstScheduleIs
  <2>3. x.agent = bg /\ x.need = m
    BY <2>2, FirstCrossingIs
  <2>4. QED
    BY <2>1, <2>2, <2>3
<1>5. ASSUME NEW due \in NextCrossing(n, 0, "normal") PROVE Crossing(ag, n, due, "warning") \in C
  <2>1. PICK x : x = Crossing(ag, n, due, "warning")
    OBVIOUS
  <2>2. x \in InitialSchedule
    BY <2>1, FirstScheduleIs
  <2>3. x.agent = ag /\ x.kind = "need.threshold" /\ x.need = n
    BY <2>1, FirstCrossingIs
  <2>4. QED
    BY <1>3, <2>1, <2>2, <2>3
<1>6. QED
  BY <1>1, <1>4, <1>5

LEMMA FirstNeeds == Init => NeedsTold(cards, Loaded)
<1> SUFFICES ASSUME Init PROVE NeedsTold(cards, Loaded)
  OBVIOUS
<1> SUFFICES ASSUME NEW ag \in Agents, NEW n \in Needs PROVE FeltBy(cards, Loaded, ag, n)
  BY DEF NeedsTold
<1>1. PICK C : C = Awaited(Loaded, ag, n)
  OBVIOUS
<1>2. PICK place \in [Agents -> StartPlaces], caution \in [Agents -> Cautions] :
        agents = [g \in Agents |-> Newborn(place[g], caution[g])]
  BY DEF Init
<1>3. Loaded.agents = agents /\ Loaded.time = 0
  BY LoadedIs DEF Init
<1>4. Loaded.agents[ag].baseline[n] = 0
  BY <1>2, <1>3 DEF Newborn, Needs
<1>5. cards[ag].needs[n] = "normal"
  BY DEF Init, GenesisCard
<1>6. PICK L \in NeedLevels : L = "normal"
  BY DEF NeedLevels
<1>7. PICK zero \in Nat : zero = 0
  OBVIOUS
<1>8. C = {Crossing(ag, n, due, Worse(L)) : due \in NextCrossing(n, zero, L)}
  BY <1>1, <1>6, <1>7, FirstAwaited DEF Worse
<1>9. Feels(n, L, zero, C, zero)
  BY <1>6, <1>7, <1>8, FeltNews
<1>10. QED
  BY <1>1, <1>3, <1>4, <1>5, <1>6, <1>7, <1>9 DEF FeltBy

-----------------------------------------------------------------------------
(* Every step keeps what is known of the needs, unless one is refused.     *)
NeedsInv == ToldInv /\ (NothingFails => NeedsTold(cards, Loaded))

LEMMA AdvancedNeeds ==
  ASSUME NeedsInv, Advanced, NothingFails'
  PROVE  NeedsTold(cards, Loaded)'
<1>1. PICK s : s = Loaded
  OBVIOUS
<1>2. PICK c, events :
        /\ Proper(s, c, events) /\ events # <<>>
        /\ Known(c) /\ events = Decide(s, c)
        /\ c.at \in Nat /\ time <= c.at
        /\ Accept(s, After(s, events), events)
  BY <1>1 DEF Advanced
<1>3. PICK t : t = After(s, events)
  OBVIOUS
<1>4. Loaded' = t
  BY <1>1, <1>2, <1>3, AcceptedIsLoaded
<1>5. cards' = CardsAfter(cards, events)
  BY <1>2 DEF Accept
<1>6. \A ag \in Agents : AgentFits(t.agents[ag])
  BY <1>2, <1>3 DEF Accept, CanSave, Violates
<1>7. Good(s, Failed) /\ Old(Failed, s.sequence) /\ s.time <= c.at
  BY <1>1, <1>2, LoadedIs DEF NeedsInv, ToldInv, WorldInv, Healthy
<1>8. Told(cards, s)
  BY <1>1 DEF NeedsInv, ToldInv
<1>9. CardsAfter(cards, events) = CardsFolded(cards, events)
  BY <1>2, <1>3, <1>6, <1>7, <1>8, CardsFollow
<1>10. NothingFails
  <2>1. WorldInv
    BY DEF NeedsInv, ToldInv
  <2>2. ASSUME NEW id \in DOMAIN rows PROVE rows[id].outcome # "failed"
    <3>1. Accept(Loaded, t, events)
      BY <1>1, <1>2, <1>3
    <3>2. id \in DOMAIN rows' /\ (rows'[id].outcome = "failed" <=> rows[id].outcome = "failed")
      BY <2>1, <3>1, RowsStay
    <3>3. QED
      BY <3>2 DEF NothingFails
  <2>3. QED
    BY <2>2 DEF NothingFails
<1>11. NeedsTold(cards, s)
  BY <1>1, <1>10 DEF NeedsInv
<1>12. Heeding(s, events)
  BY <1>2, DecideHeeds
<1>13. PICK next : next = CardsFolded(cards, events)
  OBVIOUS
<1>14. NeedsTold(next, t)
  BY <1>2, <1>3, <1>7, <1>8, <1>11, <1>12, <1>13, NeedsHeard
<1>15. cards' = next
  BY <1>5, <1>9, <1>13
<1>16. QED
  BY <1>4, <1>14, <1>15

LEMMA RefusedFails ==
  ASSUME NeedsInv, Refused
  PROVE  ~NothingFails'
<1>1. PICK id \in DOMAIN rows :
        /\ Pending(id) /\ rows' = [rows EXCEPT ![id].outcome = "failed"]
        /\ UNCHANGED <<time, sequence, agents, items, replica, cards>>
  BY DEF Refused
<1>2. WorldInv
  BY DEF NeedsInv, ToldInv
<1>3. PICK x : x = rows[id].action
  OBVIOUS
<1>4. rows'[id] = [action |-> x, outcome |-> "failed"] /\ DOMAIN rows' = DOMAIN rows
  BY <1>1, <1>2, <1>3, RefusedIsLoaded
<1>5. id \in DOMAIN rows' /\ rows'[id].outcome = "failed"
  BY <1>4
<1>6. QED
  BY <1>5 DEF NothingFails

LEMMA StillNeeds ==
  ASSUME NeedsInv, UNCHANGED tables, NothingFails'
  PROVE  NeedsTold(cards, Loaded)'
<1>1. Loaded' = Loaded /\ cards' = cards /\ rows' = rows
  BY DEF tables, Loaded
<1>2. NothingFails
  BY <1>1 DEF NothingFails
<1>3. QED
  BY <1>1, <1>2 DEF NeedsInv

LEMMA NextNeedsInv == NeedsInv /\ [Next]_vars => NeedsInv'
<1> SUFFICES ASSUME NeedsInv, [Next]_vars PROVE NeedsInv'
  OBVIOUS
<1>1. ToldInv'
  BY NextToldInv DEF NeedsInv
<1>2. UNCHANGED tables \/ Advanced \/ Refused
  <2>1. WorldInv
    BY DEF NeedsInv, ToldInv
  <2>2. CASE UNCHANGED vars \/ Announce \/ Claim
    BY <2>2 DEF vars, tables, Announce, Claim
  <2>3. CASE Serve
    BY <2>1, <2>3, ServeIs
  <2>4. CASE \E ag \in Agents, r \in Routes : Order(ag, r)
    BY <2>1, <2>4, OrderIs
  <2>5. QED
    BY <2>2, <2>3, <2>4 DEF Next
<1>3. ASSUME NothingFails' PROVE NeedsTold(cards, Loaded)'
  BY <1>2, <1>3, StillNeeds, AdvancedNeeds, RefusedFails
<1>4. QED
  BY <1>1, <1>3 DEF NeedsInv

-----------------------------------------------------------------------------
(* What is felt of a need is its level, unless a crossing of it is due.    *)
LEMMA CriticalIsWarning ==
  ASSUME NEW n \in Needs, NEW B \in Nat, NEW at \in Nat, Reached(n, B, at, "critical")
  PROVE  Reached(n, B, at, "warning")
<1>1. PICK much : much = ReachedAt["warning"] * Full[n]
  OBVIOUS
<1>2. PICK most : most = ReachedAt["critical"] * Full[n]
  OBVIOUS
<1>3. n \in DOMAIN Full
  BY NeedsHaveRates
<1>4. much \in Nat /\ most \in Nat
  BY <1>1, <1>2, <1>3, Thresholds
<1>5. PICK w \in Nat, k \in Nat, f \in Nat \ {0} :
        w = ReachedAt["warning"] /\ k = ReachedAt["critical"] /\ f = Full[n]
  BY <1>3, Rates
<1>6. k - w > 0
  BY <1>5, RulesAssumption DEF ValidNeeds
<1>7. (k - w) * f > 0
  BY <1>5, <1>6, PositiveProduct
<1>8. (k - w) * f = most - much
  BY <1>1, <1>2, <1>5, ProductOfDifference
<1>9. at > B /\ (at - B) * 1000 >= most
  BY <1>2 DEF Reached
<1>10. (at - B) * 1000 >= much
  BY <1>4, <1>7, <1>8, <1>9
<1>11. QED
  BY <1>1, <1>9, <1>10 DEF Reached

LEMMA FeltIsLevel ==
  ASSUME NEW n \in Needs, NEW L \in NeedLevels, NEW B \in Nat, NEW C, NEW at \in Nat,
         Feels(n, L, B, C, at), \A x \in C : x.due \in Nat /\ at < x.due
  PROVE  Level(n, B, at) = L
<1>1. CASE L = "critical"
  BY <1>1 DEF Feels, Level
<1>2. CASE L # "critical"
  <2>1. L \in {"normal", "warning"}
    BY <1>2 DEF NeedLevels
  <2>2. PICK x : C = {x} /\ \E due \in NextCrossing(n, B, L) : x.due <= due
    BY <1>2 DEF Feels
  <2>3. PICK due \in NextCrossing(n, B, L) : x.due <= due
    BY <2>2
  <2>4. x.due \in Nat /\ at < x.due
    BY <2>2
  <2>5. due \in Int /\ (Reached(n, B, at, Worse(L)) => due <= at)
    BY <2>1, <2>3, NeedsHaveRates, CrossingIsTheFirstMinute
  <2>6. ~Reached(n, B, at, Worse(L))
    BY <2>3, <2>4, <2>5
  <2>7. CASE L = "warning"
    BY <2>6, <2>7 DEF Feels, Level, Worse
  <2>8. CASE L = "normal"
    <3>1. ~Reached(n, B, at, "warning")
      BY <2>6, <2>8 DEF Worse
    <3>2. ~Reached(n, B, at, "critical")
      BY <3>1, CriticalIsWarning
    <3>3. QED
      BY <2>8, <3>1, <3>2 DEF Level
  <2>9. QED
    BY <2>1, <2>7, <2>8
<1>3. QED
  BY <1>1, <1>2

(* The rows that wait are the actions on the schedule.                     *)
LEMMA WaitingIsPending ==
  ASSUME ToldInv, NothingFails, NEW x \in Unfinished(rows)
  PROVE  x \in Planned /\ \E id \in DOMAIN rows : Pending(id) /\ rows[id].action = x
<1>1. PICK id \in DOMAIN rows : rows[id].outcome # "completed" /\ x = rows[id].action
  BY DEF Unfinished
<1>2. RowsAreKnown
  BY DEF ToldInv, WorldInv, Healthy
<1>3. rows[id].outcome \in {"pending", "completed", "failed"} /\ rows[id].action \in Planned
  BY <1>2 DEF RowsAreKnown
<1>4. rows[id].outcome # "failed"
  BY DEF NothingFails
<1>5. Pending(id)
  BY <1>1, <1>3, <1>4 DEF Pending
<1>6. QED
  BY <1>1, <1>3, <1>5

LEMMA WhatIsFelt ==
  ASSUME NeedsInv, NothingFails
  PROVE  CrossingAwaited
<1>1. ToldInv /\ WorldInv /\ NeedsTold(cards, Loaded)
  BY DEF NeedsInv, ToldInv
<1>2. ASSUME NEW ag \in Agents, NEW n \in Needs, NEW awaited, NEW level,
             awaited = {id \in Pended(ag, "need.threshold") : rows[id].action.need = n},
             level = Level(n, agents[ag].baseline[n], time)
      PROVE  /\ Cardinality(awaited) <= 1
             /\ awaited = {} => level = "critical"
             /\ Due(time) = {} => cards[ag].needs[n] = level
  <2>1. PICK C : C = Awaited(Loaded, ag, n)
    OBVIOUS
  <2>2. \A x \in C : x \in Unfinished(rows) /\ x.agent = ag
                     /\ x.kind = "need.threshold" /\ x.need = n
    BY <2>1, LoadedIs DEF Awaited, Of
  <2>3. ASSUME NEW id \in awaited PROVE rows[id].action \in C /\ id = Id(rows[id].action)
    <3>1. PICK x : x = rows[id].action
      OBVIOUS
    <3>2. id \in DOMAIN rows /\ Pending(id)
      BY <1>2 DEF Pended
    <3>3. x.agent = ag /\ x.kind = "need.threshold" /\ x.need = n
      BY <1>2, <3>1 DEF Pended
    <3>4. x \in Unfinished(rows)
      BY <3>1, <3>2 DEF Pending, Unfinished
    <3>5. x \in C
      BY <2>1, <3>3, <3>4, LoadedIs DEF Awaited, Of
    <3>6. id = Id(x)
      BY <1>1, <3>1, <3>2 DEF WorldInv, IInv, RowsAreRows
    <3>7. QED
      BY <3>1, <3>5, <3>6
  <2>4. ASSUME NEW x \in C
        PROVE  x.due \in Nat /\ \E id \in awaited : Pending(id) /\ rows[id].action = x
    <3>1. x \in Planned
      BY <1>1, <2>2, WaitingIsPending
    <3>2. PICK id \in DOMAIN rows : Pending(id) /\ rows[id].action = x
      BY <1>1, <2>2, WaitingIsPending
    <3>3. id \in awaited
      BY <1>2, <2>2, <3>2 DEF Pended
    <3>4. QED
      BY <3>1, <3>2, <3>3 DEF Planned
  <2>5. PICK B \in Nat : B = agents[ag].baseline[n]
    BY <1>1, LoadedIs DEF WorldInv, Healthy, Good, States, Stored
  <2>6. PICK L \in NeedLevels : L = cards[ag].needs[n]
    BY <1>1 DEF ToldInv, Told, Card
  <2>7. time \in Nat
    BY <1>1 DEF WorldInv, Healthy, Timely
  <2>8. Feels(n, L, B, C, time)
    BY <1>1, <2>1, <2>5, <2>6, LoadedIs DEF NeedsTold, FeltBy
  <2>9. C = {} \/ \E x : C = {x}
    BY <2>8 DEF Feels
  <2>10. Cardinality(awaited) <= 1
    <3>1. CASE awaited = {}
      BY <3>1, FS_EmptySet
    <3>2. CASE awaited # {}
      <4>1. PICK id : id \in awaited
        BY <3>2
      <4>2. PICK x : C = {x}
        BY <2>3, <2>9, <4>1
      <4>3. \A i \in awaited : i = Id(x)
        BY <2>3, <4>2
      <4>4. awaited = {id}
        BY <4>1, <4>3
      <4>5. Cardinality({id}) = 1
        BY FS_Singleton, Zenon
      <4>6. QED
        BY <4>4, <4>5
    <3>3. QED
      BY <3>1, <3>2
  <2>11. ASSUME awaited = {} PROVE level = "critical"
    <3>1. C = {}
      BY <2>4, <2>11
    <3>2. L = "critical"
      BY <2>8, <3>1 DEF Feels
    <3>3. Reached(n, B, time, "critical")
      BY <2>8, <3>2 DEF Feels
    <3>4. QED
      BY <1>2, <2>5, <3>3 DEF Level
  <2>12. ASSUME Due(time) = {} PROVE cards[ag].needs[n] = level
    <3>1. ASSUME NEW x \in C PROVE x.due \in Nat /\ time < x.due
      <4>1. PICK id \in awaited : Pending(id) /\ rows[id].action = x
        BY <2>4
      <4>2. id \in DOMAIN rows
        BY <1>2 DEF Pended
      <4>3. ~(x.due <= time)
        BY <2>12, <4>1, <4>2 DEF Due
      <4>4. QED
        BY <2>4, <2>7, <4>3
    <3>2. Level(n, B, time) = L
      BY <2>7, <2>8, <3>1, FeltIsLevel
    <3>3. QED
      BY <1>2, <2>5, <2>6, <3>2
  <2>13. QED
    BY <2>10, <2>11, <2>12
<1>3. QED
  BY <1>2 DEF CrossingAwaited

(* As long as nothing on the schedule is refused, every need of every agent*)
(* has at most one crossing on the schedule, and one unless the need is    *)
(* critical; and once a moment is over, the level the observer was last    *)
(* told is the level the clock says. The one crossing that evolve schedules*)
(* when a level is announced is enough: no meal, rest, interruption or     *)
(* order of an operator loses it or leaves a second one beside it.         *)
THEOREM CrossingsAreAwaited == Spec => [](NothingFails => CrossingAwaited)
<1>1. Init => NeedsInv
  BY InitIInv, InitHealthy, FirstCards, FirstNeeds DEF NeedsInv, ToldInv, WorldInv
<1>2. NeedsInv => (NothingFails => CrossingAwaited)
  BY WhatIsFelt
<1>3. QED
  BY <1>1, <1>2, NextNeedsInv, PTL DEF Spec

=============================================================================
