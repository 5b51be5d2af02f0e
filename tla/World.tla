-------------------------------- MODULE World --------------------------------
(***************************************************************************)
(* The rules of the world: decide makes events of a command, or none if it *)
(* rejects it; evolve makes the next state of a state and an event. Both   *)
(* are functions, so this module has no variables; WorldRun moves a world  *)
(* with them. World time is counted in minutes.                            *)
(*                                                                         *)
(* A state is [time, sequence, agents, items, schedule]. worldVersion goes *)
(* with sequence (CommandHandler: JournalIsWhole). Agents, routes and items*)
(* are numbered in the order of their identifiers.                         *)
(***************************************************************************)
EXTENDS Integers, Sequences, FiniteSets, SequencesExt, TLC

CONSTANTS
  Agents, Places, Routes,
  RouteFrom, RouteTo, RouteMinutes, RouteRisk,
  PlaceRisk,
  Full,         (* minutesToFull of each need                              *)
  ReachedAt,    (* permille at which a need is warning, critical           *)
  Urgency,      (* urgencyPermille of each level                           *)
  TimeCostRate, (* timeCostPermillePerHour                                 *)
  SwitchMargin, (* switchMarginPermille                                    *)
  UnknownRisk,  (* assumedUnknownRiskPermille                              *)
  RestMinutes

(* What requireValidNeedConfig, requireValidGoalWeights, the constructor of *)
(* FixedRuleset and requireRisk do not refuse. A week is the longest action*)
(* a plan may have.                                                        *)
Permille == 0 .. 1000
MaxGoalDuration == 10080

Needs == {"hunger", "fatigue"}

ValidNeeds ==
  /\ Full \in [Needs -> Nat \ {0}]
  /\ \A level \in {"warning", "critical"} : ReachedAt[level] \in Permille \ {0}
  /\ ReachedAt["warning"] < ReachedAt["critical"]

ValidWeights ==
  /\ {Urgency.normal, Urgency.warning, Urgency.critical} \subseteq Permille
  /\ Urgency.normal <= Urgency.warning /\ Urgency.warning <= Urgency.critical
  /\ {TimeCostRate, SwitchMargin, UnknownRisk} \subseteq Permille

ValidRest == RestMinutes \in 1 .. MaxGoalDuration

ValidMap ==
  /\ RouteFrom \in [Routes -> Places] /\ RouteTo \in [Routes -> Places]
  /\ RouteMinutes \in [Routes -> Nat \ {0}] /\ RouteRisk \in [Routes -> Permille]
  /\ PlaceRisk \in [Places -> Permille]

ASSUME RulesAssumption ==
  /\ Agents \subseteq Nat \ {0} /\ Routes \subseteq Nat \ {0}
  /\ ValidMap /\ ValidNeeds /\ ValidWeights /\ ValidRest

Goals == <<"idle", "eat", "rest", "flee">>
Treats == [idle |-> "", eat |-> "hunger", rest |-> "fatigue", flee |-> ""]

(* What is stored of an agent. A need is stored as the moment it grows     *)
(* from, a plan as the number of the event that chose its goal.            *)
AgentStates(lastSequence) ==
  [place : Places, status : {"idle", "traveling", "resting"}, route : Routes \cup {0},
   baseline : [Needs -> Int], goal : Range(Goals), plan : 0 .. lastSequence,
   caution : Nat, known : SUBSET Routes]

CeilDiv(a, b) == (a + b - 1) \div b

-----------------------------------------------------------------------------
(* Scheduled actions. The id of a crossing is made of its moment, any other*)
(* id of the event that scheduled the action.                              *)
Action(kind, ag, due, ref) ==
  [kind |-> kind, agent |-> ag, due |-> due, ref |-> ref,
   route |-> 0, item |-> 0, need |-> "", level |-> ""]

Id(x) == IF x.kind = "need.threshold" THEN <<x.kind, x.agent, x.need, x.due>>
         ELSE <<x.kind, x.agent, x.ref>>

Priority == [k \in {"rest.complete", "journey.complete", "need.threshold", "agent.decide",
                    "agent.eat", "agent.rest", "agent.travel"} |->
  CASE k = "rest.complete" -> 50 [] k = "journey.complete" -> 100
    [] k = "need.threshold" -> 200 [] k = "agent.decide" -> 250
    [] k = "agent.eat" -> 300 [] k = "agent.rest" -> 310 [] k = "agent.travel" -> 320]

Caused(x, at, causes) ==
  [kind |-> x.kind, agent |-> x.agent, at |-> at, caused |-> causes,
   route |-> x.route, item |-> x.item, need |-> x.need, level |-> x.level]

(* Not the code: every action is named as the cause.                       *)
CommandForAny(x, at) == Caused(x, at, {Id(x)})

(* The command of an action that is executed at this moment. The id of an  *)
(* arrival or of the end of a rest is the id of the event that scheduled   *)
(* it, which may be named as a cause; ids of other actions are made of one.*)
NamedByEvent == {"journey.complete", "rest.complete"}
CommandFor(x, at) == Caused(x, at, IF x.kind \in NamedByEvent THEN {Id(x)} ELSE {})

Crossing(ag, need, due, level) ==
  [Action("need.threshold", ag, due, 0) EXCEPT !.need = need, !.level = level]

Arrival(ag, due, ref, r) == [Action("journey.complete", ag, due, ref) EXCEPT !.route = r]
Meal(ag, due, ref, i) == [Action("agent.eat", ag, due, ref) EXCEPT !.item = i]

Of(schedule, ag) == {x \in schedule : x.agent = ag}
Without(schedule, ag, kinds) == schedule \ {x \in Of(schedule, ag) : x.kind \in kinds}

-----------------------------------------------------------------------------
(* Needs. The value is not stored: it grows from the baseline, and its     *)
(* level is what the fraction reached says.                                *)
Reached(need, baseline, at, level) ==
  at > baseline /\ (at - baseline) * 1000 >= ReachedAt[level] * Full[need]

Level(need, baseline, at) ==
  CASE Reached(need, baseline, at, "critical") -> "critical"
    [] /\ ~Reached(need, baseline, at, "critical")
       /\ Reached(need, baseline, at, "warning") -> "warning"
    [] OTHER -> "normal"

Worse(level) == IF level = "normal" THEN "warning" ELSE "critical"
Better(level) == IF level = "critical" THEN "warning" ELSE "normal"

(* Not the code: the moment is rounded down.                               *)
NextCrossingFloor(need, baseline, level) ==
  IF level = "critical" THEN {}
  ELSE {baseline + (ReachedAt[Worse(level)] * Full[need]) \div 1000}

(* nextThresholdCrossing: a set of at most one moment, rounded up.         *)
NextCrossing(need, baseline, level) ==
  IF level = "critical" THEN {}
  ELSE {baseline + CeilDiv(ReachedAt[Worse(level)] * Full[need], 1000)}

-----------------------------------------------------------------------------
(* Goals                                                                   *)
TimeCost(minutes) == CeilDiv(minutes * TimeCostRate, 60)
Options(agent) == {r \in Routes : RouteFrom[r] = agent.place}

(* The risk of a road through the eyes of the agent: who has not gone it   *)
(* does not know it, and nothing else tells him.                           *)
Perceived(agent, r) == IF r \in agent.known THEN RouteRisk[r] ELSE UnknownRisk

RouteCost(agent, r) ==
  TimeCost(RouteMinutes[r]) + CeilDiv(Perceived(agent, r) * agent.caution, 1000)

ChooseRoute(agent) ==
  CHOOSE r \in Options(agent) :
    \A q \in Options(agent) :
      \/ RouteCost(agent, r) < RouteCost(agent, q)
      \/ RouteCost(agent, r) = RouteCost(agent, q) /\ r <= q

FoodOf(s, ag) == {i \in DOMAIN s.items : s.items[i] = ag}

(* The food that is eaten: the first by its identifier.                    *)
FirstFood(s, ag) == CHOOSE i \in FoodOf(s, ag) : \A j \in FoodOf(s, ag) : i <= j

Feasible(s, ag, goal) ==
  \/ goal = "idle"
  \/ /\ s.agents[ag].status = "idle"
     /\ goal = "eat" => FoodOf(s, ag) # {}
     /\ goal = "flee" => Options(s.agents[ag]) # {}

Score(agent, goal, at) ==
  LET urgency == CASE goal = "idle" -> 0
                   [] goal = "flee" -> PlaceRisk[agent.place]
                   [] OTHER -> Urgency[Level(Treats[goal], agent.baseline[Treats[goal]], at)]
      cost == CASE goal = "rest" -> TimeCost(RestMinutes)
                [] goal = "flee" /\ Options(agent) # {} -> RouteCost(agent, ChooseRoute(agent))
                [] OTHER -> 0
  IN urgency - cost - (IF goal = agent.goal THEN 0 ELSE SwitchMargin)

ChooseGoal(s, ag, at) ==
  LET candidates == {g \in DOMAIN Goals : Feasible(s, ag, Goals[g])}
      score(g) == Score(s.agents[ag], Goals[g], at)
  IN Goals[CHOOSE g \in candidates :
             \A h \in candidates : score(g) > score(h) \/ (score(g) = score(h) /\ g <= h)]

-----------------------------------------------------------------------------
(* decide: the events of command c, or <<>> if it is rejected.             *)
Event(type, c, payload) ==
  [type |-> type, agent |-> c.agent, at |-> c.at, caused |-> c.caused, payload |-> payload]

Started(c, r) ==
  Event("journey.started", c, [route |-> r, arrival |-> c.at + RouteMinutes[r]])

Crossed(c, need, from, level, baseline) ==
  Event("need.threshold.crossed", c,
    [need |-> need, from |-> from, level |-> level, next |-> NextCrossing(need, baseline, level)])

(* An agent that has a plan gives it up; otherwise the command is rejected.*)
PlanFailure(agent, c, precondition) ==
  IF agent.plan = 0 THEN <<>>
  ELSE <<Event("plan.invalidated", c, [plan |-> agent.plan, precondition |-> precondition])>>

DecideJourneyStart(s, c) ==
  LET agent == s.agents[c.agent]
  IN IF agent.status # "idle" \/ RouteFrom[c.route] # agent.place THEN <<>>
     ELSE <<Started(c, c.route)>>

(* Who goes a way for the first time learns its risk.                      *)
DecideJourneyComplete(s, c) ==
  LET agent == s.agents[c.agent]
  IN IF agent.status # "traveling" \/ agent.route # c.route THEN <<>>
     ELSE <<Event("journey.completed", c, [route |-> c.route])>> \o
          (IF c.route \in agent.known THEN <<>>
           ELSE <<Event("risk.observed", c, [route |-> c.route, risk |-> RouteRisk[c.route]])>>)

(* Not the code: nothing interrupts a rest.                                *)
NeverInterrupted(agent, c) == <<>>

(* A need that becomes critical ends a rest that is not for it.            *)
EmergencyInterrupt(agent, c) ==
  IF c.level = "critical" /\ agent.status = "resting" /\ Treats[agent.goal] # c.need
  THEN PlanFailure(agent, c, "agent.not_in_emergency") ELSE <<>>

DecideNeedThresholdCross(s, c) ==
  LET agent == s.agents[c.agent]
      baseline == agent.baseline[c.need]
  IN IF Level(c.need, baseline, c.at) # c.level \/ c.level = "normal" THEN <<>>
     ELSE <<Crossed(c, c.need, Better(c.level), c.level, baseline)>> \o EmergencyInterrupt(agent, c)

(* Not the code: only a critical need is noticed to be over.               *)
RecoveredFromCritical(agent, c, need) ==
  IF Level(need, agent.baseline[need], c.at) # "critical" THEN <<>>
  ELSE <<Crossed(c, need, "critical", "normal", c.at)>>

(* The baseline of a treated need is the moment of the command.            *)
Recovered(agent, c, need) ==
  IF Level(need, agent.baseline[need], c.at) = "normal" THEN <<>>
  ELSE <<Crossed(c, need, Level(need, agent.baseline[need], c.at), "normal", c.at)>>

(* Only food is modelled, so what can be owned can be eaten.               *)
DecideAgentEat(s, c) ==
  LET agent == s.agents[c.agent]
  IN IF c.item \notin FoodOf(s, c.agent) THEN PlanFailure(agent, c, "item.available_to_actor")
     ELSE <<Event("agent.ate", c, [item |-> c.item])>> \o Recovered(agent, c, "hunger")

DecideAgentRest(s, c) ==
  IF s.agents[c.agent].status # "idle" THEN PlanFailure(s.agents[c.agent], c, "agent.is_idle")
  ELSE <<Event("rest.started", c, [ending |-> c.at + RestMinutes])>>

DecideRestComplete(s, c) ==
  LET agent == s.agents[c.agent]
  IN IF agent.status # "resting" THEN <<>>
     ELSE <<Event("agent.rested", c, <<>>)>> \o Recovered(agent, c, "fatigue")

DecideAgentDecide(s, c) ==
  <<Event("goal.chosen", c,
      [goal |-> ChooseGoal(s, c.agent, c.at), previous |-> s.agents[c.agent].goal])>>

DecideAgentTravel(s, c) ==
  LET agent == s.agents[c.agent]
  IN IF agent.status # "idle" THEN PlanFailure(agent, c, "agent.is_idle")
     ELSE IF Options(agent) = {} THEN PlanFailure(agent, c, "route.available_from_location")
     ELSE <<Started(c, ChooseRoute(agent))>>

Decide(s, c) ==
  CASE c.kind = "journey.start" -> DecideJourneyStart(s, c)
    [] c.kind = "journey.complete" -> DecideJourneyComplete(s, c)
    [] c.kind = "need.threshold" -> DecideNeedThresholdCross(s, c)
    [] c.kind = "agent.eat" -> DecideAgentEat(s, c)
    [] c.kind = "agent.rest" -> DecideAgentRest(s, c)
    [] c.kind = "rest.complete" -> DecideRestComplete(s, c)
    [] c.kind = "agent.decide" -> DecideAgentDecide(s, c)
    [] c.kind = "agent.travel" -> DecideAgentTravel(s, c)

-----------------------------------------------------------------------------
(* evolve: in what follows s already has the time and number of event e.   *)
Free(agent) == agent.status = "idle" /\ agent.goal = "idle"

(* withDecisionScheduled: something happened to a free agent, so it thinks.*)
WithDecision(s, e) ==
  IF ~Free(s.agents[e.agent]) THEN s
  ELSE [s EXCEPT !.schedule = Without(@, e.agent, {"agent.decide"}) \cup
                                {Action("agent.decide", e.agent, e.at, s.sequence)}]

JourneyStarted(s, e) ==
  [s EXCEPT !.agents[e.agent] = [@ EXCEPT !.status = "traveling", !.route = e.payload.route],
            !.schedule = Without(@, e.agent, {"agent.travel"}) \cup
              {Arrival(e.agent, e.payload.arrival, s.sequence, e.payload.route)}]

JourneyCompleted(s, e) ==
  WithDecision(
    [s EXCEPT !.agents[e.agent] =
                [@ EXCEPT !.status = "idle", !.route = 0, !.place = RouteTo[e.payload.route],
                          !.goal = "idle", !.plan = 0],
              !.schedule = {x \in @ : Id(x) \notin e.caused}], e)

NeedThresholdCrossed(s, e) ==
  LET p == e.payload
  IN WithDecision(
       [s EXCEPT !.schedule =
          (@ \ {x \in Of(@, e.agent) : x.kind = "need.threshold" /\ x.need = p.need}) \cup
          {Crossing(e.agent, p.need, due, Worse(p.level)) : due \in p.next}], e)

AgentAte(s, e) ==
  WithDecision(
    [s EXCEPT !.items = [i \in DOMAIN @ \ {e.payload.item} |-> @[i]],
              !.schedule =
                @ \ {x \in Of(@, e.agent) : x.kind = "agent.eat" /\ x.item = e.payload.item},
              !.agents[e.agent] =
                [@ EXCEPT !.goal = "idle", !.plan = 0, !.baseline.hunger = e.at]], e)

RestStarted(s, e) ==
  [s EXCEPT !.agents[e.agent] = [@ EXCEPT !.status = "resting"],
            !.schedule = Without(@, e.agent, {"agent.rest"}) \cup
              {Action("rest.complete", e.agent, e.payload.ending, s.sequence)}]

AgentRested(s, e) ==
  WithDecision(
    [s EXCEPT !.schedule = {x \in @ : Id(x) \notin e.caused},
              !.agents[e.agent] =
                [@ EXCEPT !.status = "idle", !.goal = "idle", !.plan = 0,
                          !.baseline.fatigue = e.at]], e)

(* The first step towards the goal, for the same moment.                   *)
StepFor(s, e) ==
  CASE e.payload.goal = "flee" -> {Action("agent.travel", e.agent, e.at, s.sequence)}
    [] e.payload.goal = "rest" -> {Action("agent.rest", e.agent, e.at, s.sequence)}
    [] e.payload.goal = "eat"  -> {Meal(e.agent, e.at, s.sequence, FirstFood(s, e.agent))}
    [] OTHER -> {}

(* Not the code: the plan is named after the next event.                   *)
GoalChosenNext(s, e) ==
  [s EXCEPT !.schedule = Without(@, e.agent, {"agent.decide"}) \cup StepFor(s, e),
            !.agents[e.agent] =
              [@ EXCEPT !.goal = e.payload.goal,
                        !.plan = IF e.payload.goal = "idle" THEN 0 ELSE s.sequence + 1]]

GoalChosen(s, e) ==
  [s EXCEPT !.schedule = Without(@, e.agent, {"agent.decide"}) \cup StepFor(s, e),
            !.agents[e.agent] =
              [@ EXCEPT !.goal = e.payload.goal,
                        !.plan = IF e.payload.goal = "idle" THEN 0 ELSE s.sequence]]

(* Not the code: the sleeper stays in bed.                                 *)
PlanInvalidatedInBed(s, e) ==
  WithDecision(
    [s EXCEPT !.schedule = Without(@, e.agent,
                {"agent.eat", "agent.rest", "agent.travel", "rest.complete", "agent.decide"}),
              !.agents[e.agent] = [@ EXCEPT !.goal = "idle", !.plan = 0]], e)

(* A given up plan takes its steps along, and a sleeper gets up.           *)
PlanInvalidated(s, e) ==
  LET agent == s.agents[e.agent]
  IN WithDecision(
       [s EXCEPT !.schedule = Without(@, e.agent,
                   {"agent.eat", "agent.rest", "agent.travel", "rest.complete", "agent.decide"}),
                 !.agents[e.agent] =
                   [agent EXCEPT !.goal = "idle", !.plan = 0,
                      !.status = IF agent.status = "resting" THEN "idle" ELSE agent.status]], e)

RiskObserved(s, e) ==
  LET agent == s.agents[e.agent]
  IN [s EXCEPT !.agents[e.agent] = [agent EXCEPT !.known = agent.known \cup {e.payload.route}]]

Evolve(s0, e) ==
  LET s == [s0 EXCEPT !.time = e.at, !.sequence = @ + 1]
  IN CASE e.type = "journey.started" -> JourneyStarted(s, e)
       [] e.type = "journey.completed" -> JourneyCompleted(s, e)
       [] e.type = "need.threshold.crossed" -> NeedThresholdCrossed(s, e)
       [] e.type = "agent.ate" -> AgentAte(s, e)
       [] e.type = "rest.started" -> RestStarted(s, e)
       [] e.type = "agent.rested" -> AgentRested(s, e)
       [] e.type = "goal.chosen" -> GoalChosen(s, e)
       [] e.type = "plan.invalidated" -> PlanInvalidated(s, e)
       [] e.type = "risk.observed" -> RiskObserved(s, e)

(* The state a sequence of events leads to.                                *)
After(s, events) == FoldLeft(Evolve, s, events)
=============================================================================
