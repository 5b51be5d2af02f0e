----------------------------- MODULE ObserverFold -----------------------------
(***************************************************************************)
(* The observer's card of an agent, folded from the events of the journal  *)
(* without the rules of the world. A card is [status, place, route, food,  *)
(* goal, needs]; it knows a need by its last announced level, and an agent *)
(* on the road is nowhere.                                                 *)
(***************************************************************************)
EXTENDS WorldEvents

Nowhere == ""

(* genesisFromSnapshot: the card before the first event.                   *)
GenesisCard(s, ag) ==
  [status |-> "idle", place |-> s.agents[ag].place, route |-> 0,
   food |-> Cardinality(FoodOf(s, ag)), goal |-> "idle",
   needs |-> [n \in Needs |-> "normal"]]

(* A plan that fails takes the goal off the card and the sleeper out of bed*)
GivenUp(card) ==
  [card EXCEPT !.goal = "idle", !.status = IF @ = "resting" THEN "idle" ELSE @]

(* What is done about a need, and the goals that are chosen and consumed.  *)
(* The risk an agent has observed is in his memory, not on his card.       *)
Attended(card, e) ==
  CASE e.type = "rest.started" -> [card EXCEPT !.status = "resting"]
    [] e.type = "agent.ate" ->
         [card EXCEPT !.food = IF @ = 0 THEN 0 ELSE @ - 1, !.goal = "idle"]
    [] e.type = "agent.rested" -> [card EXCEPT !.status = "idle", !.goal = "idle"]
    [] e.type = "goal.chosen" -> [card EXCEPT !.goal = e.payload.goal]
    [] e.type = "risk.observed" -> card

(* What an event does to the card of its only actor. A journey that ends   *)
(* leaves the goal alone, although evolve consumes it.                     *)
Folded(card, e) ==
  CASE e.type = "journey.started" ->
         [card EXCEPT !.status = "traveling", !.place = Nowhere, !.route = e.payload.route]
    [] e.type = "journey.completed" ->
         [card EXCEPT !.status = "idle", !.place = RouteTo[e.payload.route], !.route = 0]
    [] e.type = "plan.invalidated" -> GivenUp(card)
    [] e.type = "need.threshold.crossed" -> [card EXCEPT !.needs[e.payload.need] = e.payload.level]
    [] OTHER -> Attended(card, e)

ApplyObserverEvent(cards, e) == [cards EXCEPT ![e.agent] = Folded(@, e)]

(* What the table of cards admits: who is on the road is nowhere else.     *)
CardFits(card) ==
  /\ card.status \in {"idle", "traveling", "resting"} /\ card.food >= 0
  /\ card.status = "traveling" <=> card.route # 0
  /\ card.status = "traveling" <=> card.place = Nowhere

(* The cards a sequence of events leads to. An event that cannot be decoded*)
(* or a card that does not fit is an exception, and the cards stay.        *)
CardsAfter(cards, events) ==
  LET next == FoldLeft(ApplyObserverEvent, cards, events)
  IN IF (\A i \in DOMAIN events : Decodable(events[i])) /\ (\A ag \in Agents : CardFits(next[ag]))
     THEN next ELSE cards
=============================================================================
