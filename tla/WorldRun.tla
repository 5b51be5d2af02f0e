------------------------------- MODULE WorldRun -------------------------------
(***************************************************************************)
(* A world in its database, moved along its schedule by a process that     *)
(* serves one moment after the other up to the time it has announced, and  *)
(* by an operator who sends an agent off at that time.                     *)
(*                                                                         *)
(* Scheduler has the leases, locks and crashes of a tick, CommandHandler   *)
(* the transaction of a command; here each command is one step and one     *)
(* process ticks. What is modelled is what the two leave out: the rules of *)
(* the world, and rows written from the difference of two states.          *)
(***************************************************************************)
EXTENDS ObserverFold

CONSTANTS
  StartPlaces,  (* where an agent may begin                                *)
  Cautions,     (* cautions an agent may have                              *)
  Food,         (* owner of each item at the beginning                     *)
  Strides,      (* how far a process moves the announced time at once      *)
  MaxTime,      (* bound: minutes of world time                            *)
  MaxOrders     (* bound: journeys the operator orders                     *)

ASSUME RunAssumption ==
  /\ StartPlaces \subseteq Places /\ Cautions \subseteq 0 .. 10000 /\ Nowhere \notin Places
  /\ DOMAIN Food \subseteq Nat \ {0} /\ IsFiniteSet(DOMAIN Food)
  /\ Food \in [DOMAIN Food -> Agents]
  /\ Strides \subseteq Nat \ {0} /\ MaxTime \in Nat /\ MaxOrders \in Nat

VARIABLES
  time,         (* worlds.world_time                                       *)
  sequence,     (* worlds.last_sequence                                    *)
  observed,     (* worlds.observed_world_time                              *)
  agents,       (* agents, agent_route_knowledge                           *)
  items,        (* items: the owner of each                                *)
  rows,         (* scheduled_actions by id: the action and its outcome     *)
  batch,        (* the ids the tick has claimed and not yet served         *)
  now,          (* what the tick takes for the time of the world           *)
  orders,       (* how many journeys the operator has ordered              *)
  replica,      (* history: what a replay of the journal has arrived at    *)
  cards         (* projection_agents, once the journal is folded into them *)

tables == <<time, sequence, agents, items, rows, replica, cards>>
vars == <<time, sequence, observed, agents, items, rows, batch, now, orders, replica, cards>>

(* seedWorld. World time begins at 0.                                      *)
Newborn(place, caution) ==
  [place |-> place, status |-> "idle", route |-> 0, goal |-> "idle", plan |-> 0,
   baseline |-> [hunger |-> 0, fatigue |-> 0], known |-> {}, caution |-> caution]

FirstCrossings ==
  {Crossing(ag, need, due, "warning") :
     ag \in Agents, need \in Needs, due \in UNION {NextCrossing(n, 0, "normal") : n \in Needs}}

InitialSchedule ==
  {x \in FirstCrossings : x.due \in NextCrossing(x.need, 0, "normal")}

Pending(id) == rows[id].outcome = "pending"
Due(horizon) == {id \in DOMAIN rows : Pending(id) /\ rows[id].action.due <= horizon}

Before(a, b) ==
  \/ a.due < b.due
  \/ a.due = b.due /\ Priority[a.kind] < Priority[b.kind]
  \/ a.due = b.due /\ Priority[a.kind] = Priority[b.kind] /\ a.agent < b.agent

(* Not the code: what has failed is left out.                              *)
UnfinishedPending(table) == {table[id].action : id \in {i \in DOMAIN table : table[i].outcome = "pending"}}

(* loadWorldState takes the rows without completed_at, failed ones too: a  *)
(* rejection leaves no event, so a replay still has the action as well.    *)
Unfinished(table) == {table[id].action : id \in {i \in DOMAIN table : table[i].outcome # "completed"}}

Loaded == [time |-> time, sequence |-> sequence, agents |-> agents, items |-> items,
           schedule |-> Unfinished(rows)]

(* scheduledActionFromRow refuses a row without the columns of its kind.   *)
Formed(x) ==
  /\ x.kind \in DOMAIN Priority /\ x.agent \in Agents
  /\ x.kind = "journey.complete" => x.route \in Routes
  /\ x.kind = "agent.eat" => x.item \in DOMAIN Food
  /\ x.kind = "need.threshold" => x.need \in Needs /\ x.level \in {"warning", "critical"}

(* initializeWorld writes the schedule of genesis with the world.          *)
Enrolled ==
  [id \in {Id(x) : x \in InitialSchedule} |->
     [action |-> CHOOSE x \in InitialSchedule : Id(x) = id, outcome |-> "pending"]]

-----------------------------------------------------------------------------
Init ==
  /\ time = 0 /\ sequence = 0 /\ observed = 0
  /\ \E place \in [Agents -> StartPlaces], caution \in [Agents -> Cautions] :
       agents = [ag \in Agents |-> Newborn(place[ag], caution[ag])]
  /\ items = Food
  /\ rows = Enrolled
  /\ batch = {} /\ now = 0 /\ orders = 0
  /\ replica = Loaded
  /\ cards = [ag \in Agents |-> GenesisCard(replica, ag)]

(* Not the code: everything on the schedule is inserted.                   *)
AddedAll(before, after) == after.schedule

(* What leaves the schedule is completed, what enters it is inserted.      *)
Added(before, after) ==
  {x \in after.schedule : Id(x) \notin {Id(y) : y \in before.schedule}}

Removed(before, after) ==
  {Id(x) : x \in before.schedule} \ {Id(x) : x \in after.schedule}

(* A row of an agent: who is on the road has a road, and nobody else.      *)
AgentFits(a) ==
  /\ a.status \in {"idle", "traveling", "resting"} /\ a.goal \in Range(Goals)
  /\ a.status = "traveling" <=> a.route # 0
  /\ a.caution \in 0 .. 10000

(* A row of the schedule has the columns of its kind and no other.         *)
ActionFits(x) ==
  /\ x.kind \in DOMAIN Priority
  /\ x.kind = "journey.complete" <=> x.route # 0
  /\ x.kind = "agent.eat" <=> x.item # 0
  /\ x.kind = "need.threshold" <=> x.need # ""
  /\ x.kind = "need.threshold" <=> x.level # ""

(* The constraints of the tables; a violation is an exception. An action   *)
(* has one outcome (scheduled_actions_single_outcome), and an id that was  *)
(* ever used cannot be used again.                                         *)
Violates(before, after) ==
  \/ \E id \in Removed(before, after) : rows[id].outcome = "failed"
  \/ \E x \in Added(before, after) : Id(x) \in DOMAIN rows \/ ~ActionFits(x)
  \/ \E ag \in Agents : ~AgentFits(after.agents[ag])

(* changedAgents: an agent is written if one of these differs. What it     *)
(* knows of routes has a table of its own that only grows.                 *)
Changed(b, a) ==
  \/ b.place # a.place \/ b.status # a.status \/ b.route # a.route
  \/ b.baseline # a.baseline \/ b.goal # a.goal \/ b.plan # a.plan

Written(before, after, ag) ==
  LET b == before.agents[ag] a == after.agents[ag]
  IN IF Changed(b, a) THEN [a EXCEPT !.known = b.known \cup a.known]
     ELSE [b EXCEPT !.known = b.known \cup a.known]

NextRows(before, after) ==
  LET added == Added(before, after) removed == Removed(before, after)
  IN [id \in DOMAIN rows \cup {Id(x) : x \in added} |->
        IF id \in removed THEN [rows[id] EXCEPT !.outcome = "completed"]
        ELSE IF id \in DOMAIN rows THEN rows[id]
        ELSE [action |-> CHOOSE x \in added : Id(x) = id, outcome |-> "pending"]]

(* What is read again before the commit. If it is not the state the rules  *)
(* arrived at, something was not written: an exception.                    *)
Reread(before, after) ==
  [time |-> after.time, sequence |-> after.sequence,
   agents |-> [ag \in Agents |-> Written(before, after, ag)],
   items |-> [i \in DOMAIN items \cap DOMAIN after.items |-> items[i]],
   schedule |-> Unfinished(NextRows(before, after))]

CanSave(before, after) == ~Violates(before, after) /\ Reread(before, after) = after

(* The writes of an accepted command, from the difference of two states.   *)
Save(before, after) ==
  /\ time' = after.time /\ sequence' = after.sequence
  /\ agents' = [ag \in Agents |-> Written(before, after, ag)]
  /\ items' = [i \in DOMAIN items \cap DOMAIN after.items |-> items[i]]
  /\ rows' = NextRows(before, after)

(* States are bound by \E in singletons, so that TLC computes them once.   *)
Accept(before, after, events) ==
  /\ CanSave(before, after) /\ Save(before, after)
  /\ replica' = After(replica, events)
  /\ cards' = CardsAfter(cards, events)

(* The process announces a further moment once all before it are served.   *)
Announce ==
  /\ batch = {} /\ Due(observed) = {}
  /\ \E stride \in Strides :
       observed + stride <= MaxTime /\ observed' = observed + stride
  /\ UNCHANGED <<tables, batch, now, orders>>

(* runWorldTick: the rows of the earliest moment.                          *)
Claim ==
  /\ batch = {} /\ Due(observed) # {}
  /\ LET moment == CHOOSE t \in {rows[id].action.due : id \in Due(observed)} :
                     \A id \in Due(observed) : t <= rows[id].action.due
     IN batch' = Due(moment)
  /\ now' = time
  /\ UNCHANGED <<tables, observed, orders>>

Moment(x) == IF x.due >= now THEN x.due ELSE now

(* The rows that come first. Those that only their ids tell apart come in  *)
(* any order.                                                              *)
First == {id \in batch : \A other \in batch : ~Before(rows[other].action, rows[id].action)}

(* The next action of the batch, unless an event has taken it off already. *)
(* Accepted, rejected and marked failed, or ended by an exception.         *)
Serve ==
  \E id \in First, before \in {Loaded} :
    /\ \E at \in {Moment(rows[id].action)} :
       \E events \in {Decide(before, CommandFor(rows[id].action, at))} :
       \E after \in {After(before, events)} :
         \/ /\ ~Pending(id)
            /\ batch' = batch \ {id} /\ UNCHANGED <<tables, now>>
         \/ /\ Pending(id) /\ at >= time /\ events # <<>>
            /\ Accept(before, after, events)
            /\ batch' = batch \ {id} /\ now' = at
         \/ /\ Pending(id) /\ at >= time /\ events = <<>>
            /\ rows' = [rows EXCEPT ![id].outcome = "failed"]
            /\ batch' = batch \ {id}
            /\ UNCHANGED <<time, sequence, agents, items, now, replica, cards>>
         \/ /\ Pending(id)
            /\ at < time \/ (events # <<>> /\ ~CanSave(before, after))
            /\ batch' = {} /\ UNCHANGED <<tables, now>>
    /\ UNCHANGED <<observed, orders>>

(* `world run`: journey.start at the announced time or the time of the     *)
(* world, whichever is later. A rejection changes nothing here.            *)
Order(ag, r) ==
  /\ orders < MaxOrders
  /\ \E before \in {Loaded}, at \in {IF observed >= time THEN observed ELSE time} :
     \E events \in {Decide(before, [kind |-> "journey.start", agent |-> ag,
                                    route |-> r, at |-> at, caused |-> {}])} :
       /\ events # <<>>
       /\ \E after \in {After(before, events)} : Accept(before, after, events)
  /\ orders' = orders + 1
  /\ UNCHANGED <<observed, batch, now>>

Next == Announce \/ Claim \/ Serve \/ \E ag \in Agents, r \in Routes : Order(ag, r)

Spec == Init /\ [][Next]_vars

(* The process loops: it claims and serves as long as something is due.    *)
FairSpec == Spec /\ WF_vars(Claim \/ Serve)

-----------------------------------------------------------------------------
Kinds == DOMAIN Priority
Pended(ag, kind) == {id \in DOMAIN rows :
  Pending(id) /\ rows[id].action.agent = ag /\ rows[id].action.kind = kind}

(* Every variable holds values of its kind.                                *)
TypeOK ==
  /\ time \in 0 .. observed /\ sequence \in Nat /\ observed \in 0 .. MaxTime
  /\ agents \in [Agents -> AgentStates(sequence)]
  /\ \A i \in DOMAIN items : items[i] \in Agents
  /\ \A id \in DOMAIN rows :
       /\ Id(rows[id].action) = id /\ Formed(rows[id].action)
       /\ rows[id].outcome \in {"pending", "completed", "failed"}
  /\ batch \subseteq DOMAIN rows

(* The state in the tables, written piece by piece from differences, is the*)
(* state a replay of the journal arrives at from genesis.                  *)
ReplayAgrees == Loaded = replica

(* Whoever is under way will arrive on that road, whoever rests will get   *)
(* up, and whoever has a goal is about to take a step towards it or is     *)
(* taking it: no agent waits for an action that is not on the schedule.    *)
NobodyStuck ==
  \A ag \in Agents :
    LET a == agents[ag]
    IN /\ a.status = "traveling" <=>
            \E id \in Pended(ag, "journey.complete") : rows[id].action.route = a.route
       /\ a.status = "resting" <=> Pended(ag, "rest.complete") # {}
       /\ a.goal = "idle" <=> a.plan = 0
       /\ a.status = "idle" /\ a.goal # "idle" =>
            Pended(ag, "agent.eat") \cup Pended(ag, "agent.rest") \cup Pended(ag, "agent.travel") # {}

(* A need that has not become critical has its next crossing on the        *)
(* schedule, exactly one: an agent never stops feeling hunger or fatigue.  *)
(* Once a moment is over, what was last announced of a need is its level.  *)
CrossingAwaited ==
  \A ag \in Agents, need \in Needs :
    LET awaited == {id \in Pended(ag, "need.threshold") : rows[id].action.need = need}
        level == Level(need, agents[ag].baseline[need], time)
    IN /\ Cardinality(awaited) <= 1
       /\ awaited = {} => level = "critical"
       /\ Due(time) = {} => cards[ag].needs[need] = level

(* Once a moment is over, whoever is free has nothing left to do about his *)
(* needs: nobody stands about tired, or hungry with food in his bag, and   *)
(* nobody sleeps while he starves next to his food.                        *)
NeedsMet ==
  Due(time) = {} =>
    \A ag \in Agents :
      LET hunger == Level("hunger", agents[ag].baseline.hunger, time)
          bare == FoodOf([items |-> items], ag) = {}
      IN /\ agents[ag].status = "idle" =>
              Level("fatigue", agents[ag].baseline.fatigue, time) = "normal"
         /\ agents[ag].status = "idle" => hunger = "normal" \/ bare
         /\ agents[ag].status = "resting" => hunger # "critical" \/ bare

(* The schedule only holds what the rules will accept: nothing on it is    *)
(* ever rejected, whatever the operator does in between.                   *)
NothingFails == \A id \in DOMAIN rows : rows[id].outcome # "failed"

(* The observer is told the truth: whatever he has been shown, the card,   *)
(* folded without the rules, agrees with the state, folded with them. The  *)
(* goal does once the moment is over.                                      *)
CardsTellTheWorld ==
  \A ag \in Agents :
    LET a == agents[ag] card == cards[ag]
    IN /\ card.status = a.status /\ card.route = a.route
       /\ card.place = IF a.status = "traveling" THEN Nowhere ELSE a.place
       /\ card.food = Cardinality(FoodOf([items |-> items], ag))
       /\ Due(time) = {} => card.goal = a.goal

(* What is due is dealt with: no cascade of actions at one moment goes on  *)
(* for ever, and no action stops the schedule.                             *)
MomentsEnd == Due(observed) # {} ~> Due(observed) = {}

-----------------------------------------------------------------------------
(* Not the code: what it does not check, and a world needs all the same if *)
(* nothing is to be refused and every need is to be met.                   *)

(* How long it takes from one level of a need to the next, in thousandths  *)
(* of a minute.                                                            *)
Span(need) == (ReachedAt["critical"] - ReachedAt["warning"]) * Full[need]

(* It is served promptly: from one level of a need to the next it takes at *)
(* least as long as a process moves the announced time at once, or a minute*)
Prompt == \A need \in Needs, minutes \in Strides \cup {1} : minutes * 1000 <= Span(need)

(* Its weights are sober: to answer a need nobody feels is worth no more   *)
(* than it takes to change one's mind.                                     *)
Sober == Urgency.normal <= SwitchMargin

(* Its agents care: to answer a need they feel is worth the time of a rest *)
(* and what it takes to change one's mind.                                 *)
Caring == Urgency.warning - TimeCost(RestMinutes) > SwitchMargin
=============================================================================
