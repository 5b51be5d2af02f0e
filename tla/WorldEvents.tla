------------------------------ MODULE WorldEvents ------------------------------
(***************************************************************************)
(* The contract of world events: what decodeWorldEvent lets through. What  *)
(* is committed is not decoded before it is written; everything that is    *)
(* shown to an observer is, and an event that is refused stops its reader. *)
(*                                                                         *)
(* An envelope is who, when and because of what. Versions, correlations,   *)
(* the trace of a decision and the wording of identifiers are left out; not*)
(* that only an event may be named as a cause.                             *)
(***************************************************************************)
EXTENDS World

Instants == Nat
NeedLevels == {"normal", "warning", "critical"}

(* Any dotted name would do; these are the ones that are written.          *)
PreconditionTypes == {"item.available_to_actor", "agent.is_idle",
                      "agent.not_in_emergency", "route.available_from_location"}

(* The payload of a type of event, no field more and no field less. A next *)
(* threshold of null is the empty set. No other type is known.             *)
Payloads(type) ==
  CASE type = "journey.started" -> [route : Routes, arrival : Instants]
    [] type = "journey.completed" -> [route : Routes]
    [] type = "plan.invalidated" -> [plan : Nat \ {0}, precondition : PreconditionTypes]
    [] type = "need.threshold.crossed" ->
         [need : Needs, from : NeedLevels, level : NeedLevels, next : SUBSET Instants]
    [] type = "agent.ate" -> [item : Nat \ {0}]
    [] type = "rest.started" -> [ending : Instants]
    [] type = "agent.rested" -> {<<>>}
    [] type = "goal.chosen" -> [goal : Range(Goals), previous : Range(Goals)]
    [] type = "risk.observed" -> [route : Routes, risk : Permille]
    [] OTHER -> {}

(* Who, when and because of what: only events can be causes.               *)
EnvelopeFits(e) ==
  /\ e.agent \in Agents /\ e.at \in Instants
  /\ \A id \in e.caused : id[1] \in NamedByEvent

(* decodeWorldEvent                                                        *)
Decodable(e) == EnvelopeFits(e) /\ e.payload \in Payloads(e.type)
=============================================================================
