------------------------------ MODULE MCWorldRun ------------------------------
(* The prototype world: its places, routes and rules, some of its agents.  *)
EXTENDS WorldRun

MCPlaces == {"yard", "bridge", "checkpoint", "relay", "ravine"}
MCPlaceRisk == [yard |-> 0, bridge |-> 600, checkpoint |-> 300, relay |-> 100, ravine |-> 150]

\* In the order of their identifiers: bridge-to-checkpoint, bridge-to-yard,
\* checkpoint-to-bridge, checkpoint-to-ravine, ravine-to-checkpoint,
\* ravine-to-yard, yard-to-bridge, yard-to-ravine.
MCRoutes == 1 .. 8
MCFrom == <<"bridge", "bridge", "checkpoint", "checkpoint", "ravine", "ravine", "yard", "yard">>
MCTo == <<"checkpoint", "yard", "bridge", "ravine", "checkpoint", "yard", "bridge", "ravine">>
MCMinutes == <<25, 40, 25, 70, 70, 90, 40, 90>>
MCRisk == <<700, 400, 700, 200, 200, 150, 400, 150>>

\* Hunger comes sooner than in the prototype (1440), so that it can become
\* critical during a rest, and at moments that have to be rounded.
MCFull == [hunger |-> 1201, fatigue |-> 960]
MCReachedAt == [warning |-> 450, critical |-> 750]
MCUrgency == [normal |-> 0, warning |-> 400, critical |-> 900]

\* Two rations each.
MCFood == [i \in 1 .. 2 * Cardinality(Agents) |-> (i + 1) \div 2]
=============================================================================
