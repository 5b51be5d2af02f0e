----------------------------- MODULE MCScheduler ------------------------------
(* Scheduler on small schedules for TLC.                                   *)
EXTENDS Story, TLC

MCActions == 1 .. 4

\* 1, 2 and 4 are there from the start, 4 for the next moment. 1 adds 3 to
\* its own moment; the operator (10) takes 2 and 3 off. 2 may be rejected;
\* 4 takes 2 off, so a rejected 2 jams the schedule.
MCPlanned == {1, 2, 4}
MCDelay == <<0, 0, 0, 1>>
MCSpawns == [c \in Commands |-> IF c = 1 THEN {3} ELSE {}]
MCReplaces == [c \in Commands |-> CASE c = 10 -> {2, 3} [] c = 4 -> {2} [] OTHER -> {}]
MCStubborn == Commands \ {2}

\* A chain over three moments: 1 and 4 now, 2 later; 1 adds 3 to its own
\* moment, so that 3 meets 4, claimed before it; 4 adds 5 to the next one.
ChainActions == 1 .. 5
ChainPlanned == {1, 2, 4}
ChainDelay == <<0, 2, 0, 0, 1>>
ChainSpawns == [c \in Commands |-> CASE c = 1 -> {3} [] c = 4 -> {5} [] OTHER -> {}]
ChainReplaces == [c \in Commands |-> IF c = 5 THEN {2} ELSE {}]
NothingReplaced == [c \in Commands |-> {}]

\* Workers are interchangeable (safety runs only).
WorkerSymmetry == Permutations(Workers)
=============================================================================
