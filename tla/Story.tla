-------------------------------- MODULE Story --------------------------------
(***************************************************************************)
(* What a schedule ought to become: it is served by one worker who never   *)
(* stops, one moment after the other, and every command is accepted. There *)
(* is only one way to do that, so the story is a function: of its pages    *)
(* each follows from the one before. Not the code: what its comments       *)
(* promise (scheduler.ts:297-299).                                         *)
(***************************************************************************)
EXTENDS Scheduler

(* A page: when each action on the schedule is due, which actions have ever*)
(* been there, which are being served, and what has happened.              *)
FirstPage ==
  LET there == {a \in Planned : Delay[a] <= MaxTime}
  IN [due |-> [a \in there |-> Delay[a]], seen |-> there, batch |-> {}, done |-> <<>>]

(* The actions of the next moment, as many of them as are claimed at once. *)
Soonest(p) == {a \in DOMAIN p.due : \A b \in DOMAIN p.due : p.due[a] <= p.due[b]}

Batch(p) == {a \in Soonest(p) : Cardinality({b \in Soonest(p) : b < a}) < BatchSize}

(* An action happens: it leaves the schedule with what it replaces, and    *)
(* what it spawns enters it.                                               *)
Left(p, a) == DOMAIN p.due \ (Replaces[a] \cup {a})
New(p, a) == {b \in Spawns[a] \ p.seen : p.due[a] + Delay[b] <= MaxTime}

Told(p, a) ==
  [due |-> [b \in Left(p, a) \cup New(p, a) |->
              IF b \in New(p, a) THEN p.due[a] + Delay[b] ELSE p.due[b]],
   seen |-> p.seen \cup New(p, a),
   batch |-> p.batch \cap Left(p, a),
   done |-> Append(p.done, <<a, p.due[a]>>)]

NextPage(p) ==
  IF p.batch = {} THEN [p EXCEPT !.batch = Batch(p)]
  ELSE Told(p, CHOOSE a \in p.batch : \A b \in p.batch : a <= b)

Story[n \in Nat] == IF n = 0 THEN FirstPage ELSE NextPage(Story[n - 1])

-----------------------------------------------------------------------------
(* The result depends on how far the world was allowed to go, not on when  *)
(* a process got to run, which one, or by how many horizons it got there:  *)
(* the chronicle is what the story has told by some page. Each batch takes *)
(* a page to be claimed, and each action one to happen.                    *)
SameChronicle == \E n \in 0 .. 2 * Len(chronicle) : Story[n].done = chronicle

(* The same as long as no worker dies or loses its session in a batch,     *)
(* nothing is rejected and no operator acts, which the story does not tell.*)
Uninterrupted ==
  /\ faults = 0
  /\ \A c \in Commands : answer[c] # "rejected"
  /\ \A c \in Orders : answer[c] = "none"

UninterruptedSame == Uninterrupted => SameChronicle
=============================================================================
