-------------------------------- MODULE Tempo --------------------------------
(***************************************************************************)
(* How real time becomes world time: createWorldStep and worldHorizon of   *)
(* the workers, next to operators who order journeys or move the world by  *)
(* hand. A step of a worker is one atomic step here: its ticks serve all   *)
(* that is due up to the horizon (Scheduler shows how), or it is refused.  *)
(*                                                                         *)
(* Real time is counted in beats, and only as far as somebody counts it: a *)
(* worker from its anchor and to its next poll, an action from its order.  *)
(***************************************************************************)
EXTENDS Integers, FiniteSets, FiniteSetsExt

CONSTANTS
  Workers,
  Poll,         (* POLL_INTERVAL_MS, in beats                              *)
  Minutes,      (* worldMinutesPerRealSecond: so many minutes of the world *)
  Beats,        (* ... in so many beats                                    *)
  Planned,      (* moments of the actions the world begins with            *)
  Lengths,      (* durations of the journeys an operator may order         *)
  Strides,      (* --advance of `world tick`                               *)
  MaxOrders,    (* bound: journeys                                         *)
  MaxTroubles,  (* bound: times something goes wrong                       *)
  MaxElapsed,   (* bound: beats that are counted                           *)
  None

ASSUME TempoAssumption ==
  /\ Poll \in Nat \ {0} /\ Minutes \in Nat \ {0} /\ Beats \in Nat \ {0}
  /\ Planned \subseteq Nat \ {0} /\ Lengths \subseteq Nat \ {0} /\ Strides \subseteq Nat
  /\ MaxOrders \in Nat /\ MaxTroubles \in Nat /\ MaxElapsed \in Nat
  /\ None \notin Nat

(* What is counted reaches the end of every journey.                       *)
ASSUME LongEnough ==
  \A length \in Lengths \cup Planned : length * Beats <= MaxElapsed * Minutes

VARIABLES
  time,         (* worlds.world_time, in minutes                           *)
  observed,     (* worlds.observed_world_time                              *)
  pending,      (* actions that wait: their moment, their length, the beats*)
                (* since they were ordered, and whether in a quiet world   *)
  worker,       (* the variables of createWorldStep, and the poll          *)
  rested,       (* history: workers whose last step left nothing to wait for*)
  orders,
  faults,
  troubles      (* history: what has gone wrong so far                     *)

world == <<time, observed, pending>>
vars == <<time, observed, pending, worker, rested, orders, faults, troubles>>

Troubles == {"restart", "unheard", "late", "by hand"}

(* A worker that has just read the world: it polls at once.                *)
Fresh == [up |-> TRUE, anchor |-> time, elapsed |-> 0, idle |-> None, sleep |-> 0]

Later(a, b) == IF a >= b THEN a ELSE b
Up == {w \in Workers : worker[w].up}

Wrong(kind) ==
  /\ faults < MaxTroubles /\ faults' = faults + 1
  /\ troubles' = troubles \cup {kind}

-----------------------------------------------------------------------------
Init ==
  /\ time = 0 /\ observed = 0
  /\ pending = {[due |-> t, length |-> t, age |-> 0, quiet |-> FALSE] : t \in Planned}
  /\ worker = [w \in Workers |->
                 [up |-> TRUE, anchor |-> 0, elapsed |-> 0, idle |-> None, sleep |-> 0]]
  /\ rested = {} /\ orders = 0 /\ faults = 0 /\ troubles = {}

(* A beat goes by, if anybody counts it. Who should have polled is late.   *)
Overdue == \E w \in Up : worker[w].sleep = 0

Beat ==
  /\ Up # {}
  /\ worker' = [w \in Workers |->
       IF w \notin Up THEN worker[w]
       ELSE [worker[w] EXCEPT !.elapsed = @ + 1, !.sleep = IF @ = 0 THEN 0 ELSE @ - 1]]
  /\ pending' = {[p EXCEPT !.age = IF @ < MaxElapsed THEN @ + 1 ELSE @] : p \in pending}
  /\ \A w \in Up : worker[w].elapsed < MaxElapsed
  /\ UNCHANGED <<time, observed, orders, rested>>

Pass == Beat /\ ~Overdue /\ UNCHANGED <<faults, troubles>>
PassLate == Beat /\ Overdue /\ Wrong("late")

-----------------------------------------------------------------------------
(* The step of a worker.                                                   *)

(* worldHorizon: a fraction of a minute is not granted yet.                *)
Horizon(k) == k.anchor + (k.elapsed * Minutes) \div Beats

(* Not the code: what was idle once is taken for idle ever after.          *)
AnchoredForGood(k) == IF k.idle = None THEN k ELSE [k EXCEPT !.anchor = k.idle, !.elapsed = 0]

(* The world had nothing to do in the last step: the time since then is    *)
(* forgotten, and not before now.                                          *)
Anchored(k) ==
  IF k.idle = None THEN k ELSE [k EXCEPT !.anchor = k.idle, !.elapsed = 0, !.idle = None]

Due(horizon) == {p \in pending : p.due <= horizon}

(* All that is due is served, in the order of its moments.                 *)
Serve(horizon) ==
  /\ pending' = pending \ Due(horizon)
  /\ time' = Max({time} \cup {p.due : p \in Due(horizon)})
  /\ observed' = Later(observed, horizon)

(* Not the code: a step in which nothing was due counts as a rest as well. *)
IdleWhenNothingDue(horizon) == pending' = {} \/ Due(horizon) = {}

(* nextDueAt === null                                                      *)
Idle(horizon) == pending' = {}

(* Not the code: the anchor moves at the end of the idle step already.     *)
RestAtOnce(k, idle) ==
  IF idle THEN [k EXCEPT !.anchor = time', !.elapsed = 0, !.sleep = Poll]
  ELSE [k EXCEPT !.sleep = Poll]

(* What the step remembers until the next one.                             *)
Remember(k, idle) == [k EXCEPT !.idle = IF idle THEN time' ELSE @, !.sleep = Poll]

Step(w) ==
  LET k == Anchored(worker[w])
      horizon == Horizon(k)
  IN /\ worker[w].up /\ worker[w].sleep = 0
     /\ IF horizon < time THEN /\ worker' = [worker EXCEPT ![w] = [k EXCEPT !.sleep = Poll]]
                               /\ rested' = rested \ {w}
                               /\ UNCHANGED world
        ELSE /\ Serve(horizon)
             /\ rested' = IF pending' = {} THEN rested \cup {w} ELSE rested \ {w}
             /\ worker' = [worker EXCEPT ![w] = Remember(k, Idle(horizon))]
     /\ UNCHANGED <<orders, faults, troubles>>

(* The step learns nothing: the lock of the world is with somebody else, or*)
(* the database cannot be reached.                                         *)
StepUnheard(w) ==
  /\ worker[w].up /\ worker[w].sleep = 0
  /\ worker' = [worker EXCEPT ![w] = [Anchored(@) EXCEPT !.sleep = Poll]]
  /\ rested' = rested \ {w}
  /\ Wrong("unheard")
  /\ UNCHANGED <<world, orders>>

Stop(w) ==
  /\ worker[w].up
  /\ worker' = [worker EXCEPT ![w] = [Fresh EXCEPT !.up = FALSE, !.anchor = 0]]
  /\ rested' = rested \ {w}
  /\ Wrong("restart")
  /\ UNCHANGED <<world, orders>>

(* loadWorldState gives the new process its anchor.                        *)
Start(w) ==
  /\ ~worker[w].up
  /\ worker' = [worker EXCEPT ![w] = Fresh]
  /\ UNCHANGED <<world, rested, orders, faults, troubles>>

-----------------------------------------------------------------------------
(* Operators.                                                              *)

(* loadObservedWorldTime: which hour it is in the world.                   *)
Stamp == Later(observed, time)

(* `world run`: a journey begins at the hour it is.                        *)
Order(length) ==
  /\ orders < MaxOrders /\ orders' = orders + 1
  /\ time' = Stamp
  /\ pending' = pending \cup
       {[due |-> Stamp + length, length |-> length, age |-> 0,
         quiet |-> pending = {} /\ Up \subseteq rested]}
  /\ UNCHANGED <<observed, worker, rested, faults, troubles>>

(* `world tick --advance`: a horizon of his own, counted from world_time.  *)
TickByHand(stride) ==
  /\ Serve(time + stride)
  /\ Wrong("by hand")
  /\ UNCHANGED <<worker, rested, orders>>

Next ==
  \/ Pass \/ PassLate
  \/ \E w \in Workers : Step(w) \/ StepUnheard(w) \/ Stop(w) \/ Start(w)
  \/ \E length \in Lengths : Order(length)
  \/ \E stride \in Strides : TickByHand(stride)

Spec == Init /\ [][Next]_vars

(* Time passes and a running worker polls. Nobody starts one.              *)
FairSpec == Spec /\ WF_vars(Pass) /\ \A w \in Workers : WF_vars(Step(w))

-----------------------------------------------------------------------------
(* A journey lasts as long as the tempo says, however long the world was   *)
(* quiet before and however often workers were restarted (a time in which  *)
(* they heard nothing they make good at once): never less if it was ordered*)
(* in a quiet world, and otherwise by no more than a minute and the poll by*)
(* which the hour it was stamped with may lag behind.                      *)
NeverEarly ==
  [][troubles \subseteq {"restart"} =>
       \A w \in Workers, p \in pending :
         Step(w) /\ p \notin pending' =>
           IF p.quiet THEN p.age * Minutes >= p.length * Beats
           ELSE (p.age + Poll) * Minutes >= (p.length - 1) * Beats]_vars

(* The rest is delay, and it does not add up: the hour a journey is stamped*)
(* with is up to a poll ahead of where a worker that was idle begins to    *)
(* count, it begins up to a poll late, and notices the end up to a poll    *)
(* late.                                                                   *)
DelayIsBounded ==
  troubles = {} =>
    \A p \in pending : (p.age - 3 * Poll) * Minutes < p.length * Beats

(* Whatever went wrong before, what is waited for happens, as long as some *)
(* worker goes on.                                                         *)
WaitsEnd == pending # {} ~> pending = {} \/ Up = {}
=============================================================================
