----------------------------- MODULE Scheduler ------------------------------
(***************************************************************************)
(* runWorldTick: workers that move one world along its schedule, next to   *)
(* an operator who sends commands of his own. Every database statement and *)
(* every command is one step; a worker may die, or silently lose the       *)
(* session that carries its advisory lock, between any two of them.        *)
(*                                                                         *)
(* executeCommand is one atomic step here, with its journal of answers in  *)
(* `answer`: CommandHandler shows that it may be taken for one. What the   *)
(* domain makes of an action is given by the constants Spawns, Delay and   *)
(* Replaces, and by a free choice between acceptance and rejection.        *)
(***************************************************************************)
EXTENDS Integers, Sequences, FiniteSets

CONSTANTS
  Workers,      (* processes that call runWorldTick                        *)
  Actions,      (* actions that may get a row in scheduled_actions. They   *)
                (* are numbered in the order (priority, entity_id, action_id)*)
  Orders,       (* commands of the operator                                *)
  Planned,      (* actions scheduled when the world is created             *)
  Spawns,       (* actions an accepted command adds to the schedule ...    *)
  Delay,        (* ... so long after its own moment                        *)
  Replaces,     (* other actions it takes off the schedule                 *)
  Stubborn,     (* actions the domain never rejects                        *)
  BatchSize,    (* actions claimed at a time                               *)
  MaxTime,      (* bound: moments of world time                            *)
  MaxFaults,    (* bound: crashes and lost sessions                        *)
  Nobody        (* no worker                                               *)

Commands == Actions \cup Orders
Times == 0 .. MaxTime

ASSUME ScheduleAssumption ==
  /\ Actions \subseteq Nat /\ Orders \cap Actions = {} /\ Planned \subseteq Actions
  /\ Spawns \in [Commands -> SUBSET Actions] /\ Replaces \in [Commands -> SUBSET Actions]
  /\ IsFiniteSet(Planned) /\ \A c \in Commands : IsFiniteSet(Spawns[c])
  /\ Delay \in [Actions -> Nat] /\ Stubborn \subseteq Commands
  /\ BatchSize \in Nat \ {0} /\ MaxTime \in Nat /\ MaxFaults \in Nat
  /\ Nobody \notin Workers

VARIABLES
  time,         (* worlds.world_time                                       *)
  observed,     (* worlds.observed_world_time                              *)
  rows,         (* scheduled_actions                                       *)
  answer,       (* command_results                                         *)
  chronicle,    (* the accepted commands and their moments, in order       *)
  session,      (* the worker whose session has the advisory lock          *)
  worker,       (* the local state of each tick                            *)
  order,        (* the command the operator is about to run, its moment    *)
  clock,        (* the horizon the tempo of the world allows by now; only  *)
                (* an operator may go further                              *)
  faults        (* crashes and lost sessions so far                        *)

world == <<time, observed, rows, answer, chronicle>>
vars == <<time, observed, rows, answer, chronicle, session, worker, order, clock, faults>>

NoRow == [due |-> 0, owner |-> Nobody, live |-> FALSE, status |-> "absent"]
Row(due) == [due |-> due, owner |-> Nobody, live |-> FALSE, status |-> "pending"]

(* completed_at and failed_at of a row, of which at most one may be set    *)
(* (scheduled_actions_single_outcome).                                     *)
Statuses == {"absent", "pending", "completed", "failed"}
Rows == [due : Times, owner : Workers \cup {Nobody}, live : BOOLEAN, status : Statuses]

Asleep == [step |-> "asleep", horizon |-> 0, moment |-> 0, now |-> 0, batch |-> {}]
Ticks == [step : {"asleep", "start", "observe", "look", "claim", "hold", "execute", "mark"},
          horizon : Times, moment : Times, now : Times, batch : SUBSET Actions]

NoOrder == <<>>

Later(a, b) == IF a >= b THEN a ELSE b
Pending == {a \in Actions : rows[a].status = "pending"}

Due(horizon) == {a \in Pending : rows[a].due <= horizon}

(* order by due_at, priority, entity_id, action_id                         *)
(* Not the code: ties are served in the opposite order.                    *)
BeforeReversed(a, b) ==
  \/ rows[a].due < rows[b].due
  \/ rows[a].due = rows[b].due /\ a > b

Before(a, b) ==
  \/ rows[a].due < rows[b].due
  \/ rows[a].due = rows[b].due /\ a < b

(* The rows of a batch keep their moments, so its order need not be kept.  *)
First(batch) == CHOOSE a \in batch : \A b \in batch \ {a} : Before(a, b)
Turn(w) == First(worker[w].batch)
Rest(w) == worker[w].batch \ {Turn(w)}

(* Not the code: everything up to the horizon is taken for one moment.     *)
Latest(set) == CHOOSE t \in {rows[a].due : a \in set} : \A a \in set : t >= rows[a].due
Earliest(set) == CHOOSE t \in {rows[a].due : a \in set} : \A a \in set : t <= rows[a].due

-----------------------------------------------------------------------------
Init ==
  /\ time = 0 /\ observed = 0 /\ clock = 0 /\ faults = 0
  /\ rows = [a \in Actions |-> IF a \in Planned /\ Delay[a] <= MaxTime
                               THEN Row(Delay[a]) ELSE NoRow]
  /\ answer = [c \in Commands |-> "none"]
  /\ chronicle = <<>>
  /\ session = Nobody
  /\ worker = [w \in Workers |-> Asleep]
  /\ order = NoOrder

(* Real time passes and the tempo allows the world to go further.          *)
Advance ==
  /\ clock < MaxTime
  /\ clock' = clock + 1
  /\ UNCHANGED <<world, session, worker, order, faults>>

(* pg_try_advisory_lock. A worker that does not get it reports a skipped   *)
(* tick: nothing happens, and the next attempt starts from scratch.        *)
LockFree == session = Nobody

TryLock(w) ==
  /\ worker[w].step = "asleep"
  /\ LockFree
  /\ session' = w
  /\ worker' = [worker EXCEPT ![w] = [Asleep EXCEPT !.step = "start"]]
  /\ UNCHANGED <<world, order, clock, faults>>

(* The tick is over, by its last line or by an exception: the local state  *)
(* is gone and the lock, if this worker still has it, is released.         *)
EndTick(w) ==
  /\ worker' = [worker EXCEPT ![w] = Asleep]
  /\ session' = IF session = w THEN Nobody ELSE session

(* The state is read; a horizon in the past is an exception. A worker asks *)
(* for the horizon of its tempo, an operator's `world tick` for any: of the*)
(* two nothing else differs, and the tick remembers neither.               *)
Read(w, horizon) ==
  /\ worker[w].step = "start"
  /\ IF horizon < time THEN EndTick(w)
     ELSE /\ worker' = [worker EXCEPT ![w] =
               [@ EXCEPT !.step = "observe", !.horizon = horizon, !.now = time]]
          /\ UNCHANGED session
  /\ UNCHANGED <<world, order, clock, faults>>

(* The horizon is noted as seen before anything is claimed, and only ever  *)
(* forwards: it is what the operator takes for the time of the world.      *)
(* Not the code: an off-by-one moment.                                     *)
SeenNext(horizon) == Later(observed, horizon + 1)
Seen(horizon) == Later(observed, horizon)

Observe(w) ==
  /\ worker[w].step = "observe"
  /\ observed' = Seen(worker[w].horizon)
  /\ worker' = [worker EXCEPT ![w] = [@ EXCEPT !.step = "look"]]
  /\ UNCHANGED <<time, rows, answer, chronicle, session, order, clock, faults>>

(* earliestPendingDueAt: one tick serves one moment. Leases do not matter  *)
(* here: a moment is not over while somebody else works on it.             *)
Look(w) ==
  /\ worker[w].step = "look"
  /\ IF Due(worker[w].horizon) = {} THEN EndTick(w)
     ELSE /\ worker' = [worker EXCEPT ![w] =
               [@ EXCEPT !.step = "claim",
                         !.moment = Earliest(Due(worker[w].horizon))]]
          /\ UNCHANGED session
  /\ UNCHANGED <<world, order, clock, faults>>

(* Not the code: a lease never runs out.                                    *)
UnleasedEver(a) == rows[a].owner = Nobody
Unleased(a) == rows[a].owner = Nobody \/ ~rows[a].live

(* claimDueActions: the first BatchSize free rows get this worker's lease. *)
Claimable(moment) == {a \in Due(moment) : Unleased(a)}

Claim(w) ==
  LET free == Claimable(worker[w].moment)
  IN /\ worker[w].step = "claim"
     /\ \E taken \in SUBSET free :
          /\ \/ Cardinality(taken) = BatchSize
             \/ Cardinality(free) < BatchSize /\ taken = free
          /\ \A a \in taken, b \in free \ taken : Before(a, b)
          /\ rows' = [a \in Actions |->
               IF a \in taken THEN [rows[a] EXCEPT !.owner = w, !.live = TRUE] ELSE rows[a]]
          /\ worker' = [worker EXCEPT ![w] = [@ EXCEPT !.step = "hold", !.batch = taken]]
     /\ UNCHANGED <<time, observed, answer, chronicle, session, order, clock, faults>>

(* Ownership is checked and the lease renewed before each action; a row    *)
(* that is no longer this worker's is skipped.                             *)
Hold(w) ==
  LET a == Turn(w)
  IN /\ worker[w].step = "hold"
     /\ worker[w].batch # {}
     /\ IF rows[a].owner = w /\ rows[a].status = "pending"
        THEN /\ rows' = [rows EXCEPT ![a] = [@ EXCEPT !.live = TRUE]]
             /\ worker' = [worker EXCEPT ![w] = [@ EXCEPT !.step = "execute"]]
        ELSE /\ worker' = [worker EXCEPT ![w] = [@ EXCEPT !.batch = Rest(w)]]
             /\ UNCHANGED rows
     /\ UNCHANGED <<time, observed, answer, chronicle, session, order, clock, faults>>

(* The rows of the state are those without completed_at, failed ones too,  *)
(* so an event takes failed actions off the schedule like any other. Their *)
(* rows may not be completed any more: the whole transaction then fails.   *)
(* Not the code: the executed action stays on the schedule.                *)
RemovedOthers(c) ==
  {a \in Replaces[c] \cap Actions : rows[a].status \in {"pending", "failed"}}

Removed(c) ==
  {a \in (Replaces[c] \cup {c}) \cap Actions : rows[a].status \in {"pending", "failed"}}
Violates(c) == \E a \in Removed(c) : rows[a].status = "failed"

(* The commit of an accepted command.                                      *)
Accept(c, at) ==
  /\ ~Violates(c)
  /\ time' = at
  /\ answer' = [answer EXCEPT ![c] = "accepted"]
  /\ chronicle' = Append(chronicle, <<c, at>>)
  /\ rows' = [a \in Actions |->
       IF a \in Removed(c)
       THEN [rows[a] EXCEPT !.status = "completed", !.owner = Nobody, !.live = FALSE]
       ELSE IF a \in Spawns[c] /\ rows[a].status = "absent" /\ at + Delay[a] <= MaxTime
       THEN Row(at + Delay[a]) ELSE rows[a]]
  /\ UNCHANGED observed

Reject(c) ==
  /\ c \notin Stubborn
  /\ answer' = [answer EXCEPT ![c] = "rejected"]
  /\ UNCHANGED <<time, observed, rows, chronicle>>

(* Not the code: every execution is taken for the first.                   *)
Forgotten(c) == "none"

(* What the journal of commands has for this command.                      *)
Recorded(c) == answer[c]

(* An action runs at its own moment or, if the world is already past it,   *)
(* at what the tick believes to be now.                                    *)
Moment(w) == Later(rows[Turn(w)].due, worker[w].now)

(* The action whose turn it is goes through executeCommand. An exception   *)
(* there ends the tick; the rest of the batch keeps its leases.            *)
Execute(w) ==
  LET a  == Turn(w)
      at == Moment(w)
      Done == worker' = [worker EXCEPT ![w] =
                [@ EXCEPT !.step = "hold", !.now = at, !.batch = Rest(w)]]
      Refused == worker' = [worker EXCEPT ![w] = [@ EXCEPT !.step = "mark"]]
  IN /\ worker[w].step = "execute"
     /\ \/ /\ Recorded(a) = "accepted"
           /\ Done /\ UNCHANGED <<world, session>>
        \/ /\ Recorded(a) = "rejected"
           /\ Refused /\ UNCHANGED <<world, session>>
        \/ /\ Recorded(a) = "none" /\ at >= time
           /\ Accept(a, at) /\ Done /\ UNCHANGED session
        \/ /\ Recorded(a) = "none" /\ at >= time
           /\ Reject(a) /\ Refused /\ UNCHANGED session
        \/ /\ Recorded(a) = "none"
           /\ at < time \/ Violates(a)
           /\ EndTick(w) /\ UNCHANGED world
     /\ UNCHANGED <<order, clock, faults>>

(* A rejected action is marked failed, by a statement of its own. If an    *)
(* event has completed the row in the meantime, the statement fails.       *)
MarkFailed(w) ==
  LET a == Turn(w)
  IN /\ worker[w].step = "mark"
     /\ IF rows[a].status = "completed"
        THEN EndTick(w) /\ UNCHANGED rows
        ELSE /\ rows' = [rows EXCEPT ![a] =
                  [@ EXCEPT !.status = "failed", !.owner = Nobody, !.live = FALSE]]
             /\ worker' = [worker EXCEPT ![w] = [@ EXCEPT !.step = "hold", !.batch = Rest(w)]]
             /\ UNCHANGED session
     /\ UNCHANGED <<time, observed, answer, chronicle, order, clock, faults>>

Finish(w) ==
  /\ worker[w].step = "hold"
  /\ worker[w].batch = {}
  /\ EndTick(w)
  /\ UNCHANGED <<world, order, clock, faults>>

(* leaseMs go by without a renewal.                                        *)
Expire(a) ==
  /\ rows[a].owner # Nobody /\ rows[a].live
  /\ rows' = [rows EXCEPT ![a] = [@ EXCEPT !.live = FALSE]]
  /\ UNCHANGED <<time, observed, answer, chronicle, session, worker, order, clock, faults>>

(* A worker dies; its session goes with it, its leases stay.               *)
Crash(w) ==
  /\ worker[w].step # "asleep" /\ faults < MaxFaults
  /\ faults' = faults + 1
  /\ EndTick(w)
  /\ UNCHANGED <<world, order, clock>>

(* The connection that carries the advisory lock breaks. The statements of *)
(* the tick run on other connections of the pool and go on.                *)
LoseSession ==
  /\ session # Nobody /\ faults < MaxFaults
  /\ faults' = faults + 1
  /\ session' = Nobody
  /\ UNCHANGED <<world, worker, order, clock>>

(* The operator asks what time it is in the world, Later(observed, time),  *)
(* or names a moment himself (--at-world-time), past or still to come ...  *)
Ask(c, at) ==
  /\ order = NoOrder
  /\ order' = <<c, at>>
  /\ UNCHANGED <<world, session, worker, clock, faults>>

(* ... and executes his command at that moment. A second time it only      *)
(* returns its answer; a moment already gone is an exception.              *)
Obey ==
  /\ order # NoOrder
  /\ order' = NoOrder
  /\ LET c == order[1] at == order[2]
     IN \/ /\ Recorded(c) = "none" /\ at >= time
           /\ Accept(c, at) \/ Reject(c)
        \/ /\ Recorded(c) # "none" \/ at < time \/ Violates(c)
           /\ UNCHANGED world
  /\ UNCHANGED <<session, worker, clock, faults>>

Work(w) ==
  \/ Observe(w) \/ Look(w) \/ Claim(w) \/ Hold(w)
  \/ Execute(w) \/ MarkFailed(w) \/ Finish(w)

Next ==
  \/ Advance \/ LoseSession \/ Obey
  \/ \E w \in Workers :
       TryLock(w) \/ Work(w) \/ Crash(w) \/ \E horizon \in Times : Read(w, horizon)
  \/ \E a \in Actions : Expire(a)
  \/ \E c \in Orders, at \in Times : Ask(c, at)

Spec == Init /\ [][Next]_vars

(* Workers poll, a tick runs on, leases run out, the tempo moves the       *)
(* horizon and the worker passes that horizon. Nothing makes a worker die  *)
(* or an operator act; what he began, he ends.                             *)
Fairness ==
  /\ \A w \in Workers : WF_vars(TryLock(w)) /\ WF_vars(Work(w)) /\ SF_vars(Read(w, clock))
  /\ \A a \in Actions : WF_vars(Expire(a))
  /\ WF_vars(Advance) /\ WF_vars(Obey)

FairSpec == Spec /\ Fairness

-----------------------------------------------------------------------------
(* Every variable holds values of its kind.                                *)
TypeOK ==
  /\ time \in Times /\ observed \in Times /\ clock \in Times
  /\ rows \in [Actions -> Rows]
  /\ answer \in [Commands -> {"none", "accepted", "rejected"}]
  /\ chronicle \in Seq(Commands \X Times)
  /\ session \in Workers \cup {Nobody}
  /\ worker \in [Workers -> Ticks]
  /\ order \in {NoOrder} \cup (Orders \X Times)
  /\ faults \in 0 .. MaxFaults

(* The world never runs ahead of what it was seen to have reached, nor     *)
(* that ahead of the tempo. An operator may move it past either, by naming *)
(* a moment or a horizon; so this is a property of steps by the tempo, in  *)
(* which nobody does.                                                      *)
ByTempo ==
  /\ \A w \in Workers, horizon \in Times : Read(w, horizon) => horizon <= clock
  /\ \A c \in Orders, at \in Times : Ask(c, at) => at = Later(observed, time)

WithinTempo == time <= observed /\ observed <= clock

(* Whatever the horizons and the moments anybody named: an action moves the*)
(* world no further than a tick has noted, before it claimed the action, as*)
(* seen; past that, only a command of the operator does.                   *)
NothingUnseen ==
  [][\A a \in Actions :
       answer[a] = "none" /\ answer'[a] = "accepted" => time' <= Later(observed, time)]_vars

(* As long as no session is lost, only the holder of the advisory lock is  *)
(* inside a tick, and the lock is never left behind by a tick that is over.*)
OneTick ==
  \A w \in Workers :
    /\ session = w => worker[w].step # "asleep"
    /\ worker[w].step # "asleep" /\ faults = 0 => session = w

(* The schedule and the journal of commands agree after every crash, lease *)
(* race and late mark: a failed row was rejected, an executed action is off*)
(* the schedule, a row that is done with belongs to nobody.                *)
RowsTellOutcome ==
  \A a \in Actions :
    /\ rows[a].status = "failed" => answer[a] = "rejected"
    /\ answer[a] = "accepted" => rows[a].status = "completed"
    /\ rows[a].status # "pending" => rows[a].owner = Nobody

(* An action happens once, even if two workers hold it one after the other,*)
(* or at once, because a lease ran out or the advisory lock was lost.      *)
HappensOnce ==
  \A i, j \in DOMAIN chronicle : chronicle[i][1] = chronicle[j][1] => i = j

(* Discrete-event time: an action is executed at its due time or, if the   *)
(* world was moved past that, at the time of the world; never ahead of it  *)
(* and never at the horizon merely because the tick was allowed that far.  *)
AtItsMoment ==
  [][\A a \in Actions :
       answer[a] = "none" /\ answer'[a] = "accepted" => time' = Later(rows[a].due, time)]_vars

(* No action overtakes one that is due earlier, whatever the horizons, the *)
(* sizes of the batches and the crashes (an operator, who may schedule     *)
(* something behind the back of a running tick, left aside). It takes the  *)
(* advisory lock, or actions that do not take each other off the schedule: *)
(* see SchedulerProofs.                                                    *)
InDueOrder ==
  [][\A a \in Actions :
       answer[a] = "none" /\ answer'[a] = "accepted" /\ (\A c \in Orders : answer[c] = "none") =>
         \A b \in Pending : rows[b].due >= rows[a].due]_vars

(* An action that would take a failed one off the schedule cannot be saved:*)
(* the tick that gets to it is aborted, and so is every tick after it.     *)
(* While it is the first of what is due, whatever comes later must wait.   *)
Jammed == \E a \in Due(clock) :
  answer[a] = "none" /\ Violates(a) /\ \A b \in Due(clock) \ {a} : Before(a, b)

(* Whatever becomes due is dealt with in the end, executed, taken off by   *)
(* another event, or marked failed; again and again nothing at all is left *)
(* due, and nothing is retried for ever - unless the schedule is jammed.   *)
(* Even then all that stands before the jam has been dealt with.           *)
ScheduleServed == Due(clock) # {} ~> Due(clock) = {} \/ Jammed
=============================================================================
