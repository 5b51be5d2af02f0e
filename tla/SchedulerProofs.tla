--------------------------- MODULE SchedulerProofs ----------------------------
(***************************************************************************)
(* Proofs about Scheduler, for any number of workers, actions and orders,  *)
(* any size of a batch and any schedule. What a tick remembers from one    *)
(* statement to the next may be stale in every way but those TickSound     *)
(* lists; these are enough, without the advisory lock and without leases.  *)
(***************************************************************************)
EXTENDS Story, TLAPS, WellFoundedInduction, FiniteSetTheorems

(* A set of natural numbers that is not empty has a least element.         *)
LEMMA LeastNat ==
  ASSUME NEW S, S \subseteq Nat, S # {}
  PROVE  \E m \in S : \A n \in S : m <= n
<1>1. \E m \in S : \A n \in S : <<n, m>> \notin OpToRel(<, Nat)
  BY NatLessThanWellFounded, WFMin
<1>2. PICK m \in S : \A n \in S : <<n, m>> \notin OpToRel(<, Nat)
  BY <1>1
<1>3. ASSUME NEW n \in S PROVE m <= n
  <2>1. ~(n < m)
    BY <1>2 DEF OpToRel
  <2>2. QED
    BY <2>1
<1>4. QED
  BY <1>3

(* A row has a moment and a number.                                        *)
LEMMA RowIsNumbered ==
  ASSUME TypeOK, NEW a \in Actions
  PROVE  a \in Nat /\ rows[a].due \in Nat
<1>1. rows[a] \in Rows /\ a \in Nat
  BY ScheduleAssumption DEF TypeOK
<1>2. rows[a].due \in Times
  BY <1>1 DEF Rows
<1>3. QED
  BY <1>1, <1>2 DEF Times

(* Rows are ordered: by their moment, then by their number.                *)
LEMMA FirstIsLeast ==
  ASSUME TypeOK, NEW batch, batch \subseteq Actions, batch # {}
  PROVE  /\ First(batch) \in batch
         /\ \A b \in batch \ {First(batch)} : Before(First(batch), b)
<1>1. \A a \in batch : a \in Nat /\ rows[a].due \in Nat
  BY RowIsNumbered
<1> DEFINE dues == {rows[a].due : a \in batch}
<1>2. PICK d \in dues : \A n \in dues : d <= n
  <2>1. dues \subseteq Nat /\ dues # {}
    BY <1>1
  <2> HIDE DEF dues
  <2>2. QED
    BY <2>1, LeastNat
<1> DEFINE early == {a \in batch : rows[a].due = d}
<1>3. PICK m \in early : \A n \in early : m <= n
  <2>1. early \subseteq Nat /\ early # {}
    BY <1>1, <1>2
  <2> HIDE DEF early
  <2>2. QED
    BY <2>1, LeastNat
<1>4. m \in batch /\ \A b \in batch \ {m} : Before(m, b)
  <2>1. SUFFICES ASSUME NEW b \in batch \ {m} PROVE Before(m, b)
    BY <1>3
  <2>2. rows[m].due = d /\ d <= rows[b].due /\ m \in Nat /\ b \in Nat
        /\ d \in Nat /\ rows[b].due \in Nat
    BY <1>1, <1>2, <1>3
  <2>3. CASE rows[b].due = d
    <3>1. m <= b /\ m # b
      BY <1>3, <2>3
    <3>2. QED
      BY <2>2, <2>3, <3>1 DEF Before
  <2>4. CASE rows[b].due # d
    BY <2>2, <2>4 DEF Before
  <2>5. QED
    BY <2>3, <2>4
<1>5. QED
  BY <1>4 DEF First

(* The earliest moment of a set of rows is the moment of one of them.      *)
LEMMA EarliestIsDue ==
  ASSUME TypeOK, NEW set, set \subseteq Actions, set # {}
  PROVE  /\ \E a \in set : Earliest(set) = rows[a].due
         /\ \A a \in set : Earliest(set) <= rows[a].due
<1> DEFINE dues == {rows[a].due : a \in set}
<1>1. dues \subseteq Nat /\ dues # {}
  BY DEF TypeOK, Rows, Times
<1>2. \E t \in dues : \A n \in dues : t <= n
  <2> HIDE DEF dues
  <2>1. QED
    BY <1>1, LeastNat
<1>3. \E t \in dues : \A a \in set : t <= rows[a].due
  BY <1>2
<1>4. Earliest(set) \in dues /\ \A a \in set : Earliest(set) <= rows[a].due
  BY <1>3 DEF Earliest
<1>5. QED
  BY <1>4

-----------------------------------------------------------------------------
Claiming == {"claim", "hold", "execute", "mark"}

(* What a tick may still rely on when it uses what it read earlier.        *)
Sound(w) ==
  LET k == worker[w]
  IN /\ k.now <= time
     /\ k.step \in Claiming \cup {"look"} => k.horizon <= observed
     /\ k.step \in Claiming => k.moment <= k.horizon
     /\ \A a \in k.batch : rows[a].status # "absent" /\ rows[a].due <= k.moment
     /\ k.step \in {"asleep", "start", "observe", "look", "claim"} => k.batch = {}
     /\ k.step \in {"execute", "mark"} => k.batch # {}
     /\ k.step = "mark" =>
          \A a \in k.batch :
            (\A b \in k.batch \ {a} : Before(a, b)) => answer[a] = "rejected"

TickSound == \A w \in Workers : Sound(w)

(* The journal of commands knows what happened, and nothing that happened  *)
(* was ahead of its time.                                                  *)
ChronicleTold ==
  /\ \A i \in DOMAIN chronicle : answer[chronicle[i][1]] = "accepted"
  /\ \A a \in Actions : answer[a] = "accepted" => rows[a].due <= time

IInv ==
  /\ TypeOK /\ OneTick /\ RowsTellOutcome /\ HappensOnce
  /\ TickSound /\ ChronicleTold

LEMMA InitIInv == Init => IInv
<1> SUFFICES ASSUME Init PROVE IInv
  OBVIOUS
<1>0. 0 \in Times
  BY ScheduleAssumption DEF Times
<1>1. Asleep \in Ticks
  BY <1>0 DEF Asleep, Ticks
<1>2. rows \in [Actions -> Rows]
  <2>1. NoRow \in Rows
    BY <1>0 DEF NoRow, Rows, Statuses
  <2>2. ASSUME NEW a \in Actions, Delay[a] <= MaxTime PROVE Row(Delay[a]) \in Rows
    BY <2>2, ScheduleAssumption DEF Row, Rows, Statuses, Times
  <2>3. QED
    BY <2>1, <2>2 DEF Init
<1>3. TypeOK
  BY <1>0, <1>1, <1>2, ScheduleAssumption DEF Init, TypeOK, Times
<1>4. OneTick /\ HappensOnce /\ ChronicleTold
  BY ScheduleAssumption DEF Init, OneTick, HappensOnce, ChronicleTold, Asleep, Commands
<1>5. RowsTellOutcome
  BY DEF Init, RowsTellOutcome, Row, NoRow, Commands
<1>6. TickSound
  BY DEF Init, TickSound, Sound, Asleep, Claiming
<1>7. QED
  BY <1>3, <1>4, <1>5, <1>6 DEF IInv

-----------------------------------------------------------------------------
(* What a step may do to the tables of the world, whoever takes it.        *)
Happens(c, at) ==
  /\ c \in Commands /\ at \in Times /\ time <= at
  /\ answer[c] = "none"
  /\ c \in Actions => rows[c].status # "absent" /\ rows[c].due <= at
  /\ Accept(c, at)

Refuses(c) == c \in Commands /\ answer[c] = "none" /\ Reject(c)

Leases ==
  /\ rows' \in [Actions -> Rows]
  /\ \A a \in Actions :
       /\ rows'[a].due = rows[a].due /\ rows'[a].status = rows[a].status
       /\ a \notin Pending => rows'[a] = rows[a]
  /\ UNCHANGED <<time, observed, answer, chronicle>>

Fails(a) ==
  /\ a \in Actions /\ answer[a] = "rejected"
  /\ rows[a].status \in {"pending", "failed"}
  /\ rows' = [rows EXCEPT ![a] =
       [@ EXCEPT !.status = "failed", !.owner = Nobody, !.live = FALSE]]
  /\ UNCHANGED <<time, observed, answer, chronicle>>

Sees ==
  /\ observed' \in Times /\ observed <= observed'
  /\ UNCHANGED <<time, rows, answer, chronicle>>

WorldStep ==
  \/ \E c \in Commands, at \in Times : Happens(c, at)
  \/ \E c \in Commands : Refuses(c)
  \/ \E a \in Actions : Fails(a)
  \/ Leases \/ Sees \/ UNCHANGED world

(* A tick with work left has a turn, and it is one of its batch.           *)
LEMMA TurnInBatch ==
  ASSUME TypeOK, NEW w \in Workers, worker[w].batch # {}
  PROVE  /\ Turn(w) \in worker[w].batch /\ Turn(w) \in Actions
         /\ \A b \in worker[w].batch \ {Turn(w)} : Before(Turn(w), b)
         /\ Rest(w) \in SUBSET Actions /\ Rest(w) \subseteq worker[w].batch
<1>1. worker[w].batch \subseteq Actions
  BY DEF TypeOK, Ticks
<1>2. QED
  BY <1>1, FirstIsLeast DEF Turn, Rest

(* The moment an action is executed at is one the world may have: it is    *)
(* due by then, and the world was seen to have reached it or is there.     *)
LEMMA MomentIsSeen ==
  ASSUME IInv, NEW w \in Workers, worker[w].step = "execute"
  PROVE  /\ Turn(w) \in Actions /\ rows[Turn(w)].status # "absent"
         /\ rows[Turn(w)].due \in Times /\ worker[w].now \in Times
         /\ Moment(w) \in Times /\ Moment(w) <= Later(observed, time)
         /\ rows[Turn(w)].due <= Moment(w) /\ worker[w].now <= Moment(w)
         /\ Moment(w) \in {rows[Turn(w)].due, worker[w].now}
<1>1. TypeOK /\ Sound(w)
  BY DEF IInv, TickSound
<1>2. worker[w].batch # {}
  BY <1>1 DEF Sound
<1>3. Turn(w) \in worker[w].batch /\ Turn(w) \in Actions
  BY <1>1, <1>2, TurnInBatch
<1>4. /\ rows[Turn(w)].status # "absent" /\ rows[Turn(w)].due <= worker[w].moment
      /\ worker[w].moment <= worker[w].horizon /\ worker[w].horizon <= observed
      /\ worker[w].now <= time
  BY <1>1, <1>3 DEF Sound, Claiming
<1>5. /\ rows[Turn(w)].due \in Times /\ worker[w].moment \in Times
      /\ worker[w].horizon \in Times /\ worker[w].now \in Times
      /\ time \in Times /\ observed \in Times
  BY <1>1, <1>3 DEF TypeOK, Ticks, Rows
<1>6. QED
  BY <1>3, <1>4, <1>5 DEF Moment, Later, Times

(* Every step leaves the tables alone or changes them in one of five ways. *)
LEMMA StepKinds ==
  ASSUME IInv, [Next]_vars
  PROVE  WorldStep
<1>0. TypeOK /\ RowsTellOutcome
  BY DEF IInv
<1>1. ASSUME NEW w \in Workers, Observe(w) PROVE Sees
  <2>1. worker[w].horizon \in Times
    BY <1>0 DEF TypeOK, Ticks
  <2>2. observed \in Times
    BY <1>0 DEF TypeOK
  <2>3. QED
    BY <1>1, <2>1, <2>2 DEF Observe, Seen, Later, Sees, Times
<1>2. ASSUME NEW w \in Workers, Claim(w) PROVE Leases
  <2>1. PICK taken \in SUBSET Claimable(worker[w].moment) :
          rows' = [a \in Actions |->
            IF a \in taken THEN [rows[a] EXCEPT !.owner = w, !.live = TRUE] ELSE rows[a]]
    BY <1>2 DEF Claim
  <2>2. taken \subseteq Pending
    BY DEF Claimable, Due
  <2>3. /\ \A a \in Actions \ taken : rows'[a] = rows[a]
        /\ \A a \in taken : rows'[a] = [rows[a] EXCEPT !.owner = w, !.live = TRUE]
    BY <2>1, <2>2 DEF Pending
  <2>4. ASSUME NEW a \in Actions
        PROVE  /\ rows'[a] \in Rows
               /\ rows'[a].due = rows[a].due /\ rows'[a].status = rows[a].status
    <3>1. rows[a] \in Rows
      BY <1>0 DEF TypeOK
    <3>2. CASE a \in taken
      <4>1. rows'[a] = [rows[a] EXCEPT !.owner = w, !.live = TRUE]
        BY <2>3, <3>2
      <4>2. QED
        BY <3>1, <4>1 DEF Rows
    <3>3. CASE a \notin taken
      BY <2>3, <3>1, <3>3
    <3>4. QED
      BY <3>2, <3>3
  <2>5. rows' \in [Actions -> Rows]
    BY <2>1, <2>4
  <2>6. QED
    BY <1>2, <2>2, <2>3, <2>4, <2>5 DEF Claim, Leases
<1>3. ASSUME NEW w \in Workers, Hold(w) PROVE Leases \/ UNCHANGED world
  <2>1. worker[w].batch # {}
    BY <1>3 DEF Hold
  <2>2. Turn(w) \in Actions
    BY <1>0, <2>1, TurnInBatch
  <2>3. CASE rows[Turn(w)].owner = w /\ rows[Turn(w)].status = "pending"
    <3>1. rows' = [rows EXCEPT ![Turn(w)] = [@ EXCEPT !.live = TRUE]]
      BY <1>3, <2>3 DEF Hold
    <3>2. Turn(w) \in Pending
      BY <2>2, <2>3 DEF Pending
    <3>3. rows \in [Actions -> Rows]
      BY <1>0 DEF TypeOK
    <3>4. [rows[Turn(w)] EXCEPT !.live = TRUE] \in Rows
      BY <2>2, <3>3 DEF Rows
    <3>5. /\ rows' \in [Actions -> Rows]
          /\ \A a \in Actions :
               /\ rows'[a].due = rows[a].due /\ rows'[a].status = rows[a].status
               /\ a \notin Pending => rows'[a] = rows[a]
      BY <2>2, <3>1, <3>2, <3>3, <3>4
    <3>6. UNCHANGED <<time, observed, answer, chronicle>>
      BY <1>3 DEF Hold
    <3>7. QED
      BY <3>5, <3>6 DEF Leases
  <2>4. CASE ~(rows[Turn(w)].owner = w /\ rows[Turn(w)].status = "pending")
    BY <1>3, <2>4 DEF Hold, world
  <2>5. QED
    BY <2>3, <2>4
<1>4. ASSUME NEW w \in Workers, Execute(w)
      PROVE  \/ UNCHANGED world
             \/ Happens(Turn(w), Moment(w))
             \/ Refuses(Turn(w))
  <2>1. worker[w].step = "execute"
    BY <1>4 DEF Execute
  <2>2. /\ Turn(w) \in Actions /\ rows[Turn(w)].status # "absent"
        /\ Moment(w) \in Times /\ rows[Turn(w)].due <= Moment(w) /\ time \in Times
    BY <1>0, <2>1, MomentIsSeen DEF TypeOK
  <2>3. CASE UNCHANGED world
    BY <2>3
  <2>4. CASE answer[Turn(w)] = "none" /\ Moment(w) >= time /\ Accept(Turn(w), Moment(w))
    BY <2>2, <2>4 DEF Happens, Commands, Times
  <2>5. CASE answer[Turn(w)] = "none" /\ Reject(Turn(w))
    BY <2>2, <2>5 DEF Refuses, Commands
  <2>6. QED
    BY <1>4, <2>3, <2>4, <2>5 DEF Execute, Recorded
<1>5. ASSUME NEW w \in Workers, MarkFailed(w) PROVE Fails(Turn(w)) \/ UNCHANGED world
  <2>1. worker[w].step = "mark" /\ Sound(w)
    BY <1>5 DEF MarkFailed, IInv, TickSound
  <2>2. worker[w].batch # {}
    BY <2>1 DEF Sound
  <2>3. /\ Turn(w) \in Actions /\ Turn(w) \in worker[w].batch
        /\ \A b \in worker[w].batch \ {Turn(w)} : Before(Turn(w), b)
    BY <1>0, <2>2, TurnInBatch
  <2>4. answer[Turn(w)] = "rejected" /\ rows[Turn(w)].status # "absent"
    BY <2>1, <2>3 DEF Sound
  <2>5. rows[Turn(w)].status \in Statuses
    BY <1>0, <2>3 DEF TypeOK, Rows
  <2>6. QED
    BY <1>5, <2>3, <2>4, <2>5 DEF MarkFailed, Fails, Statuses, world
<1>6. ASSUME NEW a \in Actions, Expire(a) PROVE Leases
  <2>1. a \in Pending
    BY <1>0, <1>6 DEF Expire, RowsTellOutcome, Pending
  <2>2. QED
    BY <1>0, <1>6, <2>1 DEF Expire, Leases, TypeOK, Rows
<1>7. ASSUME Obey
      PROVE  \/ UNCHANGED world
             \/ Happens(order[1], order[2])
             \/ Refuses(order[1])
  <2>1. order[1] \in Orders /\ order[2] \in Times
    BY <1>0, <1>7 DEF Obey, TypeOK, NoOrder
  <2>2. order[1] \in Commands /\ order[1] \notin Actions /\ time \in Times
    BY <1>0, <2>1, ScheduleAssumption DEF Commands, TypeOK
  <2>3. QED
    BY <1>7, <2>1, <2>2 DEF Obey, Happens, Refuses, Recorded, Times
<1>8. ASSUME NEW w \in Workers,
             \/ TryLock(w) \/ Look(w) \/ Finish(w) \/ Crash(w)
             \/ \E horizon \in Times : Read(w, horizon)
      PROVE  UNCHANGED world
  BY <1>8 DEF TryLock, Look, Finish, Crash, Read
<1>9. ASSUME Advance \/ LoseSession \/ \E c \in Orders, at \in Times : Ask(c, at)
      PROVE  UNCHANGED world
  BY <1>9 DEF Advance, LoseSession, Ask
<1>10. CASE Next
  <2>1. ASSUME NEW w \in Workers, Observe(w) PROVE WorldStep
    BY <1>1, <2>1 DEF WorldStep
  <2>2. ASSUME NEW w \in Workers, Claim(w) \/ Hold(w) PROVE WorldStep
    BY <1>2, <1>3, <2>2 DEF WorldStep
  <2>3. ASSUME NEW w \in Workers, Execute(w) PROVE WorldStep
    BY <1>4, <2>3 DEF WorldStep, Happens, Refuses
  <2>4. ASSUME NEW w \in Workers, MarkFailed(w) PROVE WorldStep
    BY <1>5, <2>4 DEF WorldStep, Fails
  <2>5. ASSUME Obey PROVE WorldStep
    BY <1>7, <2>5 DEF WorldStep, Happens, Refuses
  <2>6. ASSUME UNCHANGED world \/ \E a \in Actions : Expire(a) PROVE WorldStep
    BY <1>6, <2>6 DEF WorldStep
  <2>7. ASSUME NEW w \in Workers,
               TryLock(w) \/ Work(w) \/ Crash(w) \/ \E horizon \in Times : Read(w, horizon)
        PROVE  WorldStep
    BY <1>8, <2>1, <2>2, <2>3, <2>4, <2>6, <2>7 DEF Work
  <2>8. ASSUME Advance \/ LoseSession \/ \E c \in Orders, at \in Times : Ask(c, at)
        PROVE  WorldStep
    BY <1>9, <2>6, <2>8
  <2>9. CASE \E w \in Workers :
          TryLock(w) \/ Work(w) \/ Crash(w) \/ \E horizon \in Times : Read(w, horizon)
    BY <2>7, <2>9
  <2>10. CASE \E a \in Actions : Expire(a)
    BY <2>6, <2>10
  <2>11. QED
    BY <1>10, <2>5, <2>8, <2>9, <2>10 DEF Next
<1>11. CASE UNCHANGED vars
  BY <1>11 DEF vars, world, WorldStep
<1>12. QED
  BY <1>10, <1>11

-----------------------------------------------------------------------------
(* Nothing a worker may have read is taken back: a row that exists keeps   *)
(* its moment, time and the observed time do not run backwards, an answer  *)
(* is for good.                                                            *)
Onwards ==
  /\ time <= time' /\ observed <= observed'
  /\ \A a \in Actions :
       rows[a].status # "absent" =>
         rows'[a].due = rows[a].due /\ rows'[a].status # "absent"
  /\ \A c \in Commands : answer[c] # "none" => answer'[c] = answer[c]

(* The tables of the world keep their types, whatever happens to them.     *)
TablesOK ==
  /\ time \in Times /\ observed \in Times
  /\ rows \in [Actions -> Rows]
  /\ answer \in [Commands -> {"none", "accepted", "rejected"}]
  /\ chronicle \in Seq(Commands \X Times)

(* What an accepted command makes of one row.                              *)
LEMMA AcceptedRow ==
  ASSUME TypeOK, NEW c \in Commands, NEW at \in Times, Happens(c, at), NEW a \in Actions
  PROVE  /\ rows'[a] \in Rows
         /\ \/ /\ a \in Removed(c) /\ rows[a].status = "pending"
               /\ rows'[a].status = "completed" /\ rows'[a].owner = Nobody
               /\ rows'[a].due = rows[a].due
            \/ /\ a \notin Removed(c) /\ rows[a].status = "absent"
               /\ rows'[a].status = "pending"
            \/ a \notin Removed(c) /\ rows'[a] = rows[a]
<1>1. rows[a] \in Rows /\ rows[a].status \in Statuses
  BY DEF TypeOK, Rows
<1>2. rows'[a] =
        IF a \in Removed(c)
        THEN [rows[a] EXCEPT !.status = "completed", !.owner = Nobody, !.live = FALSE]
        ELSE IF a \in Spawns[c] /\ rows[a].status = "absent" /\ at + Delay[a] <= MaxTime
        THEN Row(at + Delay[a]) ELSE rows[a]
  BY DEF Happens, Accept
<1>3. CASE a \in Removed(c)
  <2>1. rows[a].status = "pending"
    BY <1>1, <1>3 DEF Happens, Accept, Violates, Removed
  <2>2. rows'[a] = [rows[a] EXCEPT !.status = "completed", !.owner = Nobody, !.live = FALSE]
    BY <1>2, <1>3
  <2>3. QED
    BY <1>1, <1>3, <2>1, <2>2 DEF Rows, Statuses
<1>4. CASE a \notin Removed(c) /\ a \in Spawns[c] /\ rows[a].status = "absent"
             /\ at + Delay[a] <= MaxTime
  <2>1. rows'[a] = Row(at + Delay[a])
    BY <1>2, <1>4
  <2>2. at + Delay[a] \in Times
    BY <1>4, ScheduleAssumption DEF Times
  <2>3. QED
    BY <1>4, <2>1, <2>2 DEF Row, Rows, Statuses
<1>5. CASE a \notin Removed(c) /\ rows'[a] = rows[a]
  BY <1>1, <1>5
<1>6. QED
  BY <1>2, <1>3, <1>4, <1>5

LEMMA OnwardsStep ==
  ASSUME IInv, WorldStep
  PROVE  Onwards /\ TablesOK'
<1>0. TypeOK /\ TablesOK /\ time \in Nat /\ observed \in Nat
  BY DEF IInv, TypeOK, TablesOK, Times
<1>1. ASSUME NEW c \in Commands, NEW at \in Times, Happens(c, at) PROVE Onwards /\ TablesOK'
  <2>1. /\ time' = at /\ observed' = observed /\ time <= at
        /\ answer' = [answer EXCEPT ![c] = "accepted"] /\ answer[c] = "none"
        /\ chronicle' = Append(chronicle, <<c, at>>)
    BY <1>1 DEF Happens, Accept
  <2>2. \A a \in Actions :
          /\ rows'[a] \in Rows
          /\ rows[a].status # "absent" =>
               rows'[a].due = rows[a].due /\ rows'[a].status # "absent"
    BY <1>0, <1>1, AcceptedRow
  <2>3. rows' \in [Actions -> Rows]
    BY <1>1, <2>2 DEF Happens, Accept
  <2>4. QED
    BY <1>0, <2>1, <2>2, <2>3 DEF Onwards, TablesOK
<1>2. ASSUME NEW c \in Commands, Refuses(c) PROVE Onwards /\ TablesOK'
  BY <1>0, <1>2 DEF Refuses, Reject, Onwards, TablesOK
<1>3. ASSUME NEW a \in Actions, Fails(a) PROVE Onwards /\ TablesOK'
  <2>1. rows[a] \in Rows
    BY <1>0 DEF TablesOK
  <2>2. [rows[a] EXCEPT !.status = "failed", !.owner = Nobody, !.live = FALSE] \in Rows
    BY <2>1 DEF Rows, Statuses
  <2>3. TablesOK'
    BY <1>0, <1>3, <2>2 DEF Fails, TablesOK
  <2>4. Onwards
    BY <1>0, <1>3, <2>1 DEF Fails, TablesOK, Onwards, Rows
  <2>5. QED
    BY <2>3, <2>4
<1>4. ASSUME Leases PROVE Onwards /\ TablesOK'
  BY <1>0, <1>4 DEF Leases, Onwards, TablesOK
<1>5. ASSUME Sees PROVE Onwards /\ TablesOK'
  BY <1>0, <1>5 DEF Sees, Onwards, TablesOK
<1>6. ASSUME UNCHANGED world PROVE Onwards /\ TablesOK'
  BY <1>0, <1>6 DEF world, Onwards, TablesOK
<1>7. QED
  BY <1>1, <1>2, <1>3, <1>4, <1>5, <1>6 DEF WorldStep

(* The tick of w goes on to the next statement with a well-typed memory.   *)
LEMMA TypeStep ==
  ASSUME IInv, [Next]_vars
  PROVE  TypeOK'
<1>0. TypeOK /\ TablesOK' /\ MaxTime \in Nat /\ MaxFaults \in Nat
  BY StepKinds, OnwardsStep, ScheduleAssumption DEF IInv
<1>1. Asleep \in Ticks
  BY <1>0 DEF Asleep, Ticks, Times
<1>2. \A w \in Workers : worker[w] \in Ticks
  BY <1>0 DEF TypeOK
<1> DEFINE LocalOK == /\ clock \in Times /\ session \in Workers \cup {Nobody}
                      /\ worker \in [Workers -> Ticks]
                      /\ order \in {NoOrder} \cup (Orders \X Times) /\ faults \in 0 .. MaxFaults
<1>3. LocalOK /\ time \in Times /\ observed \in Times
  BY <1>0 DEF TypeOK
<1>4. ASSUME NEW w \in Workers, EndTick(w), UNCHANGED <<clock, order, faults>> PROVE LocalOK'
  BY <1>1, <1>3, <1>4 DEF EndTick
<1>5. ASSUME NEW w \in Workers, TryLock(w) PROVE LocalOK'
  BY <1>1, <1>3, <1>5 DEF TryLock, Asleep, Ticks
<1>6. ASSUME NEW w \in Workers, NEW horizon \in Times, Read(w, horizon) PROVE LocalOK'
  <2>1. CASE horizon < time
    BY <1>4, <1>6, <2>1 DEF Read
  <2>2. CASE ~(horizon < time)
    <3>1. [worker[w] EXCEPT !.step = "observe", !.horizon = horizon, !.now = time] \in Ticks
      BY <1>2, <1>3 DEF Ticks
    <3>2. QED
      BY <1>3, <1>6, <2>2, <3>1 DEF Read
  <2>3. QED
    BY <2>1, <2>2
<1>7. ASSUME NEW w \in Workers, Observe(w) PROVE LocalOK'
  BY <1>2, <1>3, <1>7 DEF Observe, Ticks
<1>8. ASSUME NEW w \in Workers, Look(w) PROVE LocalOK'
  <2>1. CASE Due(worker[w].horizon) = {}
    BY <1>4, <1>8, <2>1 DEF Look
  <2>2. CASE Due(worker[w].horizon) # {}
    <3>1. Due(worker[w].horizon) \subseteq Actions
      BY DEF Due, Pending
    <3>2. Earliest(Due(worker[w].horizon)) \in Times
      <4>1. PICK a \in Due(worker[w].horizon) :
              Earliest(Due(worker[w].horizon)) = rows[a].due
        BY <1>0, <2>2, <3>1, EarliestIsDue
      <4>2. rows[a] \in Rows
        BY <1>0, <3>1 DEF TypeOK
      <4>3. QED
        BY <4>1, <4>2 DEF Rows
    <3>3. [worker[w] EXCEPT !.step = "claim",
             !.moment = Earliest(Due(worker[w].horizon))] \in Ticks
      BY <1>2, <3>2 DEF Ticks
    <3>4. QED
      BY <1>3, <1>8, <2>2, <3>3 DEF Look
  <2>3. QED
    BY <2>1, <2>2
<1>9. ASSUME NEW w \in Workers, Claim(w) PROVE LocalOK'
  <2>1. PICK taken \in SUBSET Claimable(worker[w].moment) :
          worker' = [worker EXCEPT ![w] = [@ EXCEPT !.step = "hold", !.batch = taken]]
    BY <1>9 DEF Claim
  <2>2. taken \in SUBSET Actions
    BY DEF Claimable, Due, Pending
  <2>3. [worker[w] EXCEPT !.step = "hold", !.batch = taken] \in Ticks
    BY <1>2, <2>2 DEF Ticks
  <2>4. QED
    BY <1>3, <1>9, <2>1, <2>3 DEF Claim
<1>10. ASSUME NEW w \in Workers, Hold(w) PROVE LocalOK'
  <2>1. Rest(w) \in SUBSET Actions
    BY <1>0, <1>10, TurnInBatch DEF Hold
  <2>2. QED
    BY <1>2, <1>3, <1>10, <2>1 DEF Hold, Ticks
<1>11. ASSUME NEW w \in Workers, Execute(w) PROVE LocalOK'
  <2>1. worker[w].step = "execute" /\ worker[w].batch # {}
    BY <1>11 DEF Execute, IInv, TickSound, Sound
  <2>2. Rest(w) \in SUBSET Actions /\ Moment(w) \in Times
    BY <1>0, <2>1, TurnInBatch, MomentIsSeen
  <2>3. CASE EndTick(w)
    BY <1>4, <1>11, <2>3 DEF Execute
  <2>4. CASE worker' = [worker EXCEPT ![w] = [@ EXCEPT !.step = "mark"]] /\ UNCHANGED session
    BY <1>2, <1>3, <1>11, <2>4 DEF Execute, Ticks
  <2>5. CASE /\ worker' = [worker EXCEPT ![w] =
                  [@ EXCEPT !.step = "hold", !.now = Moment(w), !.batch = Rest(w)]]
             /\ UNCHANGED session
    <3>1. [worker[w] EXCEPT !.step = "hold", !.now = Moment(w), !.batch = Rest(w)] \in Ticks
      BY <1>2, <2>2 DEF Ticks
    <3>2. QED
      BY <1>3, <1>11, <2>5, <3>1 DEF Execute
  <2>6. QED
    BY <1>11, <2>3, <2>4, <2>5 DEF Execute
<1>12. ASSUME NEW w \in Workers, MarkFailed(w) PROVE LocalOK'
  <2>1. worker[w].step = "mark" /\ worker[w].batch # {}
    BY <1>12 DEF MarkFailed, IInv, TickSound, Sound
  <2>2. Rest(w) \in SUBSET Actions
    BY <1>0, <2>1, TurnInBatch
  <2>3. CASE EndTick(w)
    BY <1>4, <1>12, <2>3 DEF MarkFailed
  <2>4. CASE /\ worker' = [worker EXCEPT ![w] = [@ EXCEPT !.step = "hold", !.batch = Rest(w)]]
             /\ UNCHANGED session
    <3>1. [worker[w] EXCEPT !.step = "hold", !.batch = Rest(w)] \in Ticks
      BY <1>2, <2>2 DEF Ticks
    <3>2. QED
      BY <1>3, <1>12, <2>4, <3>1 DEF MarkFailed
  <2>5. QED
    BY <1>12, <2>3, <2>4 DEF MarkFailed
<1>13. ASSUME NEW w \in Workers, Finish(w) PROVE LocalOK'
  BY <1>4, <1>13 DEF Finish
<1>14. ASSUME NEW w \in Workers, Crash(w) PROVE LocalOK'
  BY <1>0, <1>1, <1>3, <1>14 DEF Crash, EndTick
<1>15. ASSUME Advance \/ LoseSession PROVE LocalOK'
  BY <1>0, <1>3, <1>15 DEF Advance, LoseSession, Times
<1>16. ASSUME NEW c \in Orders, NEW at \in Times, Ask(c, at) PROVE LocalOK'
  BY <1>3, <1>16 DEF Ask
<1>17. ASSUME Obey PROVE LocalOK'
  BY <1>3, <1>17 DEF Obey
<1>18. ASSUME NEW a \in Actions, Expire(a) PROVE LocalOK'
  BY <1>3, <1>18 DEF Expire
<1>19. ASSUME UNCHANGED vars PROVE LocalOK'
  BY <1>3, <1>19 DEF vars
<1>20. LocalOK'
  BY <1>5, <1>6, <1>7, <1>8, <1>9, <1>10, <1>11, <1>12, <1>13, <1>14, <1>15,
     <1>16, <1>17, <1>18, <1>19 DEF Next, Work
<1>21. QED
  BY <1>0, <1>20 DEF TypeOK, TablesOK

-----------------------------------------------------------------------------
(* The schedule, the journal of commands and the chronicle stay in step.   *)
LEMMA OutcomeStep ==
  ASSUME IInv, WorldStep
  PROVE  RowsTellOutcome' /\ HappensOnce' /\ ChronicleTold'
<1>0. /\ TypeOK /\ RowsTellOutcome /\ HappensOnce /\ ChronicleTold
      /\ Actions \subseteq Commands /\ Onwards /\ time \in Nat
  BY OnwardsStep DEF IInv, Commands, TypeOK, Times
<1>1. ASSUME NEW c \in Commands, NEW at \in Times, Happens(c, at)
      PROVE  RowsTellOutcome' /\ HappensOnce' /\ ChronicleTold'
  <2>1. /\ answer' = [answer EXCEPT ![c] = "accepted"] /\ answer[c] = "none"
        /\ chronicle' = Append(chronicle, <<c, at>>) /\ time' = at /\ time <= at
        /\ c \in Actions => rows[c].status # "absent" /\ rows[c].due <= at
    BY <1>1 DEF Happens, Accept
  <2>2. chronicle \in Seq(Commands \X Times)
    BY <1>0 DEF TypeOK
  <2>3. \A i \in DOMAIN chronicle : chronicle[i][1] # c /\ chronicle[i][1] \in Commands
    BY <1>0, <2>1, <2>2 DEF ChronicleTold
  <2>4. HappensOnce'
    BY <1>0, <2>1, <2>2, <2>3 DEF HappensOnce
  <2>5. \A i \in DOMAIN chronicle' : answer'[chronicle'[i][1]] = "accepted"
    BY <1>0, <2>1, <2>2, <2>3 DEF ChronicleTold, TypeOK
  <2>6. ASSUME NEW a \in Actions, answer'[a] = "accepted" PROVE rows'[a].due <= time'
    <3>1. CASE a = c
      BY <1>0, <2>1, <3>1 DEF Onwards
    <3>2. CASE a # c
      <4>1. answer[a] = "accepted"
        BY <1>0, <2>1, <2>6, <3>2 DEF TypeOK
      <4>2. rows[a].due <= time /\ rows[a].status = "completed" /\ rows[a].due \in Nat
        BY <1>0, <4>1 DEF ChronicleTold, RowsTellOutcome, TypeOK, Rows, Times
      <4>3. rows'[a].due = rows[a].due
        BY <1>0, <4>2 DEF Onwards
      <4>4. QED
        BY <1>0, <2>1, <4>2, <4>3 DEF Times
    <3>3. QED
      BY <3>1, <3>2
  <2>7. ASSUME NEW a \in Actions
        PROVE  /\ rows'[a].status = "failed" => answer'[a] = "rejected"
               /\ answer'[a] = "accepted" => rows'[a].status = "completed"
               /\ rows'[a].status # "pending" => rows'[a].owner = Nobody
    <3>1. /\ a # c => answer'[a] = answer[a]
          /\ a = c => answer'[a] = "accepted"
      BY <1>0, <2>1 DEF TypeOK
    <3>2. rows[a].status \in Statuses
      BY <1>0 DEF TypeOK, Rows
    <3>3. a = c => a \in Removed(c) \/ rows[a].status = "completed"
      BY <2>1, <3>2 DEF Removed, Statuses
    <3>4. QED
      BY <1>0, <1>1, <2>1, <3>1, <3>3, AcceptedRow DEF RowsTellOutcome
  <2>8. QED
    BY <2>4, <2>5, <2>6, <2>7 DEF RowsTellOutcome, ChronicleTold
<1>2. ASSUME NEW c \in Commands, Refuses(c)
      PROVE  RowsTellOutcome' /\ HappensOnce' /\ ChronicleTold'
  <2>1. /\ answer' = [answer EXCEPT ![c] = "rejected"] /\ answer[c] = "none"
        /\ UNCHANGED <<time, rows, chronicle>>
    BY <1>2 DEF Refuses, Reject
  <2>2. \A i \in DOMAIN chronicle : chronicle[i][1] # c /\ chronicle[i][1] \in Commands
    BY <1>0, <2>1 DEF ChronicleTold, TypeOK
  <2>3. \A a \in Actions : answer[a] = "accepted" <=> answer'[a] = "accepted"
    BY <1>0, <2>1 DEF TypeOK
  <2>4. \A a \in Actions : answer[a] = "rejected" => answer'[a] = "rejected"
    BY <1>0, <2>1 DEF TypeOK
  <2>5. \A i \in DOMAIN chronicle : answer'[chronicle[i][1]] = "accepted"
    BY <1>0, <2>1, <2>2 DEF ChronicleTold, TypeOK
  <2>6. QED
    BY <1>0, <2>1, <2>3, <2>4, <2>5 DEF RowsTellOutcome, HappensOnce, ChronicleTold
<1>3. ASSUME NEW a \in Actions, Fails(a)
      PROVE  RowsTellOutcome' /\ HappensOnce' /\ ChronicleTold'
  <2>1. rows[a] \in Rows /\ rows[a].status \in {"pending", "failed"}
    BY <1>0, <1>3 DEF TypeOK, Fails
  <2>2. /\ \A b \in Actions \ {a} : rows'[b] = rows[b]
        /\ rows'[a].status = "failed" /\ rows'[a].owner = Nobody /\ rows'[a].due = rows[a].due
    BY <1>0, <1>3, <2>1 DEF Fails, TypeOK, Rows
  <2>3. UNCHANGED <<time, answer, chronicle>> /\ answer[a] = "rejected"
    BY <1>3 DEF Fails
  <2>4. QED
    BY <1>0, <2>2, <2>3 DEF RowsTellOutcome, HappensOnce, ChronicleTold
<1>4. ASSUME Leases PROVE RowsTellOutcome' /\ HappensOnce' /\ ChronicleTold'
  BY <1>0, <1>4 DEF Leases, Pending, RowsTellOutcome, HappensOnce, ChronicleTold
<1>5. ASSUME Sees \/ UNCHANGED world PROVE RowsTellOutcome' /\ HappensOnce' /\ ChronicleTold'
  BY <1>0, <1>5 DEF Sees, world, RowsTellOutcome, HappensOnce, ChronicleTold
<1>6. QED
  BY <1>1, <1>2, <1>3, <1>4, <1>5 DEF WorldStep

(* A tick goes on where it is, with its lock or without, or it is over.    *)
Moves(w) ==
  /\ UNCHANGED session
  /\ \E t : t.step # "asleep" /\ worker' = [worker EXCEPT ![w] = t]

LEMMA TickGoesOn ==
  ASSUME TypeOK, NEW w \in Workers, Work(w) \/ \E horizon \in Times : Read(w, horizon)
  PROVE  UNCHANGED faults /\ worker[w].step # "asleep" /\ (Moves(w) \/ EndTick(w))
<1>0. /\ worker[w] \in Ticks /\ UNCHANGED faults /\ worker[w].step # "asleep"
  BY DEF Work, Read, Observe, Look, Claim, Hold, Execute, MarkFailed, Finish, TypeOK
<1>1. ASSUME NEW horizon \in Times, Read(w, horizon) PROVE Moves(w) \/ EndTick(w)
  BY <1>0, <1>1 DEF Moves, Read, Ticks
<1>2. ASSUME Observe(w) \/ Look(w) PROVE Moves(w) \/ EndTick(w)
  BY <1>0, <1>2 DEF Moves, Observe, Look, Ticks
<1>3. ASSUME Claim(w) PROVE Moves(w) \/ EndTick(w)
  BY <1>0, <1>3 DEF Moves, Claim, Ticks
<1>4. ASSUME Hold(w) PROVE Moves(w) \/ EndTick(w)
  BY <1>0, <1>4 DEF Moves, Hold, Ticks
<1>5. ASSUME Execute(w) PROVE Moves(w) \/ EndTick(w)
  BY <1>0, <1>5 DEF Moves, Execute, Ticks
<1>6. ASSUME MarkFailed(w) \/ Finish(w) PROVE Moves(w) \/ EndTick(w)
  BY <1>0, <1>6 DEF Moves, MarkFailed, Finish, Ticks
<1>7. QED
  BY <1>0, <1>1, <1>2, <1>3, <1>4, <1>5, <1>6 DEF Work

(* While no session was lost, ticks exclude each other.                    *)
LEMMA OneTickStep ==
  ASSUME IInv, [Next]_vars
  PROVE  OneTick'
<1>0. /\ TypeOK /\ OneTick /\ Nobody \notin Workers /\ Asleep.step = "asleep"
      /\ faults \in Nat
  BY ScheduleAssumption DEF IInv, Asleep, TypeOK
<1>1. ASSUME NEW w \in Workers, EndTick(w), UNCHANGED faults PROVE OneTick'
  BY <1>0, <1>1 DEF EndTick, OneTick, TypeOK
<1>2. ASSUME UNCHANGED <<session, faults>>,
             \A v \in Workers : worker'[v].step = "asleep" <=> worker[v].step = "asleep"
      PROVE  OneTick'
  BY <1>0, <1>2 DEF OneTick
<1>3. ASSUME NEW w \in Workers, TryLock(w) PROVE OneTick'
  BY <1>0, <1>3 DEF TryLock, LockFree, OneTick, TypeOK, Asleep
<1>4. ASSUME NEW w \in Workers, Crash(w) PROVE OneTick'
  BY <1>0, <1>4 DEF Crash, EndTick, OneTick, TypeOK
<1>5. ASSUME LoseSession PROVE OneTick'
  BY <1>0, <1>5 DEF LoseSession, OneTick, TypeOK
<1>6. ASSUME NEW w \in Workers, UNCHANGED <<session, faults>>, worker[w].step # "asleep",
             NEW t, t.step # "asleep", worker' = [worker EXCEPT ![w] = t]
      PROVE  OneTick'
  <2>1. \A v \in Workers : worker'[v] = IF v = w THEN t ELSE worker[v]
    BY <1>0, <1>6 DEF TypeOK
  <2>2. QED
    BY <1>2, <1>6, <2>1
<1>7. ASSUME NEW w \in Workers, Work(w) \/ \E horizon \in Times : Read(w, horizon)
      PROVE  OneTick'
  BY <1>0, <1>1, <1>6, <1>7, TickGoesOn DEF Moves
<1>8. ASSUME UNCHANGED <<session, worker, faults>> PROVE OneTick'
  BY <1>0, <1>8 DEF OneTick
<1>9. QED
  BY <1>3, <1>4, <1>5, <1>7, <1>8 DEF Next, Advance, Obey, Expire, Ask, vars

-----------------------------------------------------------------------------
(* What a tick relies on survives whatever the others do in the meantime.  *)
LEMMA SoundStays ==
  ASSUME IInv, [Next]_vars, NEW w \in Workers, worker'[w] = worker[w]
  PROVE  Sound(w)'
<1>1. /\ TypeOK /\ TypeOK' /\ Onwards /\ Sound(w)
      /\ Actions \subseteq Commands
  BY StepKinds, OnwardsStep, TypeStep DEF IInv, TickSound, Commands
<1>2. worker[w] \in Ticks /\ worker[w].batch \subseteq Actions
  BY <1>1 DEF TypeOK, Ticks
<1>3. /\ time \in Nat /\ time' \in Nat /\ observed \in Nat /\ observed' \in Nat
      /\ worker[w].now \in Nat
      /\ worker[w].horizon \in Nat /\ worker[w].moment \in Nat
  BY <1>1, <1>2 DEF TypeOK, Ticks, Times
<1>4. /\ worker[w].now <= time'
      /\ worker[w].step \in Claiming \cup {"look"} => worker[w].horizon <= observed'
  BY <1>1, <1>3 DEF Sound, Onwards
<1>5. \A a \in worker[w].batch :
        rows'[a].due = rows[a].due /\ rows'[a].status # "absent"
  BY <1>1, <1>2 DEF Sound, Onwards
<1>6. ASSUME worker[w].step = "mark", NEW a \in worker[w].batch,
             \A b \in worker[w].batch \ {a} : Before(a, b)'
      PROVE  answer'[a] = "rejected"
  <2>1. \A b \in worker[w].batch \ {a} : Before(a, b)
    BY <1>5, <1>6 DEF Before
  <2>2. answer[a] = "rejected"
    BY <1>1, <1>6, <2>1 DEF Sound
  <2>3. QED
    BY <1>1, <1>2, <2>2 DEF Onwards
<1>7. QED
  BY <1>1, <1>4, <1>5, <1>6 DEF Sound

(* A tick that is over relies on nothing.                                  *)
LEMMA SoundAsleep ==
  ASSUME IInv, [Next]_vars, NEW w \in Workers, EndTick(w)
  PROVE  Sound(w)'
<1>1. worker'[w] = Asleep /\ time' \in Nat
  BY TypeStep DEF EndTick, IInv, TypeOK, Times
<1>2. QED
  BY <1>1 DEF Asleep, Sound, Claiming

(* Each statement of a tick leaves it with what the next one relies on.    *)
LEMMA SoundWork ==
  ASSUME IInv, [Next]_vars, NEW w \in Workers,
         Work(w) \/ TryLock(w) \/ \E horizon \in Times : Read(w, horizon)
  PROVE  Sound(w)'
<1> DEFINE k == worker[w]
<1>0. /\ TypeOK /\ TypeOK' /\ Onwards /\ Sound(w)
      /\ k \in Ticks /\ k.batch \subseteq Actions
      /\ time \in Nat /\ observed \in Nat
      /\ k.now \in Nat /\ k.horizon \in Nat /\ k.moment \in Nat
  <2>1. TypeOK /\ TypeOK' /\ Onwards /\ Sound(w)
    BY StepKinds, OnwardsStep, TypeStep DEF IInv, TickSound
  <2>2. k \in Ticks
    BY <2>1 DEF TypeOK
  <2>3. /\ k.batch \subseteq Actions /\ k.now \in Times /\ k.horizon \in Times
        /\ k.moment \in Times
    BY <2>2 DEF Ticks
  <2>4. TypeOK
    BY <2>1
  <2>5. time \in Times /\ observed \in Times
    BY <2>4 DEF TypeOK
  <2>6. QED
    BY <2>1, <2>2, <2>3, <2>5 DEF Times
<1>1. CASE TryLock(w)
  <2>1. worker'[w] = [Asleep EXCEPT !.step = "start"] /\ time' = time
    BY <1>0, <1>1 DEF TryLock, TypeOK, world
  <2>2. QED
    BY <1>0, <2>1 DEF Asleep, Sound, Claiming
<1>2. ASSUME NEW horizon \in Times, Read(w, horizon) PROVE Sound(w)'
  <2>1. CASE EndTick(w)
    BY <2>1, SoundAsleep
  <2>2. CASE worker'[w] = [k EXCEPT !.step = "observe", !.horizon = horizon, !.now = time]
    <3>1. k.batch = {} /\ time' = time
      BY <1>0, <1>2 DEF Read, Sound, world
    <3>2. QED
      BY <1>0, <2>2, <3>1 DEF Sound, Claiming, Ticks
  <2>3. QED
    BY <1>0, <1>2, <2>1, <2>2 DEF Read, TypeOK
<1>3. CASE Observe(w)
  <2>1. /\ worker'[w] = [k EXCEPT !.step = "look"] /\ k.batch = {}
        /\ time' = time /\ observed' = Later(observed, k.horizon)
    BY <1>0, <1>3 DEF Observe, TypeOK, Seen, Sound
  <2>2. k.horizon <= observed'
    BY <1>0, <2>1 DEF Later
  <2>3. QED
    BY <1>0, <2>1, <2>2 DEF Sound, Claiming, Ticks
<1>4. CASE Look(w)
  <2>1. CASE EndTick(w)
    BY <2>1, SoundAsleep
  <2>2. CASE Due(k.horizon) # {}
    <3>1. /\ worker'[w] = [k EXCEPT !.step = "claim", !.moment = Earliest(Due(k.horizon))]
          /\ k.step = "look" /\ k.batch = {}
          /\ time' = time /\ observed' = observed
      BY <1>0, <1>4, <2>2 DEF Look, TypeOK, Sound, world
    <3>2. PICK a \in Due(k.horizon) : Earliest(Due(k.horizon)) = rows[a].due
      BY <1>0, <2>2, EarliestIsDue DEF Due, Pending
    <3>3. Earliest(Due(k.horizon)) <= k.horizon
      BY <3>2 DEF Due
    <3>4. QED
      BY <1>0, <3>1, <3>3 DEF Sound, Claiming, Ticks
  <2>3. QED
    BY <1>4, <2>1, <2>2 DEF Look
<1>5. CASE Claim(w)
  <2>1. PICK taken \in SUBSET Claimable(k.moment) :
          worker' = [worker EXCEPT ![w] = [@ EXCEPT !.step = "hold", !.batch = taken]]
    BY <1>5 DEF Claim
  <2>2. /\ worker'[w] = [k EXCEPT !.step = "hold", !.batch = taken] /\ k.step = "claim"
        /\ time' = time /\ observed' = observed
    BY <1>0, <1>5, <2>1 DEF Claim, TypeOK
  <2>3. \A a \in taken : a \in Actions /\ rows[a].status # "absent" /\ rows[a].due <= k.moment
    BY DEF Claimable, Due, Pending
  <2>4. \A a \in taken : rows'[a].status # "absent" /\ rows'[a].due <= k.moment
    BY <1>0, <2>3 DEF Onwards
  <2>5. QED
    BY <1>0, <2>2, <2>4 DEF Sound, Claiming, Ticks
<1>6. ASSUME NEW t \in Ticks, worker'[w] = t, t.step = "hold", k.step \in Claiming,
             t.horizon = k.horizon, t.moment = k.moment, t.now <= time',
             t.batch \subseteq k.batch
      PROVE  Sound(w)'
  <2>1. \A a \in k.batch : rows'[a].status # "absent" /\ rows'[a].due <= k.moment
    BY <1>0 DEF Sound, Onwards
  <2>2. k.horizon <= observed' /\ k.moment <= k.horizon
    <3>1. observed <= observed' /\ observed' \in Nat
      BY <1>0 DEF Onwards, TypeOK, Times
    <3>2. QED
      BY <1>0, <1>6, <3>1 DEF Sound
  <2>3. QED
    BY <1>6, <2>1, <2>2 DEF Sound, Claiming
<1>7. CASE Hold(w)
  <2>1. k.batch # {} /\ k.step = "hold" /\ time' = time /\ observed' = observed
    BY <1>7 DEF Hold
  <2>2. Rest(w) \in SUBSET Actions /\ Rest(w) \subseteq k.batch
    BY <1>0, <2>1, TurnInBatch
  <2>3. CASE worker'[w] = [k EXCEPT !.step = "execute"]
    <3>1. \A a \in k.batch : rows'[a].status # "absent" /\ rows'[a].due <= k.moment
      BY <1>0 DEF Sound, Onwards
    <3>2. QED
      BY <1>0, <2>1, <2>3, <3>1 DEF Sound, Claiming, Ticks
  <2>4. CASE worker'[w] = [k EXCEPT !.batch = Rest(w)]
    <3>1. worker'[w] \in Ticks /\ k.now <= time'
      BY <1>0, <2>1, <2>2, <2>4 DEF Ticks, Sound
    <3>2. QED
      BY <1>0, <1>6, <2>1, <2>2, <2>4, <3>1 DEF Ticks, Claiming
  <2>5. QED
    BY <1>0, <1>7, <2>3, <2>4 DEF Hold, TypeOK
<1>8. CASE Execute(w)
  <2>0. k.step = "execute" /\ k.batch # {}
    BY <1>0, <1>8 DEF Execute, Sound
  <2>1. /\ Rest(w) \in SUBSET Actions /\ Rest(w) \subseteq k.batch
        /\ Turn(w) \in k.batch /\ Turn(w) \in Actions
        /\ \A b \in k.batch \ {Turn(w)} : Before(Turn(w), b)
    BY <1>0, <2>0, TurnInBatch
  <2>2. /\ rows[Turn(w)].due \in Times /\ Moment(w) \in Times
        /\ Moment(w) \in {rows[Turn(w)].due, k.now} /\ k.now <= time
    BY <1>0, <2>0, MomentIsSeen DEF Sound
  <2>3. CASE EndTick(w)
    BY <2>3, SoundAsleep
  <2>4. CASE /\ worker' = [worker EXCEPT ![w] =
                  [@ EXCEPT !.step = "hold", !.now = Moment(w), !.batch = Rest(w)]]
             /\ \/ answer[Turn(w)] = "accepted" /\ UNCHANGED world
                \/ Accept(Turn(w), Moment(w))
    <3>1. worker'[w] = [k EXCEPT !.step = "hold", !.now = Moment(w), !.batch = Rest(w)]
      BY <1>0, <2>4 DEF TypeOK
    <3>2. Moment(w) <= time'
      <4>1. CASE answer[Turn(w)] = "accepted" /\ UNCHANGED world
        <5>1. rows[Turn(w)].due <= time /\ time' = time
          BY <2>1, <4>1 DEF IInv, ChronicleTold, world
        <5>2. QED
          BY <1>0, <2>2, <5>1 DEF Times
      <4>2. CASE Accept(Turn(w), Moment(w))
        <5>1. time' = Moment(w)
          BY <4>2 DEF Accept
        <5>2. Moment(w) \in Nat
          BY <2>2 DEF Times
        <5>3. QED
          BY <5>1, <5>2
      <4>3. QED
        BY <2>4, <4>1, <4>2
    <3>3. worker'[w] \in Ticks
      BY <1>0, <2>1, <2>2, <3>1 DEF Ticks
    <3>4. /\ worker'[w].step = "hold" /\ worker'[w].now <= time'
          /\ worker'[w].horizon = k.horizon /\ worker'[w].moment = k.moment
          /\ worker'[w].batch \subseteq k.batch
      BY <1>0, <2>1, <3>1, <3>2 DEF Ticks
    <3>5. k.step \in Claiming
      BY <2>0 DEF Claiming
    <3>6. QED
      BY <1>6, <3>3, <3>4, <3>5
  <2>5. CASE /\ worker' = [worker EXCEPT ![w] = [@ EXCEPT !.step = "mark"]]
             /\ \/ answer[Turn(w)] = "rejected" /\ UNCHANGED world
                \/ answer[Turn(w)] = "none" /\ Reject(Turn(w))
    <3>1. /\ worker'[w] = [k EXCEPT !.step = "mark"]
          /\ rows' = rows /\ time' = time /\ observed' = observed
          /\ answer'[Turn(w)] = "rejected"
      BY <1>0, <2>1, <2>5 DEF TypeOK, Reject, world, Commands
    <3>2. ASSUME NEW a \in k.batch, \A b \in k.batch \ {a} : Before(a, b)'
          PROVE  a = Turn(w)
      <4>1. SUFFICES ASSUME a # Turn(w) PROVE FALSE
        OBVIOUS
      <4>2. Before(a, Turn(w)) /\ Before(Turn(w), a)
        BY <2>1, <3>1, <3>2, <4>1 DEF Before
      <4>3. /\ rows[a].due \in Nat /\ rows[Turn(w)].due \in Nat
            /\ a \in Nat /\ Turn(w) \in Nat
        <5>1. a \in Actions /\ Turn(w) \in Actions
          BY <1>0, <2>1
        <5>2. QED
          BY <1>0, <5>1, RowIsNumbered
      <4>4. QED
        BY <4>2, <4>3 DEF Before
    <3>3. QED
      BY <1>0, <2>0, <3>1, <3>2 DEF Sound, Claiming, Ticks
  <2>6. QED
    BY <1>8, <2>3, <2>4, <2>5 DEF Execute, Recorded
<1>9. CASE MarkFailed(w)
  <2>1. k.step = "mark" /\ k.batch # {} /\ time' = time
    BY <1>0, <1>9 DEF MarkFailed, Sound
  <2>2. Rest(w) \in SUBSET Actions /\ Rest(w) \subseteq k.batch
    BY <1>0, <2>1, TurnInBatch
  <2>3. CASE EndTick(w)
    BY <2>3, SoundAsleep
  <2>4. CASE worker'[w] = [k EXCEPT !.step = "hold", !.batch = Rest(w)]
    <3>1. worker'[w] \in Ticks /\ k.now <= time'
      BY <1>0, <2>1, <2>2, <2>4 DEF Ticks, Sound
    <3>2. QED
      BY <1>0, <1>6, <2>1, <2>2, <2>4, <3>1 DEF Ticks, Claiming
  <2>5. QED
    BY <1>0, <1>9, <2>3, <2>4 DEF MarkFailed, TypeOK
<1>10. CASE Finish(w)
  BY <1>10, SoundAsleep DEF Finish
<1>11. QED
  BY <1>1, <1>2, <1>3, <1>4, <1>5, <1>7, <1>8, <1>9, <1>10 DEF Work

LEMMA SoundStep ==
  ASSUME IInv, [Next]_vars
  PROVE  TickSound'
<1>1. TypeOK
  BY DEF IInv
<1>2. SUFFICES ASSUME NEW v \in Workers PROVE Sound(v)'
  BY DEF TickSound
<1>3. ASSUME NEW w \in Workers,
             TryLock(w) \/ Work(w) \/ Crash(w) \/ \E horizon \in Times : Read(w, horizon)
      PROVE  Sound(v)'
  <2>1. CASE v # w
    <3>1. worker'[v] = worker[v]
      BY <1>1, <1>3, <2>1 DEF TypeOK, TryLock, Work, Crash, Read, Observe, Look, Claim, Hold,
           Execute, MarkFailed, Finish, EndTick
    <3>2. QED
      BY <3>1, SoundStays
  <2>2. CASE v = w
    BY <1>3, <2>2, SoundWork, SoundAsleep DEF Crash
  <2>3. QED
    BY <2>1, <2>2
<1>4. ASSUME UNCHANGED worker PROVE Sound(v)'
  BY <1>4, SoundStays
<1>5. QED
  BY <1>3, <1>4 DEF Next, Advance, LoseSession, Obey, Expire, Ask, vars

-----------------------------------------------------------------------------
LEMMA Inductive == IInv /\ [Next]_vars => IInv'
BY StepKinds, TypeStep, OutcomeStep, OneTickStep, SoundStep DEF IInv

LEMMA Invariance == Spec => []IInv
BY InitIInv, Inductive, PTL DEF Spec

(* Every reachable state is well typed.                                    *)
THEOREM TypeCorrectness == Spec => []TypeOK
<1>1. IInv => TypeOK
  BY DEF IInv
<1>2. QED
  BY <1>1, Invariance, PTL

(* While no session is lost there is one tick at a time.                   *)
THEOREM TicksExcludeEachOther == Spec => []OneTick
<1>1. IInv => OneTick
  BY DEF IInv
<1>2. QED
  BY <1>1, Invariance, PTL

(* The schedule and the journal of commands never contradict each other.   *)
THEOREM ScheduleTellsOutcome == Spec => []RowsTellOutcome
<1>1. IInv => RowsTellOutcome
  BY DEF IInv
<1>2. QED
  BY <1>1, Invariance, PTL

(* An action happens once, with or without the advisory lock.              *)
THEOREM ActionsHappenOnce == Spec => []HappensOnce
<1>1. IInv => HappensOnce
  BY DEF IInv
<1>2. QED
  BY <1>1, Invariance, PTL

(* Only the tick whose turn it is makes an action happen.                  *)
LEMMA WhoActs ==
  ASSUME IInv, [Next]_vars, NEW a \in Actions, answer[a] = "none", answer'[a] = "accepted"
  PROVE  \E w \in Workers :
           Execute(w) /\ a = Turn(w) /\ Accept(a, Moment(w)) /\ time <= Moment(w)
<1>1. TypeOK /\ a \in Commands
  BY DEF IInv, Commands
<1>2. ASSUME NEW c \in Commands, Reject(c) PROVE FALSE
  BY <1>1, <1>2 DEF Reject, TypeOK
<1>3. ASSUME NEW c \in Commands, NEW at \in Times, Accept(c, at) PROVE a = c
  BY <1>1, <1>3 DEF Accept, TypeOK
<1>4. ASSUME UNCHANGED answer PROVE FALSE
  BY <1>4
<1>5. ASSUME Obey PROVE FALSE
  <2>1. order[1] \in Orders /\ order[2] \in Times
    BY <1>1, <1>5 DEF Obey, TypeOK, NoOrder
  <2>2. order[1] \in Commands /\ order[1] # a
    BY <2>1, ScheduleAssumption DEF Commands
  <2>3. QED
    BY <1>2, <1>3, <1>4, <1>5, <2>1, <2>2 DEF Obey, world
<1>6. ASSUME NEW w \in Workers, Execute(w)
      PROVE  a = Turn(w) /\ Accept(a, Moment(w)) /\ time <= Moment(w)
  <2>1. Turn(w) \in Commands /\ Moment(w) \in Times /\ time \in Times
    BY <1>1, <1>6, MomentIsSeen DEF Execute, Commands, TypeOK
  <2>2. Accept(Turn(w), Moment(w)) /\ Moment(w) >= time
    BY <1>2, <1>4, <1>6, <2>1 DEF Execute, world
  <2>3. QED
    BY <1>3, <2>1, <2>2 DEF Times
<1>7. QED
  BY <1>4, <1>5, <1>6 DEF Next, Work, Advance, LoseSession, TryLock, Read, Observe,
       Look, Claim, Hold, MarkFailed, Finish, Crash, Expire, Ask, world, vars

(* An action happens when it was due, or when the world could first do it. *)
THEOREM ActionsInTime == Spec => AtItsMoment
<1>1. ASSUME IInv, [Next]_vars
      PROVE  [\A a \in Actions :
                answer[a] = "none" /\ answer'[a] = "accepted" =>
                  time' = Later(rows[a].due, time)]_vars
  <2>1. SUFFICES ASSUME NEW a \in Actions, answer[a] = "none", answer'[a] = "accepted"
                 PROVE  time' = Later(rows[a].due, time)
    OBVIOUS
  <2>2. PICK w \in Workers :
          Execute(w) /\ a = Turn(w) /\ Accept(a, Moment(w)) /\ time <= Moment(w)
    BY <1>1, <2>1, WhoActs
  <2>3. rows[a].due \in Times /\ worker[w].now \in Times
    BY <1>1, <2>2, MomentIsSeen DEF Execute
  <2>4. time \in Times /\ worker[w].now <= time
    BY <1>1 DEF IInv, TickSound, Sound, TypeOK
  <2>5. /\ time' = Moment(w) /\ time <= Moment(w)
        /\ Moment(w) = Later(rows[a].due, worker[w].now)
    BY <2>2 DEF Accept, Moment
  <2>6. QED
    BY <2>3, <2>4, <2>5 DEF Later, Times
<1>2. QED
  BY <1>1, Invariance, PTL DEF Spec, AtItsMoment

(* However far the horizons of operators lie, and whatever moments they    *)
(* name: an action takes the world no further than it was seen to be.      *)
THEOREM ActionsInSight == Spec => NothingUnseen
<1>1. ASSUME IInv, [Next]_vars
      PROVE  [\A a \in Actions :
                answer[a] = "none" /\ answer'[a] = "accepted" =>
                  time' <= Later(observed, time)]_vars
  <2>1. SUFFICES ASSUME NEW a \in Actions, answer[a] = "none", answer'[a] = "accepted"
                 PROVE  time' <= Later(observed, time)
    OBVIOUS
  <2>2. PICK w \in Workers : Execute(w) /\ a = Turn(w) /\ Accept(a, Moment(w))
    BY <1>1, <2>1, WhoActs
  <2>3. QED
    BY <1>1, <2>2, MomentIsSeen DEF Execute, Accept
<1>2. QED
  BY <1>1, Invariance, PTL DEF Spec, NothingUnseen

-----------------------------------------------------------------------------
(* Where nobody names a moment or a horizon ahead of the tempo, neither the*)
(* horizon a tick still holds nor the moment of the operator is ahead of it*)
(* either, however late they are used.                                     *)
OrderSeen == order # NoOrder => order[2] <= observed
HorizonsAllowed == \A w \in Workers : worker[w].horizon <= clock

TempoInv == WithinTempo /\ OrderSeen /\ HorizonsAllowed

(* A tick keeps its horizon until it is over.                              *)
LEMMA HorizonKept ==
  ASSUME TypeOK, NEW w \in Workers,
         TryLock(w) \/ Work(w) \/ Crash(w) \/ \E horizon \in Times : Read(w, horizon) /\ ByTempo
  PROVE  /\ \A v \in Workers \ {w} : worker'[v] = worker[v]
         /\ worker'[w].horizon = worker[w].horizon \/ worker'[w].horizon = 0
              \/ worker'[w].horizon <= clock
         /\ UNCHANGED <<clock, order>>
<1>0. worker[w] \in Ticks /\ worker \in [Workers -> Ticks]
  BY DEF TypeOK
<1>1. ASSUME EndTick(w) PROVE worker'[w].horizon = 0
  BY <1>0, <1>1 DEF EndTick, Asleep
<1>2. \A v \in Workers \ {w} : worker'[v] = worker[v]
  BY <1>0 DEF TryLock, Work, Crash, Read, Observe, Look, Claim, Hold, Execute, MarkFailed,
       Finish, EndTick
<1>3. UNCHANGED <<clock, order>>
  BY DEF TryLock, Work, Crash, Read, Observe, Look, Claim, Hold, Execute, MarkFailed, Finish
<1>4. CASE TryLock(w)
  BY <1>0, <1>2, <1>3, <1>4 DEF TryLock, Asleep
<1>5. CASE Crash(w) \/ Finish(w)
  BY <1>1, <1>2, <1>3, <1>5 DEF Crash, Finish
<1>6. CASE Observe(w) \/ Look(w)
  BY <1>0, <1>1, <1>2, <1>3, <1>6 DEF Observe, Look, Ticks
<1>7. CASE Claim(w)
  <2>1. PICK taken \in SUBSET Claimable(worker[w].moment) :
          worker' = [worker EXCEPT ![w] = [@ EXCEPT !.step = "hold", !.batch = taken]]
    BY <1>7 DEF Claim
  <2>2. QED
    BY <1>0, <1>2, <1>3, <2>1 DEF Ticks
<1>8. CASE Hold(w) \/ MarkFailed(w)
  BY <1>0, <1>1, <1>2, <1>3, <1>8 DEF Hold, MarkFailed, Ticks
<1>9. CASE Execute(w)
  BY <1>0, <1>1, <1>2, <1>3, <1>9 DEF Execute, Ticks
<1>10. ASSUME NEW horizon \in Times, Read(w, horizon), ByTempo
       PROVE  worker'[w].horizon = 0 \/ worker'[w].horizon <= clock
  <2>1. horizon <= clock
    BY <1>10 DEF ByTempo
  <2>2. QED
    BY <1>0, <1>1, <1>10, <2>1 DEF Read, Ticks
<1>11. QED
  BY <1>2, <1>3, <1>4, <1>5, <1>6, <1>7, <1>8, <1>9, <1>10 DEF Work

LEMMA TempoStep ==
  ASSUME IInv, TempoInv, [Next /\ ByTempo]_vars
  PROVE  TempoInv'
<1>0. /\ TypeOK /\ TypeOK' /\ WithinTempo /\ OrderSeen /\ HorizonsAllowed
      /\ time \in Nat /\ observed \in Nat /\ clock \in Nat
      /\ time' \in Nat /\ observed' \in Nat /\ clock' \in Nat
      /\ observed <= observed' /\ [Next]_vars
  BY StepKinds, TypeStep, OnwardsStep DEF IInv, TempoInv, TypeOK, Times, Onwards
<1>1. clock <= clock'
  <2>1. Advance \/ UNCHANGED clock
    BY DEF Next, Work, LoseSession, Obey, TryLock, Read, Observe, Look, Claim,
         Hold, Execute, MarkFailed, Finish, Crash, Expire, Ask, vars
  <2>2. QED
    BY <1>0, <2>1 DEF Advance
<1>2. time' <= observed' /\ observed' <= clock
  <2>1. ASSUME NEW w \in Workers, Execute(w) PROVE time' <= observed /\ UNCHANGED observed
    <3>1. Moment(w) \in Times /\ Moment(w) <= Later(observed, time)
      BY <2>1, MomentIsSeen DEF Execute
    <3>2. /\ UNCHANGED observed
          /\ time' = time \/ time' = Moment(w)
      BY <2>1 DEF Execute, Accept, Reject, world
    <3>3. QED
      BY <1>0, <3>1, <3>2 DEF Later, WithinTempo
  <2>2. ASSUME Obey PROVE time' <= observed /\ UNCHANGED observed
    <3>1. /\ UNCHANGED observed /\ order # NoOrder
          /\ time' = time \/ time' = order[2]
      BY <2>2 DEF Obey, Accept, Reject, world
    <3>2. QED
      BY <1>0, <3>1 DEF OrderSeen, WithinTempo
  <2>3. ASSUME NEW w \in Workers, Observe(w) PROVE time' <= observed' /\ observed' <= clock
    <3>1. time' = time /\ observed' = Later(observed, worker[w].horizon)
      BY <2>3 DEF Observe, Seen
    <3>2. worker[w].horizon <= clock
      BY <1>0 DEF HorizonsAllowed
    <3>3. QED
      BY <1>0, <3>1, <3>2 DEF Later, WithinTempo
  <2>4. ASSUME UNCHANGED <<time, observed>> PROVE time' <= observed' /\ observed' <= clock
    BY <1>0, <2>4 DEF WithinTempo
  <2>5. ASSUME NEW w \in Workers,
               TryLock(w) \/ Crash(w) \/ (Work(w) /\ ~Observe(w) /\ ~Execute(w))
                 \/ \E horizon \in Times : Read(w, horizon)
        PROVE  UNCHANGED <<time, observed>>
    BY <2>5 DEF TryLock, Crash, Work, Look, Claim, Hold, MarkFailed, Finish, Read, world
  <2>6. ASSUME Advance \/ LoseSession \/ (\E a \in Actions : Expire(a))
                 \/ (\E c \in Orders, at \in Times : Ask(c, at)) \/ UNCHANGED vars
        PROVE  UNCHANGED <<time, observed>>
    BY <2>6 DEF Advance, LoseSession, Expire, Ask, world, vars
  <2>7. QED
    BY <1>0, <2>1, <2>2, <2>3, <2>4, <2>5, <2>6 DEF Next, Work, WithinTempo
<1>3. OrderSeen'
  <2>1. ASSUME NEW c \in Orders, NEW at \in Times, Ask(c, at), ByTempo PROVE OrderSeen'
    <3>1. order' = <<c, Later(observed, time)>>
      BY <2>1 DEF Ask, ByTempo
    <3>2. Later(observed, time) = observed
      BY <1>0 DEF Later, WithinTempo
    <3>3. QED
      BY <1>0, <3>1, <3>2 DEF OrderSeen
  <2>2. ASSUME UNCHANGED order PROVE OrderSeen'
    BY <1>0, <2>2 DEF OrderSeen, TypeOK, NoOrder, Times
  <2>3. ASSUME Obey PROVE OrderSeen'
    BY <2>3 DEF Obey, OrderSeen
  <2>4. QED
    BY <2>1, <2>2, <2>3 DEF Next, Work, Advance, LoseSession, TryLock, Read, Observe, Look,
         Claim, Hold, Execute, MarkFailed, Finish, Crash, Expire, vars
<1>4. HorizonsAllowed'
  <2>1. SUFFICES ASSUME NEW v \in Workers PROVE worker'[v].horizon <= clock'
    BY DEF HorizonsAllowed
  <2>2. worker[v].horizon <= clock /\ worker[v].horizon \in Nat /\ worker'[v].horizon \in Nat
    BY <1>0 DEF HorizonsAllowed, TypeOK, Ticks, Times
  <2>3. ASSUME NEW w \in Workers,
               TryLock(w) \/ Work(w) \/ Crash(w)
                 \/ \E horizon \in Times : Read(w, horizon) /\ ByTempo
        PROVE  worker'[v].horizon <= clock
    BY <1>0, <2>2, <2>3, HorizonKept
  <2>4. ASSUME UNCHANGED worker PROVE worker'[v].horizon <= clock
    BY <2>2, <2>4
  <2>5. worker'[v].horizon <= clock
    BY <2>3, <2>4 DEF Next, Advance, LoseSession, Obey, Expire, Ask, vars
  <2>6. QED
    BY <1>0, <1>1, <2>2, <2>5
<1>5. QED
  BY <1>0, <1>1, <1>2, <1>3, <1>4 DEF TempoInv, WithinTempo

(* As long as nobody names a moment or a horizon of his own, neither a late*)
(* tick nor a late order moves the world past the tempo.                   *)
THEOREM TempoIsTheLimit == Init /\ [][Next /\ ByTempo]_vars => []WithinTempo
<1>1. Init => IInv /\ TempoInv
  <2>1. Init => TempoInv
    BY DEF Init, TempoInv, WithinTempo, OrderSeen, HorizonsAllowed, Asleep
  <2>2. QED
    BY <2>1, InitIInv
<1>2. IInv /\ TempoInv /\ [Next /\ ByTempo]_vars => (IInv /\ TempoInv)'
  BY Inductive, TempoStep
<1>3. IInv /\ TempoInv => WithinTempo
  BY DEF TempoInv
<1>4. QED
  BY <1>1, <1>2, <1>3, PTL

-----------------------------------------------------------------------------
(* Nothing is left on the schedule that is due before the moment a tick has*)
(* taken up, unless an operator put it there.                              *)
NoOrderYet == \A c \in Orders : answer[c] = "none"

AheadOf(w) ==
  worker[w].step \in Claiming =>
    /\ \A b \in Pending : worker[w].moment <= rows[b].due
    /\ \A a \in worker[w].batch : worker[w].moment <= rows[a].due

InOrder == NoOrderYet => \A w \in Workers : AheadOf(w)

(* What another tick may still execute is on the schedule.                 *)
Scheduled ==
  \A w, v \in Workers :
    /\ worker[w].step = "execute" /\ answer[Turn(w)] = "none"
    /\ worker[v].step \in Claiming /\ v # w
    => Turn(w) \in Pending

(* A row comes on the schedule when an action happens, and not before it.  *)
LEMMA NewlyPending ==
  ASSUME IInv, [Next]_vars, NoOrderYet', NEW b \in Actions, rows'[b].status = "pending"
  PROVE  \/ b \in Pending /\ rows'[b].due = rows[b].due
         \/ \E w \in Workers :
              /\ worker[w].step = "execute" /\ answer[Turn(w)] = "none"
              /\ Moment(w) <= rows'[b].due
<1>1. TypeOK /\ Onwards /\ WorldStep
  BY StepKinds, OnwardsStep DEF IInv
<1>2. ASSUME NEW c \in Commands, NEW at \in Times, Happens(c, at), b \notin Pending
      PROVE  \E w \in Workers :
               /\ worker[w].step = "execute" /\ answer[Turn(w)] = "none"
               /\ Moment(w) <= rows'[b].due
  <2>1. answer[c] = "none" /\ answer'[c] = "accepted"
    BY <1>1, <1>2 DEF Happens, Accept, TypeOK
  <2>2. c \in Actions
    BY <2>1 DEF NoOrderYet, Commands
  <2>3. PICK w \in Workers :
          Execute(w) /\ c = Turn(w) /\ Accept(c, Moment(w)) /\ time <= Moment(w)
    BY <2>1, <2>2, WhoActs
  <2>4. rows'[b].status # rows[b].status /\ b \notin Removed(c)
    BY <1>1, <1>2, AcceptedRow DEF Pending
  <2>5. rows'[b] = Row(Moment(w) + Delay[b])
    BY <1>1, <2>3, <2>4 DEF Accept, TypeOK
  <2>6. Moment(w) \in Nat /\ Delay[b] \in Nat
    BY <2>3, MomentIsSeen, ScheduleAssumption DEF Execute, Times
  <2>7. QED
    BY <2>1, <2>3, <2>5, <2>6 DEF Row, Execute
<1>3. CASE b \in Pending
  BY <1>1, <1>3 DEF Pending, Onwards
<1>4. ASSUME b \notin Pending, NEW a \in Actions, Fails(a) PROVE FALSE
  BY <1>1, <1>4 DEF Fails, Pending, TypeOK
<1>5. ASSUME b \notin Pending, Leases \/ rows' = rows PROVE FALSE
  BY <1>5 DEF Leases, Pending
<1>6. QED
  BY <1>1, <1>2, <1>3, <1>4, <1>5 DEF WorldStep, Refuses, Reject, Sees, world

(* A tick that stays at its moment stays ahead of nothing.                 *)
LEMMA StaysAhead ==
  ASSUME IInv, InOrder, [Next]_vars, NoOrderYet', Scheduled, NEW v \in Workers,
         worker[v].step \in Claiming, worker'[v].moment = worker[v].moment,
         worker'[v].batch \subseteq worker[v].batch
  PROVE  AheadOf(v)'
<1>1. /\ TypeOK /\ TypeOK' /\ Onwards /\ Sound(v) /\ Actions \subseteq Commands
  BY StepKinds, OnwardsStep, TypeStep DEF IInv, TickSound, Commands
<1>2. NoOrderYet
  BY <1>1 DEF NoOrderYet, Onwards, Commands
<1>3. /\ \A b \in Pending : worker[v].moment <= rows[b].due
      /\ \A a \in worker[v].batch : worker[v].moment <= rows[a].due
  BY <1>2 DEF InOrder, AheadOf
<1>4. worker[v].batch \subseteq Actions /\ worker[v].moment \in Times
  BY <1>1 DEF TypeOK, Ticks
<1>5. \A a \in worker'[v].batch : worker'[v].moment <= rows'[a].due
  BY <1>1, <1>3, <1>4 DEF Sound, Onwards
<1>6. ASSUME NEW w \in Workers, worker[w].step = "execute", answer[Turn(w)] = "none"
      PROVE  worker[v].moment <= Moment(w)
  <2>1. /\ rows[Turn(w)].due \in Times /\ Moment(w) \in Times
        /\ rows[Turn(w)].due <= Moment(w)
    BY <1>6, MomentIsSeen
  <2>2. worker[v].moment <= rows[Turn(w)].due
    <3>1. CASE v = w
      BY <1>1, <1>3, <1>6, <3>1, TurnInBatch DEF Sound
    <3>2. CASE v # w
      BY <1>3, <1>6, <3>2 DEF Scheduled
    <3>3. QED
      BY <3>1, <3>2
  <2>3. QED
    BY <1>4, <2>1, <2>2 DEF Times
<1>7. ASSUME NEW b \in Actions, rows'[b].status = "pending"
      PROVE  worker'[v].moment <= rows'[b].due
  <2>1. CASE b \in Pending /\ rows'[b].due = rows[b].due
    BY <1>3, <2>1
  <2>2. ASSUME NEW w \in Workers, worker[w].step = "execute", answer[Turn(w)] = "none",
               Moment(w) <= rows'[b].due
        PROVE  worker[v].moment <= rows'[b].due
    <3>1. rows'[b].due \in Nat /\ Moment(w) \in Nat /\ worker[v].moment \in Nat
      BY <1>1, <1>4, <2>2, MomentIsSeen DEF TypeOK, Rows, Times
    <3>2. QED
      BY <1>6, <2>2, <3>1
  <2>3. QED
    BY <1>7, <2>1, <2>2, NewlyPending
<1>8. QED
  BY <1>5, <1>7 DEF AheadOf, Pending

(* Every step keeps the ticks in order, if no tick executes what is no     *)
(* longer on the schedule of another.                                      *)
LEMMA InOrderStep ==
  ASSUME IInv, InOrder, [Next]_vars, NoOrderYet => Scheduled
  PROVE  InOrder'
<1> SUFFICES ASSUME NoOrderYet', NEW v \in Workers PROVE AheadOf(v)'
  BY DEF InOrder
<1>1. /\ TypeOK /\ TypeOK' /\ Onwards /\ Sound(v) /\ worker[v] \in Ticks
  BY StepKinds, OnwardsStep, TypeStep DEF IInv, TickSound, TypeOK
<1>2. NoOrderYet /\ Scheduled
  BY <1>1 DEF NoOrderYet, Onwards, Commands
<1>3. ASSUME worker'[v].step \notin Claiming PROVE AheadOf(v)'
  BY <1>3 DEF AheadOf
<1>4. ASSUME worker'[v] = worker[v] PROVE AheadOf(v)'
  BY <1>2, <1>3, <1>4, StaysAhead
<1>5. ASSUME EndTick(v) PROVE AheadOf(v)'
  BY <1>1, <1>3, <1>5 DEF EndTick, TypeOK, Asleep, Claiming
<1>6. ASSUME TryLock(v) \/ Observe(v) \/ \E horizon \in Times : Read(v, horizon)
      PROVE  AheadOf(v)'
  <2>1. CASE TryLock(v)
    BY <1>1, <1>3, <2>1 DEF TryLock, TypeOK, Asleep, Claiming
  <2>2. CASE Observe(v)
    BY <1>1, <1>3, <2>2 DEF Observe, TypeOK, Ticks, Claiming
  <2>3. ASSUME NEW horizon \in Times, Read(v, horizon)
        PROVE  worker'[v].step \notin Claiming \/ EndTick(v)
    <3>1. CASE horizon < time
      BY <2>3, <3>1 DEF Read
    <3>2. CASE ~(horizon < time)
      <4>1. worker' = [worker EXCEPT ![v] =
              [@ EXCEPT !.step = "observe", !.horizon = horizon, !.now = time]]
        BY <2>3, <3>2 DEF Read
      <4>2. QED
        BY <1>1, <4>1 DEF TypeOK, Ticks, Claiming
    <3>3. QED
      BY <3>1, <3>2
  <2>4. QED
    BY <1>3, <1>5, <1>6, <2>1, <2>2, <2>3
<1>7. ASSUME Look(v) PROVE AheadOf(v)'
  <2>1. CASE Due(worker[v].horizon) = {}
    BY <1>5, <1>7, <2>1 DEF Look
  <2>2. CASE Due(worker[v].horizon) # {}
    <3> DEFINE m == Earliest(Due(worker[v].horizon))
    <3>1. Due(worker[v].horizon) \subseteq Actions
      BY DEF Due, Pending
    <3>2. /\ \E a \in Due(worker[v].horizon) : m = rows[a].due
          /\ \A a \in Due(worker[v].horizon) : m <= rows[a].due
      BY <1>1, <2>2, <3>1, EarliestIsDue
    <3>3. worker[v].horizon \in Nat /\ \A a \in Actions : rows[a].due \in Nat
      BY <1>1 DEF TypeOK, Ticks, Rows, Times
    <3>4. \A b \in Pending : m <= rows[b].due
      <4> HIDE DEF m
      <4>1. QED
        BY <3>2, <3>3 DEF Due, Pending
    <3>5. worker'[v].moment = m /\ worker'[v].batch = {} /\ rows' = rows
      <4>1. /\ worker' = [worker EXCEPT ![v] = [@ EXCEPT !.step = "claim", !.moment = m]]
            /\ rows' = rows /\ worker[v].step = "look"
        BY <1>7, <2>2 DEF Look, world
      <4>2. worker[v].batch = {}
        BY <1>1, <4>1 DEF Sound
      <4>3. QED
        <5> HIDE DEF m
        <5>1. QED
          BY <1>1, <4>1, <4>2 DEF TypeOK, Ticks
    <3>6. QED
      BY <3>4, <3>5 DEF AheadOf, Pending
  <2>3. QED
    BY <2>1, <2>2
<1>8. ASSUME Claim(v) PROVE AheadOf(v)'
  <2>1. PICK taken \in SUBSET Claimable(worker[v].moment) :
          worker' = [worker EXCEPT ![v] = [@ EXCEPT !.step = "hold", !.batch = taken]]
    BY <1>8 DEF Claim
  <2>2. /\ worker'[v].moment = worker[v].moment /\ worker'[v].batch = taken
        /\ worker[v].step = "claim"
    BY <1>1, <1>8, <2>1 DEF Claim, TypeOK, Ticks
  <2>3. taken \subseteq Pending /\ Pending \subseteq Actions
    BY DEF Claimable, Due, Pending
  <2>4. \A b \in Pending : worker[v].moment <= rows[b].due
    BY <1>2, <2>2 DEF InOrder, AheadOf, Claiming
  <2>5. \A b \in Actions : rows'[b].due = rows[b].due /\ rows'[b].status = rows[b].status
    <3>1. PICK some \in SUBSET Claimable(worker[v].moment) :
            rows' = [a \in Actions |->
              IF a \in some THEN [rows[a] EXCEPT !.owner = v, !.live = TRUE] ELSE rows[a]]
      BY <1>8 DEF Claim
    <3>2. \A b \in Actions : rows[b] \in Rows
      BY <1>1 DEF TypeOK
    <3>3. QED
      BY <3>1, <3>2 DEF Rows
  <2>6. QED
    BY <2>2, <2>3, <2>4, <2>5 DEF AheadOf, Pending
<1>9. ASSUME Hold(v) \/ Execute(v) \/ MarkFailed(v) \/ Finish(v) PROVE AheadOf(v)'
  <2> DEFINE Stays == /\ worker'[v].moment = worker[v].moment
                      /\ worker'[v].batch \subseteq worker[v].batch
  <2>1. worker[v].step \in Claiming
    BY <1>9 DEF Hold, Execute, MarkFailed, Finish, Claiming
  <2>2. Rest(v) \subseteq worker[v].batch
    BY DEF Rest
  <2>3. ASSUME Hold(v) PROVE Stays
    BY <1>1, <2>2, <2>3 DEF Hold, TypeOK, Ticks
  <2>4. ASSUME Execute(v) PROVE Stays \/ EndTick(v)
    <3>1. \/ worker' = [worker EXCEPT ![v] =
                 [@ EXCEPT !.step = "hold", !.now = Moment(v), !.batch = Rest(v)]]
          \/ worker' = [worker EXCEPT ![v] = [@ EXCEPT !.step = "mark"]]
          \/ EndTick(v)
      BY <2>4 DEF Execute
    <3>2. ASSUME worker' = [worker EXCEPT ![v] =
                   [@ EXCEPT !.step = "hold", !.now = Moment(v), !.batch = Rest(v)]]
          PROVE  Stays
      <4>1. worker'[v] =
              [worker[v] EXCEPT !.step = "hold", !.now = Moment(v), !.batch = Rest(v)]
        BY <1>1, <3>2 DEF TypeOK
      <4>2. worker'[v].moment = worker[v].moment /\ worker'[v].batch = Rest(v)
        BY <1>1, <4>1 DEF Ticks
      <4>3. QED
        BY <2>2, <4>2
    <3>3. ASSUME worker' = [worker EXCEPT ![v] = [@ EXCEPT !.step = "mark"]] PROVE Stays
      BY <1>1, <3>3 DEF TypeOK, Ticks
    <3>4. QED
      BY <3>1, <3>2, <3>3
  <2>5. ASSUME MarkFailed(v) \/ Finish(v) PROVE Stays \/ EndTick(v)
    <3>1. \/ worker' = [worker EXCEPT ![v] = [@ EXCEPT !.step = "hold", !.batch = Rest(v)]]
          \/ EndTick(v)
      BY <2>5 DEF MarkFailed, Finish
    <3>2. ASSUME worker' = [worker EXCEPT ![v] = [@ EXCEPT !.step = "hold", !.batch = Rest(v)]]
          PROVE  Stays
      <4>1. worker'[v] = [worker[v] EXCEPT !.step = "hold", !.batch = Rest(v)]
        BY <1>1, <3>2 DEF TypeOK
      <4>2. worker'[v].moment = worker[v].moment /\ worker'[v].batch = Rest(v)
        BY <1>1, <4>1 DEF Ticks
      <4>3. QED
        BY <2>2, <4>2
    <3>3. QED
      BY <3>1, <3>2
  <2>6. QED
    BY <1>2, <1>5, <1>9, <2>1, <2>3, <2>4, <2>5, StaysAhead
<1>10. ASSUME NEW w \in Workers, w # v,
              TryLock(w) \/ Work(w) \/ Crash(w) \/ \E horizon \in Times : Read(w, horizon)
       PROVE  AheadOf(v)'
  <2>1. worker'[v] = worker[v]
    BY <1>1, <1>10 DEF TypeOK, TryLock, Work, Crash, Read, Observe, Look, Claim, Hold,
         Execute, MarkFailed, Finish, EndTick
  <2>2. QED
    BY <1>4, <2>1
<1>11. QED
  BY <1>4, <1>5, <1>6, <1>7, <1>8, <1>9, <1>10
    DEF Next, Work, Crash, Advance, LoseSession, Obey, Expire, Ask, vars

(* In order, an action that happens is due no later than anything pending. *)
LEMMA NothingOvertaken ==
  ASSUME IInv, InOrder, [Next]_vars, NoOrderYet,
         NEW a \in Actions, answer[a] = "none", answer'[a] = "accepted", NEW b \in Pending
  PROVE  rows[b].due >= rows[a].due
<1>1. PICK w \in Workers : Execute(w) /\ a = Turn(w)
  BY WhoActs
<1>2. TypeOK /\ Sound(w) /\ worker[w].step = "execute" /\ worker[w].batch # {}
  BY <1>1 DEF IInv, TickSound, Sound, Execute
<1>3. rows[a].due <= worker[w].moment
  BY <1>1, <1>2, TurnInBatch DEF Sound
<1>4. worker[w].moment <= rows[b].due
  BY <1>2 DEF InOrder, AheadOf, Claiming
<1>5. /\ worker[w].moment \in Nat /\ rows[a].due \in Nat /\ rows[b].due \in Nat
  BY <1>2 DEF TypeOK, Ticks, Rows, Times, Pending
<1>6. QED
  BY <1>3, <1>4, <1>5

LEMMA InitInOrder == Init => InOrder
BY DEF Init, InOrder, AheadOf, Asleep, Claiming

-----------------------------------------------------------------------------
(* A tick runs only as long as its session has the lock.                   *)
SessionKept == \A w \in Workers : worker[w].step # "asleep" => session = w

LEMMA SessionKeptStep ==
  ASSUME IInv, SessionKept, [Next /\ ~LoseSession]_vars
  PROVE  SessionKept'
<1>0. TypeOK /\ Nobody \notin Workers /\ Asleep.step = "asleep"
  BY ScheduleAssumption DEF IInv, Asleep
<1>1. ASSUME NEW w \in Workers, EndTick(w) PROVE SessionKept'
  BY <1>0, <1>1 DEF EndTick, SessionKept, TypeOK
<1>2. ASSUME NEW w \in Workers, TryLock(w) PROVE SessionKept'
  BY <1>0, <1>2 DEF TryLock, LockFree, SessionKept, TypeOK
<1>3. ASSUME NEW w \in Workers, Moves(w), worker[w].step # "asleep" PROVE SessionKept'
  BY <1>0, <1>3 DEF Moves, SessionKept, TypeOK
<1>4. ASSUME NEW w \in Workers, Work(w) \/ \E horizon \in Times : Read(w, horizon)
      PROVE  SessionKept'
  BY <1>0, <1>1, <1>3, <1>4, TickGoesOn
<1>5. ASSUME UNCHANGED <<session, worker>> PROVE SessionKept'
  BY <1>5 DEF SessionKept
<1>6. QED
  BY <1>1, <1>2, <1>4, <1>5 DEF Next, Crash, Advance, Obey, Expire, Ask, vars

(* As long as no worker loses the session of its lock without noticing, no *)
(* action overtakes one that is due earlier: two workers, crashes, expired *)
(* leases and batches smaller than a moment do not disturb the order.      *)
THEOREM DueOrderWithLock == Init /\ [][Next /\ ~LoseSession]_vars => InDueOrder
<1>1. ASSUME SessionKept PROVE Scheduled
  BY <1>1 DEF SessionKept, Scheduled, Claiming
<1>2. IInv /\ SessionKept /\ InOrder /\ [Next /\ ~LoseSession]_vars
        => (IInv /\ SessionKept /\ InOrder)'
  BY <1>1, Inductive, SessionKeptStep, InOrderStep
<1>3. Init => IInv /\ SessionKept /\ InOrder
  BY InitIInv, InitInOrder DEF Init, SessionKept, Asleep
<1>4. ASSUME IInv, InOrder, [Next /\ ~LoseSession]_vars
      PROVE  [\A a \in Actions :
                answer[a] = "none" /\ answer'[a] = "accepted"
                  /\ (\A c \in Orders : answer[c] = "none") =>
                \A b \in Pending : rows[b].due >= rows[a].due]_vars
  BY <1>4, NothingOvertaken DEF NoOrderYet
<1>5. QED
  BY <1>2, <1>3, <1>4, PTL DEF InDueOrder

(* Where no action takes another off the schedule, what is off it has      *)
(* happened.                                                               *)
OffIsDone ==
  NoOrderYet => \A a \in Actions : rows[a].status = "completed" => answer[a] = "accepted"

LEMMA OffIsDoneStep ==
  ASSUME IInv, OffIsDone, [Next]_vars, \A a \in Actions : Replaces[a] \cap Actions \subseteq {a}
  PROVE  OffIsDone'
<1> SUFFICES ASSUME NoOrderYet', NEW a \in Actions, rows'[a].status = "completed"
             PROVE  answer'[a] = "accepted"
  BY DEF OffIsDone
<1>1. TypeOK /\ Onwards /\ WorldStep /\ Actions \subseteq Commands
  BY StepKinds, OnwardsStep DEF IInv, Commands
<1>2. NoOrderYet
  BY <1>1 DEF NoOrderYet, Onwards, Commands
<1>3. ASSUME rows[a].status = "completed" PROVE answer'[a] = "accepted"
  BY <1>1, <1>2, <1>3 DEF OffIsDone, Onwards
<1>4. ASSUME NEW c \in Commands, NEW at \in Times, Happens(c, at)
      PROVE  answer'[a] = "accepted"
  <2>1. answer'[c] = "accepted"
    BY <1>1, <1>4 DEF Happens, Accept, TypeOK
  <2>2. c \in Actions
    BY <2>1 DEF NoOrderYet, Commands
  <2>3. CASE a \in Removed(c)
    BY <2>1, <2>2, <2>3 DEF Removed
  <2>4. CASE a \notin Removed(c)
    BY <1>1, <1>3, <1>4, <2>4, AcceptedRow
  <2>5. QED
    BY <2>3, <2>4
<1>5. ASSUME NEW b \in Actions, Fails(b) PROVE rows[a].status = "completed"
  BY <1>1, <1>5 DEF Fails, TypeOK, Rows
<1>6. ASSUME Leases \/ rows' = rows PROVE rows[a].status = "completed"
  BY <1>6 DEF Leases
<1>7. QED
  BY <1>1, <1>3, <1>4, <1>5, <1>6 DEF WorldStep, Refuses, Reject, Sees, world

(* Where no action takes another off the schedule, the order does not need *)
(* the lock: a tick that has lost it disturbs nothing, as it executes only *)
(* what is still due.                                                      *)
THEOREM DueOrderWithoutLock ==
  ASSUME \A a \in Actions : Replaces[a] \cap Actions \subseteq {a}
  PROVE  Spec => InDueOrder
<1>1. ASSUME IInv, OffIsDone, NoOrderYet PROVE Scheduled
  <2>1. SUFFICES ASSUME NEW w \in Workers, worker[w].step = "execute",
                        answer[Turn(w)] = "none"
                 PROVE  Turn(w) \in Pending
    BY DEF Scheduled
  <2>2. Turn(w) \in Actions /\ rows[Turn(w)].status # "absent"
    BY <1>1, <2>1, MomentIsSeen
  <2>3. rows[Turn(w)].status \in Statuses
    BY <1>1, <2>2 DEF IInv, TypeOK, Rows
  <2>4. rows[Turn(w)].status \notin {"completed", "failed"}
    BY <1>1, <2>1, <2>2 DEF OffIsDone, IInv, RowsTellOutcome
  <2>5. QED
    BY <2>2, <2>3, <2>4 DEF Pending, Statuses
<1>2. IInv /\ OffIsDone /\ InOrder /\ [Next]_vars => (IInv /\ OffIsDone /\ InOrder)'
  BY <1>1, Inductive, OffIsDoneStep, InOrderStep
<1>3. Init => IInv /\ OffIsDone /\ InOrder
  BY InitIInv, InitInOrder DEF Init, OffIsDone, Row, NoRow
<1>4. ASSUME IInv, InOrder, [Next]_vars
      PROVE  [\A a \in Actions :
                answer[a] = "none" /\ answer'[a] = "accepted"
                  /\ (\A c \in Orders : answer[c] = "none") =>
                \A b \in Pending : rows[b].due >= rows[a].due]_vars
  BY <1>4, NothingOvertaken DEF NoOrderYet
<1>5. QED
  BY <1>2, <1>3, <1>4, PTL DEF Spec, InDueOrder

-----------------------------------------------------------------------------
(* The first pages of the story, up to page n.                             *)
Pages(n, h) == h = [k \in 0 .. n |-> IF k = 0 THEN FirstPage ELSE NextPage(h[k - 1])]

(* There is one way to tell them.                                          *)
LEMMA PagesAgree ==
  ASSUME NEW n \in Nat, NEW m \in Nat, NEW g, NEW h, Pages(n, g), Pages(m, h)
  PROVE  \A k \in 0 .. n : k <= m => g[k] = h[k]
<1> DEFINE Differ == {k \in 0 .. n : k <= m /\ g[k] # h[k]}
<1>1. SUFFICES ASSUME Differ # {} PROVE FALSE
  OBVIOUS
<1>2. Differ \subseteq Nat
  OBVIOUS
<1>3. PICK k \in Differ : \A j \in Differ : k <= j
  <2> HIDE DEF Differ
  <2>1. QED
    BY <1>1, <1>2, LeastNat
<1>4. /\ g[k] = IF k = 0 THEN FirstPage ELSE NextPage(g[k - 1])
      /\ h[k] = IF k = 0 THEN FirstPage ELSE NextPage(h[k - 1])
  <2>1. k \in 0 .. n /\ k \in 0 .. m
    OBVIOUS
  <2>2. QED
    BY <2>1 DEF Pages
<1>5. CASE k = 0
  BY <1>4, <1>5
<1>6. CASE k # 0
  <2>1. k - 1 \in 0 .. n /\ k - 1 <= m /\ ~(k <= k - 1)
    BY <1>6
  <2>2. g[k - 1] = h[k - 1]
    BY <1>3, <2>1
  <2>3. QED
    BY <1>4, <1>6, <2>2
<1>7. QED
  BY <1>5, <1>6

(* And there is a way.                                                     *)
LEMMA PagesExist ==
  \A n \in Nat : \E h : Pages(n, h)
<1> DEFINE Missing == {n \in Nat : ~ \E h : Pages(n, h)}
<1>1. SUFFICES ASSUME Missing # {} PROVE FALSE
  OBVIOUS
<1>2. PICK n \in Missing : \A m \in Missing : n <= m
  <2>1. Missing \subseteq Nat
    OBVIOUS
  <2> HIDE DEF Missing
  <2>2. QED
    BY <1>1, <2>1, LeastNat
<1>3. CASE n = 0
  <2> DEFINE h == [k \in 0 .. 0 |-> FirstPage]
  <2>1. h = [k \in 0 .. 0 |-> IF k = 0 THEN FirstPage ELSE NextPage(h[k - 1])]
    OBVIOUS
  <2>2. Pages(0, h)
    BY <2>1 DEF Pages
  <2>3. QED
    BY <1>3, <2>2
<1>4. CASE n # 0
  <2>1. n - 1 \in Nat /\ ~(n <= n - 1)
    BY <1>4
  <2>2. PICK g : Pages(n - 1, g)
    BY <1>2, <2>1
  <2>3. \A k \in 0 .. (n - 1) : g[k] = IF k = 0 THEN FirstPage ELSE NextPage(g[k - 1])
    BY <2>2 DEF Pages
  <2> DEFINE h == [k \in 0 .. n |-> IF k = n THEN NextPage(g[n - 1]) ELSE g[k]]
  <2>4. ASSUME NEW k \in 0 .. n
        PROVE  h[k] = IF k = 0 THEN FirstPage ELSE NextPage(h[k - 1])
    <3>1. CASE k = n
      BY <1>4, <2>1, <3>1
    <3>2. CASE k # n
      <4>1. k \in 0 .. (n - 1) /\ h[k] = g[k]
        BY <3>2
      <4>2. k # 0 => k - 1 \in 0 .. n /\ k - 1 # n /\ h[k - 1] = g[k - 1]
        BY <3>2
      <4>3. QED
        BY <2>3, <4>1, <4>2
    <3>3. QED
      BY <3>1, <3>2
  <2>5. h = [k \in 0 .. n |-> IF k = 0 THEN FirstPage ELSE NextPage(h[k - 1])]
    BY <2>4
  <2>6. Pages(n, h)
    BY <2>5 DEF Pages
  <2>7. QED
    BY <2>6
<1>5. QED
  BY <1>3, <1>4

(* So each page of the story follows from the one before.                  *)
LEMMA StoryUnfolds ==
  Story[0] = FirstPage /\ \A n \in Nat : Story[n + 1] = NextPage(Story[n])
<1> DEFINE Tells(f) == f = [n \in Nat |-> IF n = 0 THEN FirstPage ELSE NextPage(f[n - 1])]
           upto == [n \in Nat |-> CHOOSE h : Pages(n, h)]
           story == [n \in Nat |-> upto[n][n]]
<1>1. \A n \in Nat : Pages(n, upto[n])
  BY PagesExist
<1>2. ASSUME NEW n \in Nat
      PROVE  story[n] = IF n = 0 THEN FirstPage ELSE NextPage(story[n - 1])
  <2>1. upto[n][n] = IF n = 0 THEN FirstPage ELSE NextPage(upto[n][n - 1])
    <3> HIDE DEF upto
    <3>1. Pages(n, upto[n]) /\ n \in 0 .. n
      BY <1>1
    <3>2. QED
      BY <3>1 DEF Pages
  <2>2. CASE n # 0
    <3>1. n - 1 \in Nat /\ n - 1 \in 0 .. n - 1 /\ n - 1 <= n
      BY <2>2
    <3>2. upto[n - 1][n - 1] = upto[n][n - 1]
      <4> HIDE DEF upto
      <4>1. Pages(n - 1, upto[n - 1]) /\ Pages(n, upto[n])
        BY <1>1, <3>1
      <4>2. \A k \in 0 .. n - 1 : k <= n => upto[n - 1][k] = upto[n][k]
        BY <3>1, <4>1, PagesAgree
      <4>3. QED
        BY <3>1, <4>2
    <3>3. story[n] = upto[n][n] /\ story[n - 1] = upto[n - 1][n - 1]
      BY <3>1
    <3> HIDE DEF upto, story
    <3>4. QED
      BY <2>1, <2>2, <3>2, <3>3
  <2>3. CASE n = 0
    <3>1. story[n] = upto[n][n]
      OBVIOUS
    <3> HIDE DEF upto, story
    <3>2. QED
      BY <2>1, <2>3, <3>1
  <2>4. QED
    BY <2>2, <2>3
<1>3. Tells(story)
  <2>1. story = [n \in Nat |-> story[n]]
    OBVIOUS
  <2> HIDE DEF story
  <2>2. QED
    BY <1>2, <2>1
<1>4. Tells(Story)
  <2>1. Story = CHOOSE f : Tells(f)
    BY DEF Story
  <2>2. QED
    <3> HIDE DEF story, Tells
    <3>1. QED
      BY <1>3, <2>1
<1>5. QED
  BY <1>4

-----------------------------------------------------------------------------
(* What is left on the schedule is ahead of the world, and what is on it   *)
(* and has an owner is being served by the tick of that owner.             *)
Timely == \A a \in Pending : time <= rows[a].due

Serving == {"hold", "execute"}
Served == {a \in Pending : rows[a].owner # Nobody}

Leased ==
  \A a \in Served :
    worker[rows[a].owner].step \in Serving /\ a \in worker[rows[a].owner].batch

(* What a tick believes, while it is the only one that ever was: that it is*)
(* now what it read or did last, that there is something to claim at its   *)
(* moment, that its batch is its own, that its turn is still to come.      *)
Trusts(w) ==
  LET k == worker[w]
  IN /\ k.step \in {"observe", "look", "claim", "hold", "execute"} => k.now = time
     /\ k.step = "claim" => \E a \in Pending : rows[a].due = k.moment
     /\ k.step \in Serving => \A a \in k.batch \cap Pending : rows[a].owner = w
     /\ k.step = "execute" =>
          \A a \in k.batch : (\A b \in k.batch \ {a} : Before(a, b)) => a \in Pending

(* The page of the story the world is on. One on which nothing is being    *)
(* served comes after at most two pages for each action that has happened; *)
(* one more is needed to claim.                                            *)
Page ==
  [due |-> [a \in Pending |-> rows[a].due],
   seen |-> {a \in Actions : rows[a].status # "absent"},
   batch |-> Served,
   done |-> chronicle]

StoryTold ==
  \E k \in 0 .. (2 * Len(chronicle) + 1) :
    /\ Story[k] = Page
    /\ k = 2 * Len(chronicle) + 1 => Served # {} /\ Story[k - 1].done = chronicle

Undisturbed ==
  /\ IsFiniteSet(Pending) /\ Timely /\ Leased /\ StoryTold
  /\ \A w \in Workers : AheadOf(w) /\ Trusts(w)

Unfolds == Uninterrupted => Undisturbed

(* Without faults and refusals there is one tick at a time, nothing fails, *)
(* and the tick has nothing to mark.                                       *)
LEMMA CalmFacts ==
  ASSUME IInv, Uninterrupted
  PROVE  /\ SessionKept /\ NoOrderYet
         /\ \A w, v \in Workers :
              worker[w].step # "asleep" /\ worker[v].step # "asleep" => w = v
         /\ \A a \in Actions : rows[a].status # "failed"
         /\ \A w \in Workers : worker[w].step # "mark"
<1>1. SessionKept /\ NoOrderYet
  BY DEF IInv, OneTick, Uninterrupted, SessionKept, NoOrderYet
<1>2. \A a \in Actions : rows[a].status # "failed"
  BY DEF IInv, RowsTellOutcome, Uninterrupted, Commands
<1>3. ASSUME NEW w \in Workers, worker[w].step = "mark" PROVE FALSE
  <2>1. worker[w].batch # {} /\ TypeOK /\ Sound(w)
    BY <1>3 DEF IInv, TickSound, Sound
  <2>2. /\ Turn(w) \in worker[w].batch /\ Turn(w) \in Actions
        /\ \A b \in worker[w].batch \ {Turn(w)} : Before(Turn(w), b)
    BY <2>1, TurnInBatch
  <2>3. answer[Turn(w)] = "rejected"
    BY <1>3, <2>1, <2>2 DEF Sound
  <2>4. QED
    BY <2>2, <2>3 DEF Uninterrupted, Commands
<1>4. QED
  BY <1>1, <1>2, <1>3 DEF SessionKept

(* What is undisturbed has been so from the start.                         *)
LEMMA CalmBefore ==
  ASSUME IInv, [Next]_vars, Uninterrupted'
  PROVE  /\ Uninterrupted /\ UNCHANGED faults
         /\ \A w \in Workers : ~Crash(w)
         /\ ~LoseSession /\ \A c \in Commands : ~Reject(c)
         /\ Obey => UNCHANGED world
<1>1. /\ TypeOK /\ Onwards /\ Actions \subseteq Commands /\ Orders \subseteq Commands
      /\ faults \in Nat
  BY StepKinds, OnwardsStep DEF IInv, Commands, TypeOK
<1>2. (\A w \in Workers : ~Crash(w)) /\ ~LoseSession
  BY <1>1 DEF Crash, LoseSession, Uninterrupted
<1>3. UNCHANGED faults
  <2>1. ASSUME NEW w \in Workers, Work(w) \/ \E horizon \in Times : Read(w, horizon)
        PROVE  UNCHANGED faults
    BY <1>1, <2>1, TickGoesOn
  <2>2. QED
    BY <1>2, <2>1 DEF Next, Advance, TryLock, Obey, Expire, Ask, vars
<1>4. Uninterrupted
  BY <1>1, <1>3 DEF Uninterrupted, Onwards
<1>5. ASSUME NEW c \in Commands, Reject(c) PROVE FALSE
  BY <1>1, <1>5 DEF Reject, TypeOK, Uninterrupted
<1>6. ASSUME Obey PROVE UNCHANGED world
  <2>1. order[1] \in Orders /\ order[2] \in Times
    BY <1>1, <1>6 DEF Obey, TypeOK, NoOrder
  <2>2. ASSUME NEW at \in Times, Accept(order[1], at) PROVE FALSE
    BY <1>1, <2>1, <2>2 DEF Accept, TypeOK, Uninterrupted
  <2>3. QED
    BY <1>1, <1>5, <1>6, <2>1, <2>2 DEF Obey
<1>7. QED
  BY <1>2, <1>3, <1>4, <1>5, <1>6

LEMMA CalmAhead ==
  ASSUME IInv, [Next]_vars, Uninterrupted, Undisturbed, Uninterrupted'
  PROVE  \A w \in Workers : AheadOf(w)'
<1>1. InOrder
  BY DEF Undisturbed, InOrder
<1>2. Scheduled
  BY CalmFacts DEF SessionKept, Scheduled, Claiming
<1>3. InOrder'
  BY <1>1, <1>2, InOrderStep
<1>4. NoOrderYet'
  BY DEF Uninterrupted, NoOrderYet
<1>5. QED
  BY <1>3, <1>4 DEF InOrder

-----------------------------------------------------------------------------
(* What neither claims nor executes leaves the world on the same page.     *)
SamePage ==
  /\ UNCHANGED <<time, chronicle>>
  /\ \A a \in Actions :
       /\ rows'[a].due = rows[a].due /\ rows'[a].status = rows[a].status
       /\ rows'[a].owner = rows[a].owner

LEMMA SamePageStep ==
  ASSUME SamePage
  PROVE  /\ Pending' = Pending /\ Served' = Served /\ Page' = Page
         /\ IsFiniteSet(Pending) => IsFiniteSet(Pending)'
         /\ Timely => Timely'
         /\ StoryTold => StoryTold'
         /\ \A a, b \in Actions : Before(a, b)' <=> Before(a, b)
<1>1. Pending' = Pending /\ Pending \subseteq Actions
  BY DEF SamePage, Pending
<1>2. Served' = Served
  BY <1>1 DEF SamePage, Served
<1>3. Page' = Page
  <2>1. [a \in Pending |-> rows[a].due]' = [a \in Pending |-> rows[a].due]
    BY <1>1 DEF SamePage
  <2>2. {a \in Actions : rows[a].status # "absent"}'
          = {a \in Actions : rows[a].status # "absent"}
    BY DEF SamePage
  <2>3. QED
    BY <1>2, <2>1, <2>2 DEF Page, SamePage
<1>4. Timely => Timely'
  BY <1>1 DEF SamePage, Timely
<1>5. StoryTold => StoryTold'
  BY <1>2, <1>3 DEF StoryTold, SamePage
<1>6. \A a, b \in Actions : Before(a, b)' <=> Before(a, b)
  BY DEF SamePage, Before
<1>7. QED
  BY <1>1, <1>2, <1>3, <1>4, <1>5, <1>6

(* A tick that does not move goes on believing what it did, and so does one*)
(* that has only begun.                                                    *)
LEMMA TrustStays ==
  ASSUME TypeOK, SamePage, NEW w \in Workers, worker'[w] = worker[w], Trusts(w)
  PROVE  Trusts(w)'
<1>1. worker[w].batch \subseteq Actions /\ Pending \subseteq Actions
  BY DEF TypeOK, Ticks, Pending
<1>2. Pending' = Pending /\ \A a, b \in Actions : Before(a, b)' <=> Before(a, b)
  BY SamePageStep
<1>3. worker[w].step \in {"observe", "look", "claim", "hold", "execute"}
        => worker'[w].now = time'
  BY DEF Trusts, SamePage
<1>4. worker[w].step = "claim" => \E a \in Pending : rows'[a].due = worker[w].moment
  BY <1>1 DEF Trusts, SamePage
<1>5. worker[w].step \in Serving => \A a \in worker[w].batch \cap Pending : rows'[a].owner = w
  BY <1>1 DEF Trusts, SamePage
<1>6. ASSUME worker[w].step = "execute", NEW a \in worker[w].batch,
             \A b \in worker[w].batch \ {a} : Before(a, b)'
      PROVE  a \in Pending
  <2>1. \A b \in worker[w].batch \ {a} : Before(a, b)
    BY <1>1, <1>2, <1>6
  <2>2. QED
    BY <1>6, <2>1 DEF Trusts
<1>7. QED
  BY <1>2, <1>3, <1>4, <1>5, <1>6 DEF Trusts

LEMMA TrustBegins ==
  ASSUME NEW w \in Workers, worker'[w].step \in {"asleep", "start"}
  PROVE  Trusts(w)'
BY DEF Trusts, Serving

(* A tick that stays on the page, keeps what it has leased and believes    *)
(* only what is so disturbs nothing.                                       *)
LEMMA CalmMove ==
  ASSUME IInv, [Next]_vars, Uninterrupted, Undisturbed, Uninterrupted', SamePage,
         NEW w \in Workers, \A v \in Workers \ {w} : worker'[v] = worker[v],
         Trusts(w)',
         \A a \in Served : rows[a].owner = w =>
           worker'[w].step \in Serving /\ a \in worker'[w].batch
  PROVE  Undisturbed'
<1>1. TypeOK /\ \A a \in Served : rows[a].owner \in Workers /\ a \in Actions
  BY DEF IInv, TypeOK, Rows, Served, Pending
<1>2. /\ Pending' = Pending /\ Served' = Served
      /\ IsFiniteSet(Pending)' /\ Timely' /\ StoryTold'
  BY SamePageStep DEF Undisturbed
<1>3. Leased'
  <2>1. SUFFICES ASSUME NEW a \in Served
                 PROVE  /\ worker'[rows[a].owner].step \in Serving
                        /\ a \in worker'[rows[a].owner].batch
    BY <1>1, <1>2 DEF Leased, SamePage
  <2>2. CASE rows[a].owner = w
    BY <2>2
  <2>3. CASE rows[a].owner # w
    BY <1>1, <2>3 DEF Undisturbed, Leased
  <2>4. QED
    BY <2>2, <2>3
<1>4. ASSUME NEW v \in Workers PROVE Trusts(v)'
  <2>1. CASE v = w
    BY <2>1
  <2>2. CASE v # w
    BY <1>1, <2>2, TrustStays DEF Undisturbed
  <2>3. QED
    BY <2>1, <2>2
<1>5. QED
  BY <1>2, <1>3, <1>4, CalmAhead DEF Undisturbed

-----------------------------------------------------------------------------
(* The first rows of a claim are as many of the next moment's actions as   *)
(* fit in a batch, those with the lowest numbers.                          *)
LEMMA TakenIsBatch ==
  ASSUME NEW free, free \subseteq Nat, IsFiniteSet(free), NEW taken \in SUBSET free,
         Cardinality(taken) = BatchSize \/ (Cardinality(free) < BatchSize /\ taken = free),
         \A a \in taken, b \in free \ taken : a < b
  PROVE  taken = {a \in free : Cardinality({b \in free : b < a}) < BatchSize}
<1>0. BatchSize \in Nat
  BY ScheduleAssumption
<1>1. IsFiniteSet(taken) /\ Cardinality(taken) \in Nat /\ Cardinality(taken) <= BatchSize
  <2>1. IsFiniteSet(taken)
    BY FS_Subset
  <2>2. Cardinality(taken) \in Nat
    BY <2>1, FS_CardinalityType
  <2>3. QED
    BY <1>0, <2>1, <2>2
<1>2. ASSUME NEW a \in taken PROVE Cardinality({b \in free : b < a}) < BatchSize
  <2>1. {b \in free : b < a} \subseteq taken \ {a}
    <3>1. ASSUME NEW b \in free, b < a PROVE b \in taken /\ b # a
      <4>1. a \in Nat /\ b \in Nat
        OBVIOUS
      <4>2. ~(a < b)
        BY <3>1, <4>1
      <4>3. QED
        BY <3>1, <4>1, <4>2
    <3>2. QED
      BY <3>1
  <2>2. IsFiniteSet(taken \ {a}) /\ Cardinality(taken \ {a}) = Cardinality(taken) - 1
    BY <1>1, FS_RemoveElement
  <2>3. /\ IsFiniteSet({b \in free : b < a})
        /\ Cardinality({b \in free : b < a}) <= Cardinality(taken \ {a})
    BY <2>1, <2>2, FS_Subset
  <2>4. Cardinality({b \in free : b < a}) \in Nat
    BY <2>3, FS_CardinalityType
  <2>5. QED
    BY <1>0, <1>1, <2>2, <2>3, <2>4
<1>3. ASSUME NEW a \in free, a \notin taken
      PROVE  ~(Cardinality({b \in free : b < a}) < BatchSize)
  <2>1. Cardinality(taken) = BatchSize
    BY <1>3
  <2>2. taken \in SUBSET {b \in free : b < a}
    BY <1>3
  <2>3. IsFiniteSet({b \in free : b < a})
    BY FS_Subset
  <2>4. Cardinality(taken) <= Cardinality({b \in free : b < a})
    BY <2>2, <2>3, FS_Subset
  <2>5. Cardinality({b \in free : b < a}) \in Nat
    BY <2>3, FS_CardinalityType
  <2>6. QED
    BY <1>0, <2>1, <2>4, <2>5
<1>4. QED
  BY <1>2, <1>3

(* When the world turns the page, it is still in the story.                *)
LEMMA PageTurns ==
  ASSUME TypeOK, StoryTold, Page' = NextPage(Page),
         \/ Served = {} /\ Served' # {} /\ chronicle' = chronicle
         \/ Served # {} /\ \E t \in Commands \X Times : chronicle' = Append(chronicle, t)
  PROVE  StoryTold'
<1>1. PICK k \in 0 .. (2 * Len(chronicle) + 1) :
        /\ Story[k] = Page
        /\ k = 2 * Len(chronicle) + 1 => Served # {} /\ Story[k - 1].done = chronicle
  BY DEF StoryTold
<1>2. Len(chronicle) \in Nat /\ k \in Nat /\ k <= 2 * Len(chronicle) + 1
  BY DEF TypeOK
<1>3. Story[k + 1] = Page'
  BY <1>1, <1>2, StoryUnfolds
<1>4. (k + 1) - 1 = k
  BY <1>2
<1>5. CASE Served = {} /\ Served' # {} /\ chronicle' = chronicle
  <2>1. k + 1 \in 0 .. (2 * Len(chronicle') + 1)
    BY <1>1, <1>2, <1>5
  <2>2. Story[(k + 1) - 1].done = chronicle'
    BY <1>1, <1>4, <1>5 DEF Page
  <2>3. QED
    BY <1>3, <1>5, <2>1, <2>2 DEF StoryTold
<1>6. CASE Served # {} /\ \E t \in Commands \X Times : chronicle' = Append(chronicle, t)
  <2>1. Len(chronicle') = Len(chronicle) + 1
    BY <1>6 DEF TypeOK
  <2>2. k + 1 \in 0 .. (2 * Len(chronicle') + 1) /\ k + 1 # 2 * Len(chronicle') + 1
    BY <1>2, <2>1
  <2>3. QED
    BY <1>3, <2>2 DEF StoryTold
<1>7. QED
  BY <1>5, <1>6

(* At rest, the moment of a claim is that of the next page.                *)
LEMMA ClaimsTheNext ==
  ASSUME IInv, Uninterrupted, Undisturbed, NEW w \in Workers, worker[w].step = "claim"
  PROVE  /\ Served = {}
         /\ Claimable(worker[w].moment) = Soonest(Page) /\ Soonest(Page) # {}
         /\ \A a \in Soonest(Page) : a \in Pending /\ rows[a].due = worker[w].moment
<1> DEFINE m == worker[w].moment
<1>0. /\ TypeOK /\ AheadOf(w) /\ Trusts(w) /\ Leased /\ m \in Nat
      /\ \A a \in Pending : a \in Actions /\ rows[a].due \in Nat
  BY DEF IInv, Undisturbed, TypeOK, Ticks, Rows, Times, Pending
<1>1. Served = {}
  <2>1. SUFFICES ASSUME NEW a \in Served PROVE FALSE
    OBVIOUS
  <2>2. rows[a].owner \in Workers
    BY <1>0 DEF TypeOK, Rows, Served, Pending
  <2>3. worker[rows[a].owner].step \in Serving
    BY <1>0 DEF Leased
  <2>4. rows[a].owner = w
    BY <2>2, <2>3, CalmFacts DEF Serving
  <2>5. QED
    BY <2>3, <2>4 DEF Serving
<1>2. PICK c \in Pending : rows[c].due = m
  BY <1>0 DEF Trusts
<1>3. \A b \in Pending : m <= rows[b].due
  BY <1>0 DEF AheadOf, Claiming
<1>4. DOMAIN Page.due = Pending /\ \A a \in Pending : Page.due[a] = rows[a].due
  BY DEF Page
<1>5. Soonest(Page) = {a \in Pending : rows[a].due = m}
  <2>1. Soonest(Page) = {a \in Pending : \A b \in Pending : rows[a].due <= rows[b].due}
    BY <1>4 DEF Soonest
  <2>2. ASSUME NEW a \in Pending
        PROVE  (\A b \in Pending : rows[a].due <= rows[b].due) <=> rows[a].due = m
    <3>1. ASSUME \A b \in Pending : rows[a].due <= rows[b].due PROVE rows[a].due = m
      <4>1. rows[a].due <= m /\ m <= rows[a].due
        BY <1>2, <1>3, <3>1
      <4>2. QED
        BY <1>0, <4>1
    <3>2. QED
      BY <1>3, <3>1
  <2> HIDE DEF m
  <2>3. QED
    BY <2>1, <2>2
<1>6. Claimable(m) = {a \in Pending : rows[a].due = m}
  <2>1. \A a \in Pending : rows[a].owner = Nobody
    BY <1>1 DEF Served
  <2>2. \A a \in Pending : rows[a].due <= m <=> rows[a].due = m
    BY <1>0, <1>3
  <2> HIDE DEF m
  <2>3. QED
    BY <2>1, <2>2 DEF Claimable, Due, Unleased
<1>7. QED
  BY <1>1, <1>2, <1>5, <1>6

LEMMA CalmClaim ==
  ASSUME IInv, [Next]_vars, Uninterrupted, Undisturbed, Uninterrupted',
         NEW w \in Workers, Claim(w)
  PROVE  Undisturbed'
<1> DEFINE m == worker[w].moment
           free == Soonest(Page)
<1>0. /\ TypeOK /\ worker[w].step = "claim" /\ worker[w] \in Ticks
      /\ UNCHANGED <<time, chronicle>> /\ \A v \in Workers \ {w} : worker'[v] = worker[v]
  BY DEF IInv, TypeOK, Claim
<1>1. /\ Served = {} /\ Claimable(m) = free /\ free # {}
      /\ \A a \in free : a \in Pending /\ rows[a].due = m
  BY <1>0, ClaimsTheNext
<1>2. PICK taken \in SUBSET free :
        /\ Cardinality(taken) = BatchSize \/ (Cardinality(free) < BatchSize /\ taken = free)
        /\ \A a \in taken, b \in free \ taken : Before(a, b)
        /\ rows' = [a \in Actions |->
             IF a \in taken THEN [rows[a] EXCEPT !.owner = w, !.live = TRUE] ELSE rows[a]]
        /\ worker' = [worker EXCEPT ![w] = [@ EXCEPT !.step = "hold", !.batch = taken]]
  <2>1. PICK taken \in SUBSET Claimable(m) :
          /\ \/ Cardinality(taken) = BatchSize
             \/ Cardinality(Claimable(m)) < BatchSize /\ taken = Claimable(m)
          /\ \A a \in taken, b \in Claimable(m) \ taken : Before(a, b)
          /\ rows' = [a \in Actions |->
               IF a \in taken THEN [rows[a] EXCEPT !.owner = w, !.live = TRUE] ELSE rows[a]]
          /\ worker' = [worker EXCEPT ![w] = [@ EXCEPT !.step = "hold", !.batch = taken]]
    BY DEF Claim
  <2> HIDE DEF free, m
  <2>2. QED
    BY <1>1, <2>1
<1>3. ASSUME NEW a \in Actions
      PROVE  /\ rows'[a].due = rows[a].due /\ rows'[a].status = rows[a].status
             /\ rows'[a].owner = IF a \in taken THEN w ELSE rows[a].owner
  <2>1. rows[a] \in Rows
    BY <1>0 DEF TypeOK
  <2>2. CASE a \in taken
    <3>1. rows'[a] = [rows[a] EXCEPT !.owner = w, !.live = TRUE]
      BY <1>2, <2>2
    <3>2. QED
      BY <2>1, <2>2, <3>1 DEF Rows
  <2>3. CASE a \notin taken
    BY <1>2, <2>3
  <2>4. QED
    BY <2>2, <2>3
<1>4. Pending' = Pending /\ Pending \subseteq Actions
  BY <1>3 DEF Pending
<1>5. Served' = taken
  <2>1. \A a \in Pending : rows[a].owner = Nobody
    BY <1>1 DEF Served
  <2>2. w # Nobody
    BY ScheduleAssumption
  <2>3. taken \subseteq Pending
    BY <1>1
  <2> HIDE DEF free
  <2>4. QED
    BY <1>3, <1>4, <2>1, <2>2, <2>3 DEF Served
<1>6. /\ worker'[w].step = "hold" /\ worker'[w].batch = taken
      /\ worker'[w].now = worker[w].now
  <2> HIDE DEF free
  <2>1. worker'[w] = [worker[w] EXCEPT !.step = "hold", !.batch = taken]
    BY <1>0, <1>2 DEF TypeOK
  <2>2. QED
    BY <1>0, <2>1 DEF Ticks
<1>7. IsFiniteSet(free) /\ free \subseteq Nat
  <2>1. free \in SUBSET Pending /\ IsFiniteSet(Pending) /\ Actions \subseteq Nat
    BY <1>1, ScheduleAssumption DEF Undisturbed
  <2> HIDE DEF free
  <2>2. QED
    BY <1>4, <2>1, FS_Subset
<1>8. taken = Batch(Page) /\ taken # {}
  <2>1. \A a \in taken, b \in free \ taken : a < b
    <3>1. SUFFICES ASSUME NEW a \in taken, NEW b \in free \ taken PROVE a < b
      OBVIOUS
    <3>2. rows[a].due = m /\ rows[b].due = m /\ m \in Nat
      BY <1>0, <1>1 DEF Ticks, Times
    <3>3. Before(a, b)
      BY <1>2, <3>1
    <3> HIDE DEF free, m
    <3>4. QED
      BY <3>2, <3>3 DEF Before
  <2>2. taken = {a \in free : Cardinality({b \in free : b < a}) < BatchSize}
    <3> HIDE DEF free
    <3>1. QED
      BY <1>2, <1>7, <2>1, TakenIsBatch
  <2>3. taken # {}
    <3> HIDE DEF free
    <3>1. QED
      BY <1>1, <1>2, FS_EmptySet, ScheduleAssumption
  <2>4. QED
    BY <2>2, <2>3 DEF Batch
<1>9. Page' = NextPage(Page)
  <2>1. NextPage(Page) = [Page EXCEPT !.batch = Batch(Page)]
    BY <1>1 DEF NextPage, Page
  <2>2. [a \in Pending |-> rows[a].due]' = [a \in Pending |-> rows[a].due]
    BY <1>3, <1>4
  <2>3. {a \in Actions : rows[a].status # "absent"}'
          = {a \in Actions : rows[a].status # "absent"}
    BY <1>3
  <2>4. Page' = [due |-> Page.due, seen |-> Page.seen, batch |-> taken, done |-> Page.done]
    BY <1>0, <1>5, <2>2, <2>3 DEF Page
  <2>5. QED
    BY <1>8, <2>1, <2>4 DEF Page
<1>10. StoryTold'
  BY <1>0, <1>1, <1>5, <1>8, <1>9, PageTurns DEF Undisturbed
<1>11. IsFiniteSet(Pending)' /\ Timely'
  BY <1>0, <1>3, <1>4 DEF Undisturbed, Timely
<1>12. Leased'
  <2>1. \A a \in taken : rows'[a].owner = w
    BY <1>1, <1>3, <1>4
  <2> HIDE DEF free
  <2>2. QED
    BY <1>5, <1>6, <2>1 DEF Leased, Serving
<1>13. Trusts(w)'
  <2>1. \A a \in taken : rows'[a].owner = w
    BY <1>1, <1>3, <1>4
  <2>2. worker[w].now = time
    BY <1>0 DEF Undisturbed, Trusts
  <2> HIDE DEF free
  <2>3. QED
    BY <1>0, <1>6, <2>1, <2>2 DEF Trusts, Serving
<1>14. ASSUME NEW v \in Workers, v # w PROVE Trusts(v)'
  <2>1. worker[v].step = "asleep" /\ worker'[v] = worker[v]
    BY <1>0, <1>14, CalmFacts
  <2>2. QED
    BY <2>1, TrustBegins
<1>15. QED
  BY <1>10, <1>11, <1>12, <1>13, <1>14, CalmAhead DEF Undisturbed

-----------------------------------------------------------------------------
(* An undisturbed tick executes what the story tells next, when it tells it*)
LEMMA ExecutesTheNext ==
  ASSUME IInv, Uninterrupted, Undisturbed, NEW w \in Workers, worker[w].step = "execute"
  PROVE  /\ Turn(w) \in Served /\ Moment(w) = rows[Turn(w)].due
         /\ time <= Moment(w) /\ Moment(w) \in Times
         /\ Turn(w) = CHOOSE a \in Served : \A b \in Served : a <= b
         /\ \A b \in Pending : Moment(w) <= rows[b].due
         /\ answer[Turn(w)] = "none"
<1> DEFINE k == worker[w]
<1>0. /\ TypeOK /\ AheadOf(w) /\ Trusts(w) /\ Leased /\ Timely /\ Sound(w)
      /\ k.moment \in Nat /\ k.batch \subseteq Actions /\ k.now = time /\ time \in Nat
      /\ k.batch # {} /\ Actions \subseteq Nat
  <2>1. TypeOK /\ AheadOf(w) /\ Trusts(w) /\ Leased /\ Timely /\ Sound(w)
    BY DEF IInv, Undisturbed, TickSound
  <2>2. k \in Ticks /\ time \in Times
    BY <2>1 DEF TypeOK
  <2>3. k.moment \in Times /\ k.batch \subseteq Actions
    BY <2>2 DEF Ticks
  <2>4. k.now = time
    BY <2>1 DEF Trusts
  <2>5. k.batch # {}
    BY <2>1 DEF Sound
  <2>6. QED
    BY <2>1, <2>2, <2>3, <2>4, <2>5, ScheduleAssumption DEF Times
<1>1. /\ Turn(w) \in k.batch /\ Turn(w) \in Actions
      /\ \A b \in k.batch \ {Turn(w)} : Before(Turn(w), b)
  BY <1>0, TurnInBatch
<1>2. Turn(w) \in Pending
  BY <1>0, <1>1 DEF Trusts
<1>3. Turn(w) \in Served
  BY <1>0, <1>1, <1>2, ScheduleAssumption DEF Trusts, Serving, Served
<1>4. \A a \in k.batch : rows[a].due = k.moment
  <2>1. SUFFICES ASSUME NEW a \in k.batch PROVE rows[a].due = k.moment
    OBVIOUS
  <2>2. rows[a].due <= k.moment
    BY <1>0 DEF Sound
  <2>3. k.moment <= rows[a].due
    BY <1>0 DEF AheadOf, Claiming
  <2>4. rows[a].due \in Nat
    BY <1>0, RowIsNumbered
  <2>5. QED
    BY <1>0, <2>2, <2>3, <2>4
<1>5. Served \subseteq k.batch
  <2>1. SUFFICES ASSUME NEW a \in Served PROVE a \in k.batch
    OBVIOUS
  <2>2. rows[a].owner \in Workers
    BY <1>0 DEF TypeOK, Rows, Served, Pending
  <2>3. worker[rows[a].owner].step \in Serving /\ a \in worker[rows[a].owner].batch
    BY <1>0 DEF Leased
  <2>4. rows[a].owner = w
    BY <2>2, <2>3, CalmFacts DEF Serving
  <2>5. QED
    BY <2>3, <2>4
<1>6. \A b \in Served : Turn(w) <= b
  <2>1. Turn(w) <= Turn(w)
    <3>1. Turn(w) \in Nat
      BY <1>1, ScheduleAssumption
    <3>2. QED
      BY <3>1
  <2>2. SUFFICES ASSUME NEW b \in Served, b # Turn(w) PROVE Turn(w) <= b
    BY <2>1
  <2>3. b \in k.batch /\ Before(Turn(w), b)
    BY <1>1, <1>5, <2>2
  <2>4. rows[b].due = k.moment /\ rows[Turn(w)].due = k.moment /\ b \in Nat /\ Turn(w) \in Nat
    BY <1>0, <1>1, <1>4, <2>3
  <2>5. QED
    BY <1>0, <2>3, <2>4 DEF Before
<1>7. \A a \in Served : (\A b \in Served : a <= b) => a = Turn(w)
  <2>1. SUFFICES ASSUME NEW a \in Served, \A b \in Served : a <= b PROVE a = Turn(w)
    OBVIOUS
  <2>2. a <= Turn(w) /\ Turn(w) <= a /\ a \in Nat /\ Turn(w) \in Nat
    BY <1>0, <1>1, <1>3, <1>5, <1>6, <2>1
  <2>3. QED
    BY <2>2
<1>8. Turn(w) = CHOOSE a \in Served : \A b \in Served : a <= b
  BY <1>3, <1>6, <1>7
<1>9. Moment(w) = rows[Turn(w)].due /\ time <= Moment(w)
  <2>1. time <= rows[Turn(w)].due
    BY <1>0, <1>2 DEF Timely
  <2>2. rows[Turn(w)].due \in Nat
    BY <1>0, <1>1, RowIsNumbered
  <2>3. QED
    BY <1>0, <2>1, <2>2 DEF Moment, Later
<1>10. answer[Turn(w)] = "none"
  <2>1. answer[Turn(w)] \in {"none", "accepted", "rejected"} /\ Turn(w) \in Commands
    BY <1>0, <1>1 DEF TypeOK, Commands
  <2>2. answer[Turn(w)] # "accepted"
    BY <1>1, <1>2 DEF IInv, RowsTellOutcome, Pending
  <2>3. QED
    BY <2>1, <2>2 DEF Uninterrupted
<1>11. \A b \in Pending : Moment(w) <= rows[b].due
  <2>1. Moment(w) = k.moment
    BY <1>1, <1>4, <1>9
  <2>2. QED
    BY <1>0, <2>1 DEF AheadOf, Claiming
<1>12. QED
  BY <1>3, <1>8, <1>9, <1>10, <1>11, MomentIsSeen

(* So it is accepted.                                                      *)
LEMMA CalmExecutes ==
  ASSUME IInv, [Next]_vars, Uninterrupted, Undisturbed, Uninterrupted',
         NEW w \in Workers, Execute(w)
  PROVE  /\ Accept(Turn(w), Moment(w))
         /\ worker' = [worker EXCEPT ![w] =
              [@ EXCEPT !.step = "hold", !.now = Moment(w), !.batch = Rest(w)]]
<1>1. /\ worker[w].step = "execute" /\ TypeOK
  BY DEF Execute, IInv
<1>2. /\ Turn(w) \in Commands /\ answer[Turn(w)] = "none"
      /\ time <= Moment(w) /\ time \in Nat /\ Moment(w) \in Nat
  BY <1>1, ExecutesTheNext DEF Served, Pending, Commands, TypeOK, Times
<1>3. ~Violates(Turn(w))
  BY CalmFacts DEF Violates, Removed
<1>4. ~Reject(Turn(w))
  BY <1>2, CalmBefore
<1>5. ~(Moment(w) < time)
  BY <1>2
<1>6. QED
  BY <1>2, <1>3, <1>4, <1>5 DEF Execute, Recorded

(* And its effects are those the story tells.                              *)
LEMMA TellsTheNext ==
  ASSUME IInv, [Next]_vars, Uninterrupted, Undisturbed, Uninterrupted',
         NEW w \in Workers, Execute(w)
  PROVE  /\ Page' = NextPage(Page)
         /\ Pending' = Left(Page, Turn(w)) \cup New(Page, Turn(w))
         /\ Served' = Served \cap Left(Page, Turn(w))
         /\ \A b \in Served' : b # Turn(w) /\ rows'[b].owner = rows[b].owner
         /\ \A b \in Pending' : Moment(w) <= rows'[b].due
<1> DEFINE a == Turn(w)
           at == Moment(w)
<1>0. /\ TypeOK /\ worker[w].step = "execute" /\ a \in Served /\ a \in Pending /\ a \in Actions
      /\ at = rows[a].due /\ at \in Nat /\ Accept(a, at)
      /\ a = CHOOSE c \in Served : \A b \in Served : c <= b
      /\ \A b \in Pending : at <= rows[b].due
  <2>1. TypeOK /\ worker[w].step = "execute"
    BY DEF Execute, IInv
  <2>2. Served \subseteq Pending /\ Pending \subseteq Actions /\ Times \subseteq Nat
    BY DEF Served, Pending, Times
  <2>3. Accept(a, at)
    BY CalmExecutes
  <2> HIDE DEF a, at
  <2>4. /\ a \in Served /\ at = rows[a].due /\ at \in Times
        /\ a = CHOOSE c \in Served : \A b \in Served : c <= b
        /\ \A b \in Pending : at <= rows[b].due
    BY <2>1, ExecutesTheNext DEF a, at
  <2>5. QED
    BY <2>1, <2>2, <2>3, <2>4
<1>1. /\ DOMAIN Page.due = Pending /\ \A b \in Pending : Page.due[b] = rows[b].due
      /\ Page.seen = {b \in Actions : rows[b].status # "absent"}
      /\ Page.batch = Served /\ Page.done = chronicle
  BY DEF Page
<1>2. Page.due[a] = at
  BY <1>0, <1>1
<1>3. \A b \in Actions : b \in Removed(a) <=> b \in Replaces[a] \cup {a} /\ b \in Pending
  BY CalmFacts DEF Removed, Pending
<1>4. Left(Page, a) = {b \in Pending : b \notin Removed(a)}
  <2> HIDE DEF a
  <2>1. QED
    BY <1>1, <1>3 DEF Left, Pending
<1>5. New(Page, a) = {b \in Actions : b \in Spawns[a] /\ rows[b].status = "absent"
                                      /\ at + Delay[b] <= MaxTime}
  <2>1. Spawns[a] \subseteq Actions
    BY <1>0, ScheduleAssumption DEF Commands
  <2> HIDE DEF a, at
  <2>2. QED
    BY <1>1, <1>2, <2>1 DEF New
<1>6. ASSUME NEW b \in Actions
      PROVE  /\ b \in Removed(a) => rows'[b].status = "completed"
             /\ b \in New(Page, a) => rows'[b] = Row(at + Delay[b])
             /\ b \notin Removed(a) /\ b \notin New(Page, a) => rows'[b] = rows[b]
  <2>1. rows[b] \in Rows /\ b \in New(Page, a) => b \notin Removed(a)
    BY <1>0, <1>5 DEF TypeOK, Removed
  <2>2. rows'[b] = IF b \in Removed(a)
        THEN [rows[b] EXCEPT !.status = "completed", !.owner = Nobody, !.live = FALSE]
        ELSE IF b \in Spawns[a] /\ rows[b].status = "absent" /\ at + Delay[b] <= MaxTime
        THEN Row(at + Delay[b]) ELSE rows[b]
    BY <1>0 DEF Accept
  <2>3. CASE b \in Removed(a)
    <3>1. rows'[b] = [rows[b] EXCEPT !.status = "completed", !.owner = Nobody, !.live = FALSE]
      BY <2>2, <2>3
    <3>2. rows[b] \in Rows
      BY <1>0 DEF TypeOK
    <3>3. rows'[b].status = "completed"
      BY <3>1, <3>2 DEF Rows
    <3>4. QED
      BY <1>5, <2>3, <3>3 DEF Removed
  <2>4. CASE b \notin Removed(a)
    <3> HIDE DEF a, at
    <3>1. QED
      BY <1>5, <2>2, <2>4
  <2>5. QED
    BY <2>3, <2>4
<1>7. \A b \in New(Page, a) : rows[b].status = "absent" /\ b \in Actions
  BY <1>5
<1> HIDE DEF a, at
<1>8. \A b \in New(Page, a) : rows'[b].due = at + Delay[b] /\ rows'[b].status = "pending"
                              /\ rows'[b].owner = Nobody
  <2>1. SUFFICES ASSUME NEW b \in New(Page, a)
                 PROVE  /\ rows'[b].due = at + Delay[b] /\ rows'[b].status = "pending"
                        /\ rows'[b].owner = Nobody
    OBVIOUS
  <2>2. rows'[b] = Row(at + Delay[b])
    BY <1>6, <1>7
  <2>3. QED
    BY <2>2 DEF Row
<1>9. \A b \in Left(Page, a) : b \in Actions /\ rows'[b] = rows[b] /\ b \notin Removed(a)
  BY <1>4, <1>6, <1>7 DEF Pending
<1>10. Pending' = Left(Page, a) \cup New(Page, a)
  <2>1. ASSUME NEW b \in Actions, rows'[b].status = "pending"
        PROVE  b \in Left(Page, a) \cup New(Page, a)
    BY <1>4, <1>6, <2>1 DEF Pending
  <2>2. ASSUME NEW b \in Left(Page, a) \cup New(Page, a)
        PROVE  b \in Actions /\ rows'[b].status = "pending"
    BY <1>4, <1>7, <1>8, <1>9 DEF Pending
  <2>3. QED
    BY <2>1, <2>2 DEF Pending
<1>11. Served' = Served \cap Left(Page, a)
  BY <1>4, <1>8, <1>9, <1>10 DEF Served
<1>12. [b \in Pending |-> rows[b].due]' =
         [b \in Left(Page, a) \cup New(Page, a) |->
            IF b \in New(Page, a) THEN Page.due[a] + Delay[b] ELSE Page.due[b]]
  <2>1. ASSUME NEW b \in Left(Page, a) \cup New(Page, a)
        PROVE  rows'[b].due =
                 IF b \in New(Page, a) THEN Page.due[a] + Delay[b] ELSE Page.due[b]
    BY <1>1, <1>2, <1>4, <1>8, <1>9
  <2>2. QED
    BY <1>10, <2>1
<1>13. {b \in Actions : rows[b].status # "absent"}' = Page.seen \cup New(Page, a)
  <2>1. ASSUME NEW b \in Actions
        PROVE  rows'[b].status # "absent"
                 <=> rows[b].status # "absent" \/ b \in New(Page, a)
    <3>1. CASE b \in Removed(a)
      BY <1>3, <1>6, <3>1 DEF Pending
    <3>2. CASE b \in New(Page, a)
      BY <1>8, <3>2
    <3>3. CASE b \notin Removed(a) /\ b \notin New(Page, a)
      BY <1>6, <3>3
    <3>4. QED
      BY <3>1, <3>2, <3>3
  <2>2. QED
    BY <1>1, <1>7, <2>1
<1>14. Page' = Told(Page, a)
  <2>1. chronicle' = Append(Page.done, <<a, Page.due[a]>>)
    BY <1>0, <1>1, <1>2 DEF Accept
  <2>2. QED
    BY <1>1, <1>11, <1>12, <1>13, <2>1 DEF Page, Told
<1>15. Page' = NextPage(Page)
  <2>1. Page.batch # {} /\ a = CHOOSE c \in Page.batch : \A b \in Page.batch : c <= b
    BY <1>0, <1>1
  <2>2. QED
    BY <1>14, <2>1 DEF NextPage
<1>16. \A b \in Served' : b # a /\ rows'[b].owner = rows[b].owner
  BY <1>9, <1>11 DEF Left
<1>17. \A b \in Pending' : at <= rows'[b].due
  <2>1. ASSUME NEW b \in New(Page, a) PROVE at <= rows'[b].due
    <3>1. Delay[b] \in Nat /\ rows'[b].due = at + Delay[b] /\ at \in Nat
      BY <1>0, <1>7, <1>8, ScheduleAssumption
    <3>2. QED
      BY <3>1
  <2>2. ASSUME NEW b \in Left(Page, a) PROVE at <= rows'[b].due
    BY <1>0, <1>4, <1>9, <2>2
  <2>3. QED
    BY <1>10, <2>1, <2>2
<1>18. QED
  BY <1>10, <1>11, <1>15, <1>16, <1>17 DEF a, at

LEMMA CalmExecute ==
  ASSUME IInv, [Next]_vars, Uninterrupted, Undisturbed, Uninterrupted',
         NEW w \in Workers, Execute(w)
  PROVE  Undisturbed'
<1> DEFINE a == Turn(w)
           at == Moment(w)
<1>0. /\ TypeOK /\ worker[w].step = "execute" /\ worker[w] \in Ticks
      /\ worker[w].batch # {}
      /\ \A v \in Workers \ {w} : worker'[v] = worker[v]
  BY DEF IInv, TypeOK, Execute, TickSound, Sound, EndTick
<1>1. /\ Accept(a, at)
      /\ worker' = [worker EXCEPT ![w] =
           [@ EXCEPT !.step = "hold", !.now = at, !.batch = Rest(w)]]
  BY CalmExecutes
<1>2. /\ Page' = NextPage(Page)
      /\ Pending' = Left(Page, a) \cup New(Page, a)
      /\ Served' = Served \cap Left(Page, a)
      /\ \A b \in Served' : b # a /\ rows'[b].owner = rows[b].owner
      /\ \A b \in Pending' : at <= rows'[b].due
  BY TellsTheNext
<1>3. /\ a \in Served /\ a \in Actions /\ at \in Times /\ time' = at
      /\ chronicle' = Append(chronicle, <<a, at>>)
  <2>1. a \in Served /\ at \in Times
    BY <1>0, ExecutesTheNext
  <2>2. QED
    BY <1>1, <2>1 DEF Accept, Served, Pending
<1> HIDE DEF a, at
<1>4. IsFiniteSet(Pending)'
  <2>1. IsFiniteSet(Left(Page, a))
    <3>1. Left(Page, a) \in SUBSET Pending /\ IsFiniteSet(Pending)
      BY DEF Left, Page, Undisturbed
    <3>2. QED
      BY <3>1, FS_Subset
  <2>2. IsFiniteSet(New(Page, a))
    <3>1. New(Page, a) \in SUBSET Spawns[a] /\ IsFiniteSet(Spawns[a])
      BY <1>3, ScheduleAssumption DEF New, Commands
    <3>2. QED
      BY <3>1, FS_Subset
  <2>3. QED
    BY <1>2, <2>1, <2>2, FS_Union
<1>5. Timely'
  BY <1>2, <1>3 DEF Timely
<1>6. StoryTold'
  <2>1. Served # {} /\ <<a, at>> \in Commands \X Times
    BY <1>3 DEF Commands
  <2>2. QED
    BY <1>0, <1>2, <1>3, <2>1, PageTurns DEF Undisturbed
<1>7. worker'[w].step = "hold" /\ worker'[w].now = at /\ worker'[w].batch = Rest(w)
  <2>1. worker'[w] = [worker[w] EXCEPT !.step = "hold", !.now = at, !.batch = Rest(w)]
    BY <1>0, <1>1 DEF TypeOK
  <2>2. QED
    BY <1>0, <2>1 DEF Ticks
<1>8. \A b \in Served' : rows[b].owner = w /\ b \in worker[w].batch
  <2>1. SUFFICES ASSUME NEW b \in Served
                 PROVE  rows[b].owner = w /\ b \in worker[w].batch
    BY <1>2
  <2>2. rows[b].owner \in Workers
    BY <1>0 DEF TypeOK, Rows, Served, Pending
  <2>3. worker[rows[b].owner].step \in Serving /\ b \in worker[rows[b].owner].batch
    BY DEF Undisturbed, Leased
  <2>4. rows[b].owner = w
    BY <1>0, <2>2, <2>3, CalmFacts DEF Serving
  <2>5. QED
    BY <2>3, <2>4
<1>9. Leased'
  <2>1. \A b \in Served' : b \in Rest(w) /\ rows'[b].owner = w
    BY <1>2, <1>8 DEF Rest, a
  <2>2. QED
    BY <1>7, <2>1 DEF Leased, Serving
<1>10. Trusts(w)'
  <2>1. ASSUME NEW b \in Rest(w), b \in Pending' PROVE rows'[b].owner = w
    <3>1. b \in worker[w].batch /\ b \in Actions /\ rows[b].status # "absent"
      BY <1>0, <2>1 DEF Rest, IInv, TickSound, Sound, Ticks
    <3>2. b \in Left(Page, a)
      <4>1. b \notin New(Page, a)
        BY <3>1 DEF New, Page
      <4>2. QED
        BY <1>2, <2>1, <4>1
    <3>3. b \in Pending
      BY <3>2 DEF Left, Page
    <3>4. rows[b].owner = w
      BY <1>0, <3>1, <3>3 DEF Undisturbed, Trusts, Serving
    <3>5. b \in Served'
      BY <1>2, <3>2, <3>3, <3>4, ScheduleAssumption DEF Served
    <3>6. QED
      BY <1>2, <3>4, <3>5
  <2>2. QED
    BY <1>3, <1>7, <2>1 DEF Trusts, Serving
<1>11. ASSUME NEW v \in Workers, v # w PROVE Trusts(v)'
  <2>1. worker[v].step = "asleep" /\ worker'[v] = worker[v]
    BY <1>0, <1>11, CalmFacts
  <2>2. QED
    BY <2>1, TrustBegins
<1>12. QED
  BY <1>4, <1>5, <1>6, <1>9, <1>10, <1>11, CalmAhead DEF Undisturbed

-----------------------------------------------------------------------------
(* The other statements of a tick.                                         *)
LEMMA CalmElse ==
  ASSUME IInv, [Next]_vars, Uninterrupted, Undisturbed, Uninterrupted', NEW w \in Workers,
         \/ TryLock(w) \/ Observe(w) \/ Look(w) \/ Hold(w) \/ Finish(w)
         \/ \E horizon \in Times : Read(w, horizon)
  PROVE  Undisturbed'
<1> DEFINE k == worker[w]
           Keeps == \A a \in Served : rows[a].owner = w =>
                      worker'[w].step \in Serving /\ a \in worker'[w].batch
<1>0. /\ TypeOK /\ k \in Ticks /\ Trusts(w) /\ Sound(w) /\ Leased
  BY DEF IInv, TypeOK, TickSound, Undisturbed
<1>1. \A v \in Workers \ {w} : worker'[v] = worker[v]
  BY <1>0 DEF TypeOK, TryLock, Observe, Look, Hold, Finish, Read, EndTick
<1>2. ASSUME k.step \notin Serving PROVE Keeps
  BY <1>0, <1>2 DEF Leased
<1>3. ASSUME rows' = rows, UNCHANGED <<time, chronicle>> PROVE SamePage
  BY <1>3 DEF SamePage
<1>4. ASSUME EndTick(w) PROVE Trusts(w)'
  BY <1>0, <1>4, TrustBegins DEF EndTick, TypeOK, Asleep
<1>5. CASE TryLock(w)
  <2>1. worker'[w].step = "start" /\ k.step = "asleep"
    BY <1>0, <1>5 DEF TryLock, TypeOK, Asleep
  <2>2. Keeps
    BY <1>2, <2>1 DEF Serving
  <2>3. SamePage
    BY <1>3, <1>5 DEF TryLock, world
  <2>4. QED
    BY <1>1, <2>1, <2>2, <2>3, TrustBegins, CalmMove
<1>6. ASSUME NEW horizon \in Times, Read(w, horizon) PROVE Undisturbed'
  <2>1. k.step = "start" /\ Keeps /\ SamePage
    BY <1>2, <1>3, <1>6 DEF Read, world, Serving
  <2>2. ASSUME ~(horizon < time) PROVE Trusts(w)'
    <3>1. worker' = [worker EXCEPT ![w] =
            [@ EXCEPT !.step = "observe", !.horizon = horizon, !.now = time]]
      BY <1>6, <2>2 DEF Read
    <3>2. worker'[w] = [k EXCEPT !.step = "observe", !.horizon = horizon, !.now = time]
      BY <1>0, <3>1 DEF TypeOK
    <3>3. worker'[w].step = "observe" /\ worker'[w].now = time
      BY <1>0, <3>2 DEF Ticks
    <3>4. QED
      BY <2>1, <3>3 DEF Trusts, Serving, SamePage
  <2>3. Trusts(w)'
    BY <1>4, <1>6, <2>2 DEF Read
  <2>4. QED
    BY <1>1, <2>1, <2>3, CalmMove
<1>7. CASE Observe(w)
  <2>1. k.step = "observe" /\ Keeps /\ SamePage
    BY <1>2, <1>3, <1>7 DEF Observe, Serving
  <2>2. worker'[w] = [k EXCEPT !.step = "look"]
    BY <1>0, <1>7 DEF Observe, TypeOK
  <2>3. worker'[w].step = "look" /\ worker'[w].now = k.now
    BY <1>0, <2>2 DEF Ticks
  <2>4. Trusts(w)'
    BY <1>0, <2>1, <2>3 DEF Trusts, Serving, SamePage
  <2>5. QED
    BY <1>1, <2>1, <2>4, CalmMove
<1>8. CASE Look(w)
  <2>1. k.step = "look" /\ Keeps /\ SamePage
    BY <1>2, <1>3, <1>8 DEF Look, Serving, world
  <2>2. ASSUME Due(k.horizon) # {} PROVE Trusts(w)'
    <3> DEFINE m == Earliest(Due(k.horizon))
    <3>1. PICK a \in Due(k.horizon) : m = rows[a].due
      BY <1>0, <2>2, EarliestIsDue DEF Due, Pending
    <3>2. a \in Pending' /\ rows'[a].due = m
      BY <3>1, <2>1 DEF SamePage, Due, Pending
    <3>3. worker'[w] = [k EXCEPT !.step = "claim", !.moment = m]
      BY <1>0, <1>8, <2>2 DEF Look, TypeOK
    <3> HIDE DEF m
    <3>4. worker'[w].step = "claim" /\ worker'[w].moment = m /\ worker'[w].now = k.now
      BY <1>0, <3>3 DEF Ticks
    <3>5. QED
      BY <1>0, <2>1, <3>2, <3>4 DEF Trusts, Serving, SamePage
  <2>3. Trusts(w)'
    BY <1>4, <1>8, <2>2 DEF Look
  <2>4. QED
    BY <1>1, <2>1, <2>3, CalmMove
<1>9. CASE Hold(w)
  <2>0. /\ k.step = "hold" /\ k.batch # {} /\ UNCHANGED <<time, chronicle>>
        /\ k.batch \subseteq Actions
    BY <1>0, <1>9 DEF Hold, Ticks
  <2>1. /\ Turn(w) \in k.batch /\ Turn(w) \in Actions /\ Rest(w) = k.batch \ {Turn(w)}
        /\ \A b \in k.batch \ {Turn(w)} : Before(Turn(w), b)
    BY <1>0, <2>0, TurnInBatch DEF Rest
  <2>2. \A a \in Served : rows[a].owner = w => a \in k.batch
    BY <1>0 DEF Leased
  <2>3. CASE rows[Turn(w)].owner = w /\ rows[Turn(w)].status = "pending"
    <3>1. rows' = [rows EXCEPT ![Turn(w)] = [@ EXCEPT !.live = TRUE]]
      BY <1>9, <2>3 DEF Hold
    <3>2. SamePage
      <4>1. SUFFICES ASSUME NEW a \in Actions
                     PROVE  /\ rows'[a].due = rows[a].due /\ rows'[a].status = rows[a].status
                            /\ rows'[a].owner = rows[a].owner
        BY <2>0 DEF SamePage
      <4>2. rows[a] \in Rows
        BY <1>0 DEF TypeOK
      <4>3. QED
        BY <1>0, <2>1, <3>1, <4>2 DEF TypeOK, Rows
    <3>3. worker'[w] = [k EXCEPT !.step = "execute"]
      BY <1>0, <1>9, <2>3 DEF Hold, TypeOK
    <3>4. /\ worker'[w].step = "execute" /\ worker'[w].now = k.now
          /\ worker'[w].batch = k.batch
      BY <1>0, <3>3 DEF Ticks
    <3>5. Keeps
      BY <2>2, <3>4 DEF Serving
    <3>6. ASSUME NEW a \in k.batch, \A b \in k.batch \ {a} : Before(a, b)'
          PROVE  a \in Pending
      <4>1. CASE a = Turn(w)
        BY <2>1, <2>3, <4>1 DEF Pending
      <4>2. CASE a # Turn(w)
        <5>1. Before(a, Turn(w)) /\ Before(Turn(w), a)
          BY <2>0, <2>1, <3>2, <3>6, <4>2, SamePageStep
        <5>2. /\ rows[a].due \in Nat /\ a \in Nat
              /\ rows[Turn(w)].due \in Nat /\ Turn(w) \in Nat
          BY <1>0, <2>0, <2>1, RowIsNumbered
        <5>3. QED
          BY <5>1, <5>2 DEF Before
      <4>3. QED
        BY <4>1, <4>2
    <3>7. Trusts(w)'
      <4>1. Pending' = Pending
        BY <3>2, SamePageStep
      <4>2. \A a \in k.batch \cap Pending : rows'[a].owner = w
        BY <1>0, <2>0, <3>2 DEF Trusts, Serving, SamePage
      <4>3. worker'[w].now = time'
        BY <1>0, <2>0, <3>4 DEF Trusts
      <4>4. QED
        BY <3>4, <3>6, <4>1, <4>2, <4>3 DEF Trusts, Serving
    <3>8. QED
      BY <1>1, <3>2, <3>5, <3>7, CalmMove
  <2>4. CASE ~(rows[Turn(w)].owner = w /\ rows[Turn(w)].status = "pending")
    <3>1. rows' = rows /\ worker' = [worker EXCEPT ![w] = [@ EXCEPT !.batch = Rest(w)]]
      BY <1>9, <2>4 DEF Hold
    <3>2. SamePage
      BY <1>3, <2>0, <3>1
    <3>3. worker'[w] = [k EXCEPT !.batch = Rest(w)]
      BY <1>0, <3>1 DEF TypeOK
    <3>4. /\ worker'[w].step = "hold" /\ worker'[w].now = k.now
          /\ worker'[w].batch = Rest(w)
      BY <1>0, <2>0, <3>3 DEF Ticks
    <3>5. Keeps
      BY <2>1, <2>2, <2>4, <3>4 DEF Serving, Served, Pending
    <3>6. Trusts(w)'
      <4>1. Pending' = Pending
        BY <3>2, SamePageStep
      <4>2. \A a \in Rest(w) \cap Pending : rows'[a].owner = w
        BY <1>0, <2>0, <2>1, <3>1 DEF Trusts, Serving
      <4>3. worker'[w].now = time'
        BY <1>0, <2>0, <3>4 DEF Trusts
      <4>4. QED
        BY <3>4, <4>1, <4>2, <4>3 DEF Trusts, Serving
    <3>7. QED
      BY <1>1, <3>2, <3>5, <3>6, CalmMove
  <2>5. QED
    BY <2>3, <2>4
<1>10. CASE Finish(w)
  <2>1. SamePage /\ k.batch = {} /\ EndTick(w)
    BY <1>3, <1>10 DEF Finish, world
  <2>2. Keeps
    BY <1>0, <2>1 DEF Leased
  <2>3. QED
    BY <1>1, <1>4, <2>1, <2>2, CalmMove
<1>11. QED
  BY <1>5, <1>6, <1>7, <1>8, <1>9, <1>10

LEMMA UnfoldsStep ==
  ASSUME IInv, Unfolds, [Next]_vars
  PROVE  Unfolds'
<1> SUFFICES ASSUME Uninterrupted' PROVE Undisturbed'
  BY DEF Unfolds
<1>1. /\ Uninterrupted /\ Undisturbed /\ TypeOK
      /\ \A w \in Workers : ~Crash(w) /\ worker[w].step # "mark"
      /\ ~LoseSession /\ (Obey => UNCHANGED world)
  BY CalmBefore, CalmFacts DEF Unfolds, IInv
<1>2. ASSUME SamePage, UNCHANGED worker PROVE Undisturbed'
  <2>1. /\ Pending' = Pending /\ Served' = Served
        /\ IsFiniteSet(Pending)' /\ Timely' /\ StoryTold'
    BY <1>1, <1>2, SamePageStep DEF Undisturbed
  <2>2. Leased'
    BY <1>1, <1>2, <2>1 DEF Undisturbed, Leased, SamePage, Served, Pending
  <2>3. \A w \in Workers : Trusts(w)'
    BY <1>1, <1>2, TrustStays DEF Undisturbed
  <2>4. QED
    BY <1>1, <2>1, <2>2, <2>3, CalmAhead DEF Undisturbed
<1>3. ASSUME UNCHANGED world, UNCHANGED worker PROVE Undisturbed'
  BY <1>2, <1>3 DEF SamePage, world
<1>4. ASSUME NEW a \in Actions, Expire(a) PROVE Undisturbed'
  <2>1. SUFFICES ASSUME NEW b \in Actions
                 PROVE  /\ rows'[b].due = rows[b].due /\ rows'[b].status = rows[b].status
                        /\ rows'[b].owner = rows[b].owner
    BY <1>2, <1>4 DEF SamePage, Expire
  <2>2. rows[b] \in Rows /\ rows' = [rows EXCEPT ![a] = [@ EXCEPT !.live = FALSE]]
    BY <1>1, <1>4 DEF TypeOK, Expire
  <2>3. QED
    BY <1>1, <2>2 DEF TypeOK, Rows
<1>5. ASSUME NEW w \in Workers, Work(w) PROVE Undisturbed'
  BY <1>1, <1>5, CalmElse, CalmClaim, CalmExecute DEF Work, MarkFailed
<1>6. ASSUME NEW w \in Workers, TryLock(w) \/ \E horizon \in Times : Read(w, horizon)
      PROVE  Undisturbed'
  BY <1>1, <1>6, CalmElse
<1>7. ASSUME Advance \/ Obey \/ (\E c \in Orders, at \in Times : Ask(c, at)) \/ UNCHANGED vars
      PROVE  Undisturbed'
  BY <1>1, <1>3, <1>7 DEF Advance, Obey, Ask, vars, world
<1>8. QED
  BY <1>1, <1>4, <1>5, <1>6, <1>7 DEF Next

LEMMA InitUnfolds == Init => Unfolds
<1> SUFFICES ASSUME Init PROVE Undisturbed
  BY DEF Unfolds
<1> DEFINE there == {a \in Planned : Delay[a] <= MaxTime}
<1>1. ASSUME NEW a \in Actions
      PROVE  /\ a \in there => rows[a] = Row(Delay[a])
             /\ a \notin there => rows[a] = NoRow
  BY DEF Init
<1>2. there \subseteq Actions /\ IsFiniteSet(there)
  <2>1. there \in SUBSET Planned
    OBVIOUS
  <2>2. QED
    BY <2>1, ScheduleAssumption, FS_Subset
<1> HIDE DEF there
<1>3. ASSUME NEW a \in Actions
      PROVE  /\ rows[a].owner = Nobody
             /\ rows[a].status = IF a \in there THEN "pending" ELSE "absent"
             /\ a \in there => rows[a].due = Delay[a]
  <2>1. CASE a \in there
    <3>1. rows[a] = Row(Delay[a])
      BY <1>1, <2>1
    <3>2. QED
      BY <2>1, <3>1 DEF Row
  <2>2. CASE a \notin there
    <3>1. rows[a] = NoRow
      BY <1>1, <2>2
    <3>2. QED
      BY <2>2, <3>1 DEF NoRow
  <2>3. QED
    BY <2>1, <2>2
<1>4. Pending = there /\ {a \in Actions : rows[a].status # "absent"} = there
  BY <1>2, <1>3 DEF Pending
<1>5. Served = {}
  BY <1>3 DEF Served, Pending
<1>6. Page = FirstPage
  <2>1. [a \in Pending |-> rows[a].due] = [a \in there |-> Delay[a]]
    BY <1>2, <1>3, <1>4
  <2>2. chronicle = <<>>
    BY DEF Init
  <2>3. QED
    BY <1>4, <1>5, <2>1, <2>2 DEF Page, FirstPage, there
<1>7. StoryTold
  <2>1. Story[0] = Page /\ Len(chronicle) = 0
    BY <1>6, StoryUnfolds DEF Init
  <2>2. QED
    BY <2>1 DEF StoryTold
<1>8. Timely
  <2>1. \A a \in there : Delay[a] \in Nat
    BY <1>2, ScheduleAssumption
  <2>2. \A a \in Pending : time = 0 /\ rows[a].due \in Nat
    BY <1>2, <1>3, <1>4, <2>1 DEF Init
  <2>3. QED
    BY <2>2 DEF Timely
<1>9. Leased /\ \A w \in Workers : AheadOf(w) /\ Trusts(w)
  BY <1>5 DEF Leased, Init, AheadOf, Trusts, Asleep, Claiming, Serving
<1>10. QED
  BY <1>2, <1>4, <1>7, <1>8, <1>9 DEF Undisturbed

(* Whatever the workers, the horizons they are given and the moments at    *)
(* which they get to run: undisturbed, the schedule becomes the story.     *)
THEOREM UndisturbedTellsTheStory == Spec => []UninterruptedSame
<1>1. ASSUME StoryTold, TypeOK PROVE SameChronicle
  <2>1. PICK k \in 0 .. (2 * Len(chronicle) + 1) :
          /\ Story[k] = Page
          /\ k = 2 * Len(chronicle) + 1 => Story[k - 1].done = chronicle
    BY <1>1 DEF StoryTold
  <2>2. Len(chronicle) \in Nat
    BY <1>1 DEF TypeOK
  <2>3. CASE k = 2 * Len(chronicle) + 1
    <3>1. k - 1 \in 0 .. 2 * Len(chronicle)
      BY <2>2, <2>3
    <3>2. QED
      BY <2>1, <2>3, <3>1 DEF SameChronicle
  <2>4. CASE k # 2 * Len(chronicle) + 1
    <3>1. k \in 0 .. 2 * Len(chronicle)
      BY <2>2, <2>4
    <3>2. QED
      BY <2>1, <3>1 DEF SameChronicle, Page
  <2>5. QED
    BY <2>3, <2>4
<1>2. IInv /\ Unfolds => UninterruptedSame
  BY <1>1 DEF IInv, Unfolds, Undisturbed, UninterruptedSame
<1>3. IInv /\ Unfolds /\ [Next]_vars => (IInv /\ Unfolds)'
  BY Inductive, UnfoldsStep
<1>4. Init => IInv /\ Unfolds
  BY InitIInv, InitUnfolds
<1>5. QED
  BY <1>2, <1>3, <1>4, PTL DEF Spec

-----------------------------------------------------------------------------
(* What happens next in the story, and when.                               *)
Happening(p) ==
  LET a == CHOOSE c \in p.batch : \A b \in p.batch : c <= b
  IN <<a, p.due[a]>>

Happenings == {Happening(Story[n]) : n \in Nat}

LEMMA PageIsTold ==
  \A n \in Nat :
    /\ DOMAIN Story[n] = {"due", "seen", "batch", "done"}
    /\ Story[n].done \in Seq(Happenings)
    /\ \/ Story[n + 1].done = Story[n].done
       \/ Story[n + 1].done = Append(Story[n].done, Happening(Story[n]))
<1> DEFINE Regular(n) == /\ DOMAIN Story[n] = {"due", "seen", "batch", "done"}
                         /\ Story[n].done \in Seq(Happenings)
           Odd == {n \in Nat : ~Regular(n)}
<1>1. ASSUME NEW n \in Nat, Regular(n)
      PROVE  /\ Regular(n + 1)
             /\ \/ Story[n + 1].done = Story[n].done
                \/ Story[n + 1].done = Append(Story[n].done, Happening(Story[n]))
  <2> DEFINE p == Story[n]
             a == CHOOSE c \in p.batch : \A b \in p.batch : c <= b
  <2>1. Story[n + 1] = NextPage(p)
    BY StoryUnfolds
  <2>2. CASE p.batch = {}
    <3>1. Story[n + 1] = [p EXCEPT !.batch = Batch(p)]
      BY <2>1, <2>2 DEF NextPage
    <3>2. DOMAIN Story[n + 1] = DOMAIN p /\ Story[n + 1].done = p.done
      BY <1>1, <3>1
    <3>3. QED
      BY <1>1, <3>2
  <2>3. CASE p.batch # {}
    <3>1. Story[n + 1] = Told(p, a)
      BY <2>1, <2>3 DEF NextPage
    <3>2. /\ DOMAIN Story[n + 1] = {"due", "seen", "batch", "done"}
          /\ Story[n + 1].done = Append(p.done, <<a, p.due[a]>>)
      <4> HIDE DEF a, p
      <4>1. QED
        BY <3>1 DEF Told
    <3>3. <<a, p.due[a]>> = Happening(p) /\ Happening(p) \in Happenings
      BY DEF Happening, Happenings
    <3>4. Story[n + 1].done \in Seq(Happenings)
      <4> HIDE DEF a
      <4>1. QED
        BY <1>1, <3>2, <3>3
    <3>5. QED
      <4> HIDE DEF a
      <4>1. QED
        BY <3>2, <3>3, <3>4
  <2>4. QED
    BY <2>2, <2>3
<1>2. Odd = {}
  <2>1. SUFFICES ASSUME Odd # {} PROVE FALSE
    OBVIOUS
  <2>2. PICK n \in Odd : \A m \in Odd : n <= m
    <3>1. Odd \subseteq Nat
      OBVIOUS
    <3> HIDE DEF Odd
    <3>2. QED
      BY <2>1, <3>1, LeastNat
  <2>3. CASE n = 0
    <3>1. DOMAIN FirstPage = {"due", "seen", "batch", "done"} /\ FirstPage.done = <<>>
      BY DEF FirstPage
    <3>2. Story[0] = FirstPage /\ <<>> \in Seq(Happenings)
      BY StoryUnfolds
    <3>3. Regular(0)
      BY <3>1, <3>2
    <3>4. QED
      BY <2>3, <3>3
  <2>4. CASE n # 0
    <3>1. n - 1 \in Nat /\ ~(n <= n - 1) /\ (n - 1) + 1 = n
      BY <2>4
    <3>2. Regular(n - 1)
      BY <2>2, <3>1
    <3>3. Regular((n - 1) + 1)
      <4> HIDE DEF Regular
      <4>1. QED
        BY <1>1, <3>1, <3>2
    <3>4. QED
      BY <3>1, <3>3
  <2>5. QED
    BY <2>3, <2>4
<1>3. QED
  BY <1>1, <1>2

(* One beginning of the same chronicle or another.                         *)
Begins(s, t) == Len(s) <= Len(t) /\ \A i \in 1 .. Len(s) : s[i] = t[i]

(* What the story has told, it does not take back: whatever the horizons   *)
(* and however far they let the world go, of two chronicles that are both  *)
(* undisturbed one is the beginning of the other.                          *)
THEOREM TheStoryGoesOn ==
  \A j, k \in Nat : j <= k => Begins(Story[j].done, Story[k].done)
<1> SUFFICES ASSUME NEW j \in Nat
             PROVE  \A k \in Nat : j <= k => Begins(Story[j].done, Story[k].done)
  OBVIOUS
<1> DEFINE Back == {k \in Nat : j <= k /\ ~Begins(Story[j].done, Story[k].done)}
<1>1. SUFFICES ASSUME Back # {} PROVE FALSE
  OBVIOUS
<1>2. PICK k \in Back : \A m \in Back : k <= m
  <2>1. Back \subseteq Nat
    OBVIOUS
  <2> HIDE DEF Back
  <2>2. QED
    BY <1>1, <2>1, LeastNat
<1>3. CASE k = j
  <2>1. Story[j].done \in Seq(Happenings)
    BY PageIsTold
  <2>2. QED
    BY <1>2, <1>3, <2>1 DEF Begins
<1>4. CASE k # j
  <2>1. k - 1 \in Nat /\ j <= k - 1 /\ ~(k <= k - 1) /\ (k - 1) + 1 = k
    BY <1>4
  <2>2. Begins(Story[j].done, Story[k - 1].done)
    BY <1>2, <2>1
  <2>3. /\ Story[j].done \in Seq(Happenings) /\ Story[k - 1].done \in Seq(Happenings)
        /\ \/ Story[k].done = Story[k - 1].done
           \/ Story[k].done = Append(Story[k - 1].done, Happening(Story[k - 1]))
    BY <2>1, PageIsTold
  <2>4. Happening(Story[k - 1]) \in Happenings
    BY <2>1 DEF Happenings
  <2>5. Begins(Story[j].done, Story[k].done)
    <3> DEFINE s == Story[j].done
               t == Story[k - 1].done
               e == Happening(Story[k - 1])
    <3>1. s \in Seq(Happenings) /\ t \in Seq(Happenings) /\ e \in Happenings
      BY <2>3, <2>4
    <3>2. Begins(s, t)
      BY <2>2
    <3>3. Begins(s, Append(t, e))
      <4> HIDE DEF s, t, e
      <4>1. QED
        BY <3>1, <3>2 DEF Begins
    <3>4. QED
      BY <2>3, <3>2, <3>3
  <2>6. QED
    BY <1>2, <2>5
<1>5. QED
  BY <1>3, <1>4

=============================================================================
