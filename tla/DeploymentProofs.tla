--------------------------- MODULE DeploymentProofs ---------------------------
(***************************************************************************)
(* Proofs about the jobs of Deployment, for any registries that pass their *)
(* check, any number of operators and any number of jobs killed.           *)
(*                                                                         *)
(* Of the migrations: the advisory lock makes the plan of whoever applies  *)
(* what the ledger lacks (Planned), up to the end of the run (MInv).       *)
(*                                                                         *)
(* Of the replay: the journal and the snapshots stay within the sequence of*)
(* the world, which a damage does not alter, and what a job read and was   *)
(* not disturbed in is what the tables still say (DInv). A suffix in order *)
(* is then the numbers in a row behind the snapshot (OrderedRow, TellOn).  *)
(***************************************************************************)
EXTENDS Deployment, WellFoundedInduction, FiniteSetTheorems, SequenceTheorems, TLAPS

Fields == {"kind", "release", "step", "outcome", "tries", "plan", "sequence", "agents", "from",
           "phases", "disturbed"}
IsJob(k) == DOMAIN k = Fields

Migrating == {"lock", "load", "apply"}
Locked == {"load", "apply"}
Delivery(k) == k.phases \cup {m.phase : m \in k.plan}

(* What the plan of a run is, while it is carried out.                     *)
Planned(k, applied) ==
  LET migrations == Range(Registry[k.release])
  IN /\ k.plan \subseteq migrations
     /\ \A m \in migrations : m \in k.plan <=> m.id \notin applied
     /\ ~({"expand", "contract"} \subseteq Delivery(k))

Good(k, applied) ==
  /\ IsJob(k)
  /\ k.step \in Migrating => k.release \in Releases
  /\ k.step # "apply" => k.phases = {}
  /\ k.step = "apply" => Planned(k, applied)

Exclusive == \A o \in Operators : job[o].step \in Locked => lock = o

MInv ==
  /\ job = [o \in Operators |-> job[o]]
  /\ \A o \in Operators : Good(job[o], DOMAIN ledger)
  /\ Exclusive

(* What MigratedIsReady says of a step.                                    *)
Reported ==
  \A o \in Operators :
    /\ Ends(o, "migrated") => Ready(job[o].release)
    /\ ~Ends(o, "applied twice")

-----------------------------------------------------------------------------
(* A registry in order has no two migrations with the same identifier.     *)
LEMMA OneOfEachId ==
  ASSUME NEW r \in Releases, NEW m \in Range(Registry[r]), NEW n \in Range(Registry[r]), m.id = n.id
  PROVE  m = n
<1>1. PICK i \in DOMAIN Registry[r], j \in DOMAIN Registry[r] : m = Registry[r][i] /\ n = Registry[r][j]
  BY DEF Range
<1>2. m.id \in Nat /\ n.id \in Nat
  BY ReleaseAssumption DEF Ids
<1>3. i < j => m.id < n.id
  BY <1>1, ReleaseAssumption DEF InOrder
<1>4. j < i => n.id < m.id
  BY <1>1, ReleaseAssumption DEF InOrder
<1>5. QED
  <2>1. i \in Nat /\ j \in Nat
    BY ReleaseAssumption
  <2>2. QED
    BY <1>1, <1>2, <1>3, <1>4, <2>1

(* A job that is not migrating asks nothing of the ledger or the lock.     *)
LEMMA Idle ==
  ASSUME NEW k, IsJob(k), k.step \notin Migrating, k.phases = {}, NEW applied
  PROVE  Good(k, applied)
BY DEF Good, Migrating

LEMMA FreeIsJob == IsJob(Free) /\ Free.step = "free" /\ Free.outcome = "none" /\ Free.phases = {}
BY DEF Free, IsJob, Fields

LEMMA FreeIsGood ==
  ASSUME NEW outcome, NEW applied
  PROVE  /\ Good([Free EXCEPT !.outcome = outcome], applied)
         /\ [Free EXCEPT !.outcome = outcome].step = "free"
         /\ [Free EXCEPT !.outcome = outcome].outcome = outcome
<1> DEFINE k == [Free EXCEPT !.outcome = outcome]
<1>1. IsJob(k) /\ k.step = "free" /\ k.outcome = outcome /\ k.phases = {}
  BY FreeIsJob DEF IsJob, Fields
<1> HIDE DEF k
<1>2. Good(k, applied)
  BY <1>1 DEF Good, Migrating
<1>3. QED
  BY <1>1, <1>2 DEF k

(* One job goes on, and neither the ledger nor the lock changes.           *)
LEMMA QuietStep ==
  ASSUME MInv, NEW o \in Operators, NEW k, job' = [job EXCEPT ![o] = k], UNCHANGED <<ledger, lock>>,
         Good(k, DOMAIN ledger), k.step \in Locked => lock = o, k.step = "free" => ~Busy(o)
  PROVE  MInv' /\ Reported
<1>1. \A p \in Operators : job'[p] = IF p = o THEN k ELSE job[p]
  BY DEF MInv
<1>2. job' = [p \in Operators |-> job'[p]]
  BY DEF MInv
<1>3. Exclusive'
  BY <1>1 DEF MInv, Exclusive
<1>4. \A p \in Operators : Good(job'[p], DOMAIN ledger')
  BY <1>1 DEF MInv
<1>5. Reported
  BY <1>1 DEF Reported, Ends, Busy
<1>6. QED
  BY <1>2, <1>3, <1>4, <1>5 DEF MInv

(* One job is over.                                                        *)
LEMMA EndStep ==
  ASSUME MInv, NEW o \in Operators, NEW outcome, End(o, outcome), UNCHANGED ledger,
         outcome = "migrated" => Ready(job[o].release), outcome # "applied twice"
  PROVE  MInv' /\ Reported
<1>1. \A p \in Operators : job'[p] = IF p = o THEN [Free EXCEPT !.outcome = outcome] ELSE job[p]
  BY DEF MInv, End
<1>2. job' = [p \in Operators |-> job'[p]]
  BY DEF MInv, End
<1>3. Exclusive'
  BY <1>1, FreeIsGood, Zenon DEF MInv, Exclusive, End, Locked
<1>4. ASSUME NEW p \in Operators
      PROVE  Good(job'[p], DOMAIN ledger')
  <2>1. Good([Free EXCEPT !.outcome = outcome], DOMAIN ledger)
    BY FreeIsGood, Zenon
  <2>2. CASE p = o
    <3>1. job'[p] = [Free EXCEPT !.outcome = outcome]
      BY <1>1, <2>2
    <3>2. QED
      BY <2>1, <3>1, Zenon
  <2>3. CASE p # o
    BY <1>1, <2>3 DEF MInv
  <2>4. QED
    BY <2>2, <2>3
<1>5. ASSUME NEW p \in Operators, NEW y, Ends(p, y)
      PROVE  p = o /\ y = outcome
  <2>1. CASE p = o
    <3>1. job'[p] = [Free EXCEPT !.outcome = outcome]
      BY <1>1, <2>1
    <3>2. job'[p].outcome = outcome
      BY <3>1, FreeIsGood, Zenon
    <3>3. QED
      BY <1>5, <2>1, <3>2 DEF Ends
  <2>2. CASE p # o
    <3>1. job'[p] = job[p]
      BY <1>1, <2>2
    <3>2. QED
      BY <1>5, <3>1, Zenon DEF Ends, Busy
  <2>3. QED
    BY <2>1, <2>2
<1>6. Reported
  BY <1>5 DEF Reported
<1>7. QED
  BY <1>2, <1>3, <1>4, <1>6 DEF MInv

(* A job goes on to another step without touching plan and phases.         *)
LEMMA StillGood ==
  ASSUME NEW k, IsJob(k), k.phases = {}, NEW l, IsJob(l), l.phases = {},
         l.release = k.release, l.step # "apply",
         l.step \in Migrating => k.release \in Releases, NEW applied
  PROVE  Good(l, applied)
BY DEF Good

-----------------------------------------------------------------------------
LEMMA InitMInv == Init => MInv
<1> SUFFICES ASSUME Init PROVE MInv
  OBVIOUS
<1>1. \A o \in Operators : job[o] = Free /\ job = [p \in Operators |-> job[p]]
  BY DEF Init
<1>3. \A o \in Operators : Good(job[o], DOMAIN ledger) /\ job[o].step = "free"
  BY <1>1, FreeIsJob DEF Good, Migrating
<1>2. job = [o \in Operators |-> job[o]]
  BY DEF Init
<1>4. QED
  BY <1>2, <1>3 DEF MInv, Exclusive, Locked

LEMMA BeginStep ==
  ASSUME MInv, NEW o \in Operators, NEW kind \in DOMAIN FirstStep, NEW r \in Releases, Begin(o, kind, r)
  PROVE  MInv' /\ Reported
<1> DEFINE k == [Free EXCEPT !.kind = kind, !.release = r, !.step = FirstStep[kind]]
<1>1. FirstStep[kind] \in {"lock", "look", "row", "state"}
  BY DEF FirstStep
<1>2. IsJob(k) /\ k.release = r /\ k.step = FirstStep[kind] /\ k.phases = {}
  BY FreeIsJob DEF IsJob, Fields
<1>3. job' = [job EXCEPT ![o] = k] /\ UNCHANGED <<ledger, lock>>
  BY DEF Begin, tables
<1> HIDE DEF k
<1>4. Good(k, DOMAIN ledger) /\ k.step \notin Locked
  BY <1>1, <1>2 DEF Good, Locked
<1>5. QED
  BY <1>1, <1>2, <1>3, <1>4, QuietStep

LEMMA TryLockStep ==
  ASSUME MInv, NEW o \in Operators, TryLock(o)
  PROVE  MInv' /\ Reported
<1>1. Good(job[o], DOMAIN ledger) /\ IsJob(job[o]) /\ job[o].phases = {} /\ job[o].release \in Releases
  BY DEF MInv, Good, TryLock, Migrating
<1>2. UNCHANGED ledger
  BY DEF TryLock, tables
<1>3. CASE LockFree
  <2> DEFINE k == [job[o] EXCEPT !.step = "load"]
  <2>1. job' = [job EXCEPT ![o] = k] /\ lock' = o
    BY <1>3 DEF TryLock
  <2>2. IsJob(k) /\ k.phases = {} /\ k.release = job[o].release /\ k.step = "load"
    BY <1>1 DEF IsJob, Fields
  <2> HIDE DEF k
  <2>3. Good(k, DOMAIN ledger)
    BY <1>1, <2>2, StillGood
  <2>4. \A p \in Operators : job'[p] = IF p = o THEN k ELSE job[p]
    BY <2>1 DEF MInv
  <2>5. job' = [p \in Operators |-> job'[p]]
    BY <2>1 DEF MInv
  <2>6. \A p \in Operators : job[p].step \notin Locked
    BY <1>3, ReleaseAssumption DEF MInv, Exclusive, LockFree
  <2>7. Exclusive'
    BY <2>1, <2>4, <2>6 DEF Exclusive
  <2>8. Reported
    BY <2>2, <2>4 DEF Reported, Ends, Busy
  <2>9. QED
    BY <1>2, <2>3, <2>4, <2>5, <2>7, <2>8 DEF MInv
<1>4. CASE ~LockFree /\ job[o].tries + 1 < MaxAttempts
  <2> DEFINE k == [job[o] EXCEPT !.tries = @ + 1]
  <2>1. job' = [job EXCEPT ![o] = k] /\ UNCHANGED <<ledger, lock>>
    BY <1>2, <1>4 DEF TryLock
  <2>2. IsJob(k) /\ k.phases = {} /\ k.release = job[o].release /\ k.step = "lock"
    BY <1>1 DEF TryLock, IsJob, Fields
  <2> HIDE DEF k
  <2>3. Good(k, DOMAIN ledger) /\ k.step \notin Locked
    BY <1>1, <2>2, StillGood DEF Locked
  <2>4. QED
    BY <2>1, <2>2, <2>3, QuietStep
<1>5. CASE ~LockFree /\ ~(job[o].tries + 1 < MaxAttempts)
  BY <1>2, <1>5, EndStep DEF TryLock
<1>6. QED
  BY <1>3, <1>4, <1>5

LEMMA LoadLedgerStep ==
  ASSUME MInv, NEW o \in Operators, LoadLedger(o)
  PROVE  MInv' /\ Reported
<1> DEFINE r == job[o].release
           k == [job[o] EXCEPT !.step = "apply", !.plan = Missing(r)]
<1>1. IsJob(job[o]) /\ job[o].phases = {} /\ r \in Releases /\ lock = o
  BY DEF MInv, Good, LoadLedger, Migrating, Exclusive, Locked
<1>2. UNCHANGED ledger
  BY DEF LoadLedger, tables
<1>3. CASE Mixed(Missing(r)) \/ Edited(r)
  <2>1. End(o, "phase conflict") \/ End(o, "edited")
    BY <1>3 DEF LoadLedger
  <2>2. QED
    BY <1>2, <2>1, EndStep
<1>4. CASE ~Mixed(Missing(r)) /\ ~Edited(r)
  <2>1. job' = [job EXCEPT ![o] = k] /\ UNCHANGED <<ledger, lock>>
    BY <1>2, <1>4 DEF LoadLedger
  <2>2. IsJob(k) /\ k.phases = {} /\ k.release = r /\ k.step = "apply" /\ k.plan = Missing(r)
    BY <1>1 DEF IsJob, Fields
  <2> HIDE DEF k
  <2>3. Delivery(k) = {m.phase : m \in Missing(r)}
    BY <2>2 DEF Delivery
  <2>4. Planned(k, DOMAIN ledger)
    BY <1>4, <2>2, <2>3 DEF Planned, Missing, Mixed
  <2>5. Good(k, DOMAIN ledger)
    BY <1>1, <2>2, <2>4 DEF Good
  <2>6. QED
    BY <1>1, <2>1, <2>2, <2>5, QuietStep
<1>5. QED
  BY <1>3, <1>4

(* The next migration of the plan is not in the ledger, and once it is, the*)
(* rest of the plan is what the ledger lacks.                              *)
LEMMA ApplyStep ==
  ASSUME MInv, NEW o \in Operators, Apply(o)
  PROVE  MInv' /\ Reported
<1> DEFINE migrations == Range(Registry[job[o].release])
<1>1. IsJob(job[o]) /\ job[o].release \in Releases /\ lock = o /\ Planned(job[o], DOMAIN ledger)
  BY DEF MInv, Good, Apply, Migrating, Exclusive, Locked
<1>2. PICK m \in job[o].plan :
        IF m.id \in DOMAIN ledger
        THEN End(o, "applied twice") /\ UNCHANGED ledger
        ELSE /\ ledger' = [id \in DOMAIN ledger \cup {m.id} |-> IF id = m.id THEN m ELSE ledger[id]]
             /\ job' = [job EXCEPT ![o].plan = @ \ {m}, ![o].phases = @ \cup {m.phase}]
             /\ UNCHANGED lock
  BY DEF Apply
<1>3. m \in migrations /\ m.id \notin DOMAIN ledger
  BY <1>1 DEF Planned
<1> DEFINE k == [job[o] EXCEPT !.plan = @ \ {m}, !.phases = @ \cup {m.phase}]
<1>4. DOMAIN ledger' = DOMAIN ledger \cup {m.id}
  BY <1>2, <1>3
<1>5. job' = [job EXCEPT ![o] = k] /\ UNCHANGED lock
  BY <1>2, <1>3
<1>6. /\ IsJob(k) /\ k.release = job[o].release /\ k.step = "apply"
      /\ k.plan = job[o].plan \ {m} /\ k.phases = job[o].phases \cup {m.phase}
  BY <1>1 DEF IsJob, Fields, Apply
<1> HIDE DEF k
<1>7. Planned(k, DOMAIN ledger')
  <2>1. k.plan \subseteq migrations
    BY <1>1, <1>6 DEF Planned
  <2>2. \A n \in migrations : n.id = m.id => n = m
    BY <1>1, <1>3, OneOfEachId
  <2>3. \A n \in migrations : n \in k.plan <=> n.id \notin DOMAIN ledger'
    BY <1>1, <1>4, <1>6, <2>2 DEF Planned
  <2>4. Delivery(k) \subseteq Delivery(job[o])
    BY <1>6 DEF Delivery
  <2>5. ~({"expand", "contract"} \subseteq Delivery(k))
    BY <1>1, <2>4 DEF Planned
  <2>6. QED
    BY <1>6, <2>1, <2>3, <2>5 DEF Planned
<1>8. Good(k, DOMAIN ledger')
  BY <1>1, <1>6, <1>7 DEF Good
<1>9. \A p \in Operators : job'[p] = IF p = o THEN k ELSE job[p]
  BY <1>5 DEF MInv
<1>10. \A p \in Operators : p # o => job[p].step # "apply"
  BY <1>1 DEF MInv, Exclusive, Locked
<1>11. \A p \in Operators : Good(job'[p], DOMAIN ledger')
  BY <1>8, <1>9, <1>10 DEF MInv, Good
<1>12. job' = [p \in Operators |-> job'[p]]
  BY <1>5 DEF MInv
<1>13. Exclusive'
  BY <1>1, <1>5, <1>9 DEF MInv, Exclusive
<1>14. Reported
  BY <1>6, <1>9 DEF Reported, Ends, Busy
<1>15. QED
  BY <1>11, <1>12, <1>13, <1>14 DEF MInv

(* A plan carried out is a ledger that has the whole registry.             *)
LEMMA FinishStep ==
  ASSUME MInv, NEW o \in Operators, FinishMigrate(o)
  PROVE  MInv' /\ Reported
<1>1. Planned(job[o], DOMAIN ledger)
  BY DEF MInv, Good, FinishMigrate
<1>2. Ready(job[o].release)
  BY <1>1 DEF Planned, FinishMigrate, Ready, Ids
<1>3. End(o, "migrated") /\ UNCHANGED ledger
  BY DEF FinishMigrate, tables
<1>4. QED
  BY <1>2, <1>3, EndStep

(* A job that is not a migration goes on.                                  *)
LEMMA OtherStep ==
  ASSUME MInv, NEW o \in Operators, job[o].step \notin Migrating,
         NEW k, IsJob(k), k.phases = job[o].phases, k.step \notin Migrating \cup {"free"},
         job' = [job EXCEPT ![o] = k], UNCHANGED <<ledger, lock>>
  PROVE  MInv' /\ Reported
<1>1. Good(job[o], DOMAIN ledger)
  BY DEF MInv
<1>2. k.phases = {}
  BY <1>1 DEF Good, Migrating
<1>3. Good(k, DOMAIN ledger)
  BY <1>2, Idle
<1>4. k.step \notin Locked /\ k.step # "free"
  BY DEF Locked, Migrating
<1>5. QED
  BY <1>3, <1>4, QuietStep

LEMMA OtherSteps ==
  ASSUME MInv, NEW o \in Operators,
         \/ Look(o) \/ Create(o) \/ ReadRow(o) \/ ReadAgents(o) \/ WriteSnapshot(o)
         \/ ReadState(o) \/ LoadSnapshot(o) \/ Compare(o)
  PROVE  MInv' /\ Reported
<1>1. UNCHANGED ledger /\ job[o].step \notin Migrating /\ IsJob(job[o])
  BY DEF Look, Create, ReadRow, ReadAgents, WriteSnapshot, ReadState, LoadSnapshot, Compare,
         tables, Migrating, MInv, Good
<1>2. ASSUME NEW outcome, End(o, outcome), outcome \notin {"migrated", "applied twice"}
      PROVE  MInv' /\ Reported
  BY <1>1, <1>2, EndStep
<1>3. CASE Look(o)
  <2> DEFINE k == [job[o] EXCEPT !.step = "create"]
  <2>1. IsJob(k) /\ k.phases = job[o].phases /\ k.step \notin Migrating \cup {"free"}
    BY <1>1 DEF IsJob, Fields, Migrating
  <2>2. \/ job' = [job EXCEPT ![o] = k] /\ UNCHANGED lock
        \/ End(o, "no tables") \/ End(o, "exists")
    BY <1>3 DEF Look
  <2> HIDE DEF k
  <2>3. QED
    BY <1>1, <1>2, <2>1, <2>2, OtherStep
<1>4. CASE Create(o)
  <2>1. End(o, "created by another") \/ End(o, "created")
    BY <1>4 DEF Create
  <2>2. QED
    BY <1>2, <2>1
<1>5. CASE ReadRow(o)
  <2> DEFINE k == [job[o] EXCEPT !.step = "agents", !.sequence = world.sequence]
  <2>1. IsJob(k) /\ k.phases = job[o].phases /\ k.step \notin Migrating \cup {"free"}
    BY <1>1 DEF IsJob, Fields, Migrating
  <2>2. \/ job' = [job EXCEPT ![o] = k] /\ UNCHANGED lock
        \/ End(o, "no tables") \/ End(o, "no world")
    BY <1>5 DEF ReadRow
  <2> HIDE DEF k
  <2>3. QED
    BY <1>1, <1>2, <2>1, <2>2, OtherStep
<1>6. CASE ReadAgents(o)
  <2> DEFINE k == [job[o] EXCEPT !.step = "write", !.agents = world.agents]
  <2>1. IsJob(k) /\ k.phases = job[o].phases /\ k.step \notin Migrating \cup {"free"}
    BY <1>1 DEF IsJob, Fields, Migrating
  <2>2. job' = [job EXCEPT ![o] = k] /\ UNCHANGED lock
    BY <1>6 DEF ReadAgents
  <2> HIDE DEF k
  <2>3. QED
    BY <1>1, <2>1, <2>2, OtherStep
<1>7. CASE WriteSnapshot(o)
  <2>1. End(o, "taken before") \/ End(o, "written")
    BY <1>7 DEF WriteSnapshot
  <2>2. QED
    BY <1>2, <2>1
<1>8. CASE ReadState(o)
  <2> DEFINE k == [job[o] EXCEPT !.step = "load snapshot", !.sequence = world.sequence,
                                 !.agents = world.agents]
  <2>1. IsJob(k) /\ k.phases = job[o].phases /\ k.step \notin Migrating \cup {"free"}
    BY <1>1 DEF IsJob, Fields, Migrating
  <2>2. \/ job' = [job EXCEPT ![o] = k] /\ UNCHANGED lock
        \/ End(o, "no tables") \/ End(o, "no world")
    BY <1>8 DEF ReadState
  <2> HIDE DEF k
  <2>3. QED
    BY <1>1, <1>2, <2>1, <2>2, OtherStep
<1>9. CASE LoadSnapshot(o)
  <2> DEFINE k == [job[o] EXCEPT !.step = "journal", !.from = Latest]
  <2>1. IsJob(k) /\ k.phases = job[o].phases /\ k.step \notin Migrating \cup {"free"}
    BY <1>1 DEF IsJob, Fields, Migrating
  <2>2. \/ job' = [job EXCEPT ![o] = k] /\ UNCHANGED lock
        \/ End(o, "other bundles") \/ End(o, "not qualified")
    BY <1>9 DEF LoadSnapshot
  <2> HIDE DEF k
  <2>3. QED
    BY <1>1, <1>2, <2>1, <2>2, OtherStep
<1>10. CASE Compare(o)
  <2>1. End(o, "broken") \/ End(o, "foreign") \/ End(o, "match") \/ End(o, "diverged")
    BY <1>10 DEF Compare
  <2>2. QED
    BY <1>2, <2>1
<1>11. QED
  BY <1>3, <1>4, <1>5, <1>6, <1>7, <1>8, <1>9, <1>10

(* The world goes on beside the jobs: nobody's plan is touched.            *)
LEMMA DisturbStep ==
  ASSUME MInv, Disturb, UNCHANGED <<ledger, lock>>
  PROVE  MInv' /\ Reported
<1>1. job' = [o \in Operators |-> job'[o]]
  BY DEF Disturb
<1>2. ASSUME NEW o \in Operators
      PROVE  Good(job'[o], DOMAIN ledger) /\ job'[o].step = job[o].step
  <2>1. IsJob(job[o]) /\ Good(job[o], DOMAIN ledger)
    BY DEF MInv, Good
  <2>2. job'[o] = IF Busy(o) THEN [job[o] EXCEPT !.disturbed = TRUE] ELSE job[o]
    BY DEF Disturb
  <2>3. /\ IsJob(job'[o]) /\ job'[o].step = job[o].step /\ job'[o].release = job[o].release
        /\ job'[o].plan = job[o].plan /\ job'[o].phases = job[o].phases
    BY <2>1, <2>2 DEF IsJob, Fields
  <2>4. QED
    BY <2>1, <2>3 DEF Good, Planned, Delivery
<1>3. Exclusive'
  BY <1>2 DEF MInv, Exclusive
<1>4. Reported
  BY <1>2 DEF Reported, Ends, Busy
<1>5. QED
  BY <1>1, <1>2, <1>3, <1>4 DEF MInv

-----------------------------------------------------------------------------
LEMMA NextMInv == MInv /\ [Next]_vars => MInv' /\ (Reported \/ UNCHANGED vars)
<1> SUFFICES ASSUME MInv, [Next]_vars PROVE MInv' /\ (Reported \/ UNCHANGED vars)
  OBVIOUS
<1>1. CASE \E o \in Operators : Work(o)
  <2>1. PICK o \in Operators : Work(o)
    BY <1>1
  <2>2. CASE Migrate(o)
    BY <2>2, TryLockStep, LoadLedgerStep, ApplyStep, FinishStep DEF Migrate
  <2>3. CASE ~Migrate(o)
    BY <2>1, <2>3, OtherSteps DEF Work
  <2>4. QED
    BY <2>2, <2>3
<1>2. CASE \E o \in Operators : Kill(o)
  BY <1>2, EndStep DEF Kill, tables
<1>3. CASE \E o \in Operators, kind \in DOMAIN FirstStep, r \in Releases : Begin(o, kind, r)
  BY <1>3, BeginStep
<1>4. CASE Commit
  BY <1>4, DisturbStep DEF Commit
<1>5. CASE Damage
  BY <1>5, DisturbStep DEF Damage
<1>6. CASE UNCHANGED vars
  BY <1>6 DEF MInv, Exclusive, vars, tables
<1>7. QED
  BY <1>1, <1>2, <1>3, <1>4, <1>5, <1>6 DEF Next

LEMMA Invariance == Spec => []MInv
<1>1. QED
  BY InitMInv, NextMInv, PTL DEF Spec

(* One run of the migrations never both expands the schema and contracts   *)
(* it, whatever other runs, of whatever releases, were killed before it.   *)
THEOREM OneDelivery == Spec => []ContractAlone
<1>1. MInv => ContractAlone
  BY DEF MInv, Good, Planned, Delivery, ContractAlone
<1>2. QED
  BY <1>1, Invariance, PTL

(* A migration that reports success leaves every table of its release, and *)
(* no migration is applied twice.                                          *)
THEOREM MigrationKeepsItsWord == Spec => MigratedIsReady
<1>1. MInv /\ [Next]_vars => [Reported]_vars
  BY NextMInv
<1>2. Spec => [][Reported]_vars
  BY <1>1, Invariance, PTL DEF Spec
<1>3. QED
  BY <1>2 DEF Reported, MigratedIsReady

-----------------------------------------------------------------------------
(* The numbers up to n.                                                    *)
Told(n) == [i \in 1 .. n |-> i]

(* The tables of a world, until something behind the program's back loses  *)
(* an event or alters an agent.                                            *)
Whole ==
  /\ DOMAIN journal = 1 .. world.sequence /\ world.agents = Told(world.sequence)
  /\ \A n \in DOMAIN journal : journal[n] = world.bundles

WorldFits ==
  /\ world = None => DOMAIN journal = {} /\ DOMAIN snapshots = {}
  /\ world # None =>
       /\ world \in Worlds
       /\ DOMAIN journal \subseteq 1 .. world.sequence
       /\ 0 \in DOMAIN snapshots /\ DOMAIN snapshots \subseteq 0 .. world.sequence
       /\ ~damaged => Whole

(* What a job has read of the world.                                       *)
Reading == {"agents", "write", "load snapshot", "journal"}
Fits(k) ==
  /\ k.step # "free" => k.release \in Releases
  /\ k.step \in Reading => world # None /\ k.sequence \in 0 .. world.sequence
  /\ k.step = "journal" => k.from \in DOMAIN snapshots
  /\ k.step \in {"load snapshot", "journal"} /\ ~damaged /\ ~k.disturbed =>
       k.sequence = world.sequence /\ k.agents = world.agents

DInv == MInv /\ WorldFits /\ \A o \in Operators : Fits(job[o])

-----------------------------------------------------------------------------
LEMMA SmallestIs ==
  ASSUME NEW T, T \subseteq Nat, T # {}
  PROVE  \E x \in T : \A y \in T : x <= y
<1>1. \E x \in T : \A y \in T : <<y, x>> \notin OpToRel(<, Nat)
  BY NatLessThanWellFounded, WFMin
<1>2. PICK x \in T : \A y \in T : <<y, x>> \notin OpToRel(<, Nat)
  BY <1>1
<1>3. \A y \in T : ~(y < x)
  BY <1>2 DEF OpToRel
<1>4. QED
  BY <1>3

(* The greatest of some numbers that have a bound.                         *)
LEMMA GreatestIs ==
  ASSUME NEW S, S \subseteq Nat, S # {}, NEW b \in Nat, \A x \in S : x <= b
  PROVE  Max(S) \in S /\ \A x \in S : x <= Max(S)
<1> DEFINE T == {b - x : x \in S}
<1>1. T \subseteq Nat /\ T # {}
  <2>1. \A x \in S : b - x \in Nat
    OBVIOUS
  <2>2. T \subseteq Nat
    BY <2>1
  <2>3. T # {}
    OBVIOUS
  <2>4. QED
    BY <2>2, <2>3
<1>2. PICK t \in T : \A u \in T : t <= u
  BY <1>1, SmallestIs
<1>3. PICK x \in S : t = b - x
  OBVIOUS
<1>4. \A y \in S : x >= y
  <2> SUFFICES ASSUME NEW y \in S PROVE x >= y
    OBVIOUS
  <2>1. b - x <= b - y
    BY <1>2, <1>3
  <2>2. QED
    BY <2>1
<1>5. Max(S) \in S /\ \A y \in S : Max(S) >= y
  BY <1>4 DEF Max
<1>6. QED
  BY <1>5

(* How many of some numbers in a row there are up to one of them.          *)
LEMMA RankInRow ==
  ASSUME NEW a \in Nat, NEW b \in Nat, NEW p \in a + 1 .. b
  PROVE  Cardinality({q \in a + 1 .. b : q <= p}) = p - a
<1>1. {q \in a + 1 .. b : q <= p} = a + 1 .. p
  OBVIOUS
<1>2. a + 1 \in Int /\ p \in Int /\ ~(a + 1 > p) /\ p - (a + 1) + 1 = p - a
  OBVIOUS
<1>3. Cardinality(a + 1 .. p) = p - a
  BY ONLY <1>2, FS_Interval
<1>4. QED
  BY <1>1, <1>3

LEMMA OrderedRow ==
  ASSUME NEW a \in Nat, NEW b \in Nat, a <= b
  PROVE  Ordered(a + 1 .. b) = [i \in 1 .. b - a |-> a + i]
<1> DEFINE P == a + 1 .. b
           Rank(p) == Cardinality({q \in P : q <= p})
           At(i) == CHOOSE p \in P : Rank(p) = i
<1>1. Cardinality(P) = b - a
  <2>1. a + 1 \in Int /\ b \in Int /\ (IF a + 1 > b THEN 0 ELSE b - (a + 1) + 1) = b - a
    OBVIOUS
  <2>2. QED
    BY ONLY <2>1, FS_Interval
<1>2. ASSUME NEW i \in 1 .. b - a
      PROVE  At(i) = a + i
  <2>1. a + i \in P
    OBVIOUS
  <2>2. \A p \in P : Rank(p) = p - a
    BY RankInRow
  <2> HIDE DEF Rank
  <2>3. \A p \in P : Rank(p) = i <=> p = a + i
    BY <2>2
  <2> HIDE DEF P
  <2>4. QED
    BY ONLY <2>1, <2>3
<1>3. Ordered(P) = [i \in 1 .. b - a |-> At(i)]
  BY <1>1 DEF Ordered
<1> HIDE DEF At, P
<1>4. [i \in 1 .. b - a |-> At(i)] = [i \in 1 .. b - a |-> a + i]
  BY <1>2
<1>5. QED
  BY <1>3, <1>4 DEF P

(* What is told up to a, and then up to b.                                 *)
LEMMA TellOn ==
  ASSUME NEW a \in Nat, NEW b \in Nat, a <= b
  PROVE  Told(a) \o [i \in 1 .. b - a |-> a + i] = Told(b)
<1> DEFINE r == [i \in 1 .. b - a |-> a + i]
<1>1. Told(a) \in Seq(Nat) /\ Len(Told(a)) = a /\ \A i \in 1 .. a : Told(a)[i] = i
  BY DEF Told
<1>2. Told(b) \in Seq(Nat) /\ Len(Told(b)) = b /\ \A i \in 1 .. b : Told(b)[i] = i
  BY DEF Told
<1>3. b - a \in Nat /\ \A i \in 1 .. b - a : a + i \in Nat
  OBVIOUS
<1>4. r \in Seq(Nat) /\ Len(r) = b - a /\ \A i \in 1 .. b - a : r[i] = a + i
  BY <1>3
<1> DEFINE s == Told(a) \o r
<1> HIDE DEF r
<1>5. s \in Seq(Nat) /\ Len(s) = b
  BY <1>1, <1>4
<1>6. ASSUME NEW i \in 1 .. b
      PROVE  s[i] = i
  <2>1. CASE i <= a
    BY <1>1, <1>4, <2>1
  <2>2. CASE i > a
    <3>1. s[i] = r[i - a] /\ i - a \in 1 .. b - a
      BY <1>1, <1>4, <2>2
    <3>2. QED
      BY <1>4, <3>1
  <2> HIDE DEF s
  <2>3. i <= a \/ i > a
    OBVIOUS
  <2>4. QED
    BY <2>1, <2>2, <2>3
<1> HIDE DEF s
<1>7. s = Told(b)
  <2>1. \A i \in 1 .. Len(s) : s[i] = Told(b)[i]
    BY <1>2, <1>5, <1>6
  <2>2. QED
    BY ONLY <1>2, <1>5, <2>1, SeqEqual
<1>8. QED
  BY <1>7 DEF s, r

-----------------------------------------------------------------------------
(* What a replay says of the world.                                        *)
Verdicts == {"match", "broken", "foreign", "diverged"}

LEMMA EndsOnlyAs ==
  ASSUME MInv, NEW o \in Operators, NEW y, End(o, y), NEW p \in Operators, NEW z, Ends(p, z)
  PROVE  p = o /\ z = y
<1>1. \A q \in Operators : job'[q] = IF q = o THEN [Free EXCEPT !.outcome = y] ELSE job[q]
  BY DEF MInv, End
<1>2. CASE p = o
  <2>1. job'[p] = [Free EXCEPT !.outcome = y]
    BY <1>1, <1>2
  <2>2. job'[p].outcome = y
    BY <2>1, FreeIsGood, Zenon
  <2>3. QED
    BY <1>2, <2>2 DEF Ends
<1>3. CASE p # o
  BY <1>1, <1>3 DEF Ends, Busy
<1>4. QED
  BY <1>2, <1>3

LEMMA NobodyEnds ==
  ASSUME MInv, NEW o \in Operators, NEW k, job' = [job EXCEPT ![o] = k],
         k.step # "free" \/ ~Busy(o), NEW p \in Operators, NEW z, Ends(p, z)
  PROVE  FALSE
<1>1. job'[p] = IF p = o THEN k ELSE job[p]
  BY DEF MInv
<1>2. QED
  BY <1>1 DEF Ends, Busy

(* A job goes on, or ends with something else to say.                      *)
GoesOn(o) ==
  \/ \E k : job' = [job EXCEPT ![o] = k] /\ k.step # "free"
  \/ \E y : End(o, y) /\ y \notin Verdicts

LEMMA GoesTo ==
  ASSUME NEW o \in Operators, NEW k, job' = [job EXCEPT ![o] = k], k.step # "free"
  PROVE  GoesOn(o)
BY DEF GoesOn

LEMMA EndsOtherwise ==
  ASSUME NEW o \in Operators, NEW y, End(o, y), y \notin Verdicts
  PROVE  GoesOn(o)
BY DEF GoesOn

LEMMA MigrateGoesOn ==
  ASSUME MInv, NEW o \in Operators, Migrate(o)
  PROVE  GoesOn(o)
<1>1. IsJob(job[o])
  BY DEF MInv, Good
<1>2. CASE TryLock(o)
  <2>1. ASSUME job' = [job EXCEPT ![o].step = "load"] PROVE GoesOn(o)
    <3> DEFINE k == [job[o] EXCEPT !.step = "load"]
    <3>1. job' = [job EXCEPT ![o] = k] /\ k.step # "free"
      BY <1>1, <2>1 DEF IsJob, Fields
    <3> HIDE DEF k
    <3>2. QED
      BY <3>1, GoesTo
  <2>2. ASSUME job' = [job EXCEPT ![o].tries = @ + 1] PROVE GoesOn(o)
    <3> DEFINE k == [job[o] EXCEPT !.tries = @ + 1]
    <3>1. job' = [job EXCEPT ![o] = k] /\ k.step # "free"
      BY <1>1, <1>2, <2>2 DEF IsJob, Fields, TryLock
    <3> HIDE DEF k
    <3>2. QED
      BY <3>1, GoesTo
  <2>3. ASSUME End(o, "lock timeout") PROVE GoesOn(o)
    BY <2>3, EndsOtherwise DEF Verdicts
  <2>4. QED
    BY <1>2, <2>1, <2>2, <2>3 DEF TryLock
<1>3. CASE LoadLedger(o)
  <2> DEFINE k == [job[o] EXCEPT !.step = "apply", !.plan = Missing(job[o].release)]
  <2>1. k.step # "free"
    BY <1>1 DEF IsJob, Fields
  <2>2. \/ End(o, "phase conflict") \/ End(o, "edited") \/ job' = [job EXCEPT ![o] = k]
    BY <1>3 DEF LoadLedger
  <2> HIDE DEF k
  <2>3. QED
    BY <2>1, <2>2, GoesTo, EndsOtherwise DEF Verdicts
<1>4. CASE Apply(o)
  <2>1. PICK m : \/ End(o, "applied twice")
                 \/ job' = [job EXCEPT ![o].plan = @ \ {m}, ![o].phases = @ \cup {m.phase}]
    BY <1>4 DEF Apply
  <2> DEFINE k == [job[o] EXCEPT !.plan = @ \ {m}, !.phases = @ \cup {m.phase}]
  <2>2. k.step # "free"
    BY <1>1, <1>4 DEF IsJob, Fields, Apply
  <2>3. End(o, "applied twice") \/ job' = [job EXCEPT ![o] = k]
    BY <2>1
  <2> HIDE DEF k
  <2>4. QED
    BY <2>2, <2>3, GoesTo, EndsOtherwise DEF Verdicts
<1>5. CASE FinishMigrate(o)
  BY <1>5, EndsOtherwise DEF FinishMigrate, Verdicts
<1>6. QED
  BY <1>2, <1>3, <1>4, <1>5 DEF Migrate

LEMMA OtherGoesOn ==
  ASSUME MInv, NEW o \in Operators,
         \/ Look(o) \/ Create(o) \/ ReadRow(o) \/ ReadAgents(o) \/ WriteSnapshot(o)
         \/ ReadState(o) \/ LoadSnapshot(o)
  PROVE  GoesOn(o)
<1>1. IsJob(job[o])
  BY DEF MInv, Good
<1>2. ASSUME NEW k, job' = [job EXCEPT ![o] = k], k.step # "free" PROVE GoesOn(o)
  BY <1>2, GoesTo
<1>3. ASSUME NEW y, End(o, y), y \notin Verdicts PROVE GoesOn(o)
  BY <1>3, EndsOtherwise
<1>4. CASE Look(o)
  <2> DEFINE k == [job[o] EXCEPT !.step = "create"]
  <2>1. k.step # "free"
    BY <1>1 DEF IsJob, Fields
  <2>2. job' = [job EXCEPT ![o] = k] \/ End(o, "no tables") \/ End(o, "exists")
    BY <1>4 DEF Look
  <2> HIDE DEF k
  <2>3. QED
    BY <1>2, <1>3, <2>1, <2>2 DEF Verdicts
<1>5. CASE Create(o)
  BY <1>3, <1>5 DEF Create, Verdicts
<1>6. CASE ReadRow(o)
  <2> DEFINE k == [job[o] EXCEPT !.step = "agents", !.sequence = world.sequence]
  <2>1. k.step # "free"
    BY <1>1 DEF IsJob, Fields
  <2>2. job' = [job EXCEPT ![o] = k] \/ End(o, "no tables") \/ End(o, "no world")
    BY <1>6 DEF ReadRow
  <2> HIDE DEF k
  <2>3. QED
    BY <1>2, <1>3, <2>1, <2>2 DEF Verdicts
<1>7. CASE ReadAgents(o)
  <2> DEFINE k == [job[o] EXCEPT !.step = "write", !.agents = world.agents]
  <2>1. k.step # "free"
    BY <1>1 DEF IsJob, Fields
  <2>2. job' = [job EXCEPT ![o] = k]
    BY <1>7 DEF ReadAgents
  <2> HIDE DEF k
  <2>3. QED
    BY <1>2, <2>1, <2>2
<1>8. CASE WriteSnapshot(o)
  BY <1>3, <1>8 DEF WriteSnapshot, Verdicts
<1>9. CASE ReadState(o)
  <2> DEFINE k == [job[o] EXCEPT !.step = "load snapshot", !.sequence = world.sequence,
                                 !.agents = world.agents]
  <2>1. k.step # "free"
    BY <1>1 DEF IsJob, Fields
  <2>2. job' = [job EXCEPT ![o] = k] \/ End(o, "no tables") \/ End(o, "no world")
    BY <1>9 DEF ReadState
  <2> HIDE DEF k
  <2>3. QED
    BY <1>2, <1>3, <2>1, <2>2 DEF Verdicts
<1>10. CASE LoadSnapshot(o)
  <2> DEFINE k == [job[o] EXCEPT !.step = "journal", !.from = Latest]
  <2>1. k.step # "free"
    BY <1>1 DEF IsJob, Fields
  <2>2. job' = [job EXCEPT ![o] = k] \/ End(o, "other bundles") \/ End(o, "not qualified")
    BY <1>10 DEF LoadSnapshot
  <2> HIDE DEF k
  <2>3. QED
    BY <1>2, <1>3, <2>1, <2>2 DEF Verdicts
<1>11. QED
  BY <1>4, <1>5, <1>6, <1>7, <1>8, <1>9, <1>10

(* Only a replay that compares has a verdict.                              *)
LEMMA WhoTells ==
  ASSUME MInv, Next, NEW p \in Operators, NEW z \in Verdicts, Ends(p, z)
  PROVE  Compare(p) /\ End(p, z)
<1>1. ASSUME NEW o \in Operators, Work(o)
      PROVE  Compare(p) /\ End(p, z)
  <2>1. CASE Compare(o)
    <3>1. PICK y : End(o, y)
      BY <2>1 DEF Compare
    <3>2. QED
      BY <2>1, <3>1, EndsOnlyAs
  <2>2. CASE ~Compare(o)
    <3>1. GoesOn(o)
      BY <1>1, <2>2, MigrateGoesOn, OtherGoesOn DEF Work
    <3>2. QED
      BY <3>1, EndsOnlyAs, NobodyEnds DEF GoesOn
  <2>3. QED
    BY <2>1, <2>2
<1>2. ASSUME NEW o \in Operators, Kill(o)
      PROVE  FALSE
  BY <1>2, EndsOnlyAs DEF Kill, Verdicts
<1>3. ASSUME NEW o \in Operators, NEW kind, NEW r, Begin(o, kind, r)
      PROVE  FALSE
  BY <1>3, NobodyEnds DEF Begin
<1>4. ASSUME Disturb PROVE FALSE
  <2>1. IsJob(job[p])
    BY DEF MInv, Good
  <2>2. job'[p] = IF Busy(p) THEN [job[p] EXCEPT !.disturbed = TRUE] ELSE job[p]
    BY <1>4 DEF Disturb
  <2>3. job'[p].step = job[p].step
    BY <2>1, <2>2 DEF IsJob, Fields
  <2>4. QED
    BY <2>3 DEF Ends, Busy
<1>5. QED
  BY <1>1, <1>2, <1>3, <1>4 DEF Next, Commit, Damage

-----------------------------------------------------------------------------
(* What a job has read still fits when the world has not changed.          *)
SameWorld == UNCHANGED <<world, journal, damaged>> /\ DOMAIN snapshots \subseteq DOMAIN snapshots'

LEMMA FitsStill ==
  ASSUME SameWorld, NEW p \in Operators, Fits(job[p]), job'[p] = job[p]
  PROVE  Fits(job[p])'
BY DEF SameWorld, Fits

LEMMA WorldStill ==
  ASSUME WorldFits, UNCHANGED <<world, journal, snapshots, damaged>>
  PROVE  WorldFits'
BY DEF WorldFits, Whole

(* One job goes on, or ends.                                               *)
LEMMA OneGoesOn ==
  ASSUME DInv, MInv', WorldFits', SameWorld, NEW o \in Operators,
         \A p \in Operators \ {o} : job'[p] = job[p], Fits(job[o])'
  PROVE  DInv'
<1>1. ASSUME NEW p \in Operators
      PROVE  Fits(job[p])'
  <2>1. CASE p = o
    BY <2>1
  <2>2. CASE p # o
    BY <2>2, FitsStill DEF DInv
  <2>3. QED
    BY <2>1, <2>2
<1>2. QED
  BY <1>1 DEF DInv

LEMMA OneEnds ==
  ASSUME DInv, MInv', WorldFits', SameWorld, NEW o \in Operators, NEW y, End(o, y)
  PROVE  DInv'
<1>1. \A q \in Operators : job'[q] = IF q = o THEN [Free EXCEPT !.outcome = y] ELSE job[q]
  BY DEF DInv, MInv, End
<1>2. \A p \in Operators \ {o} : job'[p] = job[p]
  BY <1>1
<1>3. job'[o] = [Free EXCEPT !.outcome = y]
  BY <1>1
<1>4. job'[o].step = "free"
  BY <1>3, FreeIsGood, Zenon
<1>5. Fits(job[o])'
  BY <1>4 DEF Fits, Reading
<1>6. QED
  BY <1>2, <1>5, OneGoesOn

(* A step that only reads, or works on the ledger.                         *)
LEMMA ReaderStep ==
  ASSUME DInv, MInv', UNCHANGED <<world, journal, snapshots, damaged>>, NEW o \in Operators,
         \A p \in Operators \ {o} : job'[p] = job[p], Fits(job[o])'
  PROVE  DInv'
<1>1. WorldFits' /\ SameWorld
  BY WorldStill DEF DInv, SameWorld
<1>2. QED
  BY <1>1, OneGoesOn

LEMMA ReaderEnds ==
  ASSUME DInv, MInv', UNCHANGED <<world, journal, snapshots, damaged>>, NEW o \in Operators,
         NEW y, End(o, y)
  PROVE  DInv'
<1>1. WorldFits' /\ SameWorld
  BY WorldStill DEF DInv, SameWorld
<1>2. QED
  BY <1>1, OneEnds

LEMMA OneChanges ==
  ASSUME MInv, NEW o \in Operators, NEW k, job' = [job EXCEPT ![o] = k]
  PROVE  job'[o] = k /\ \A p \in Operators \ {o} : job'[p] = job[p]
<1>1. job = [p \in Operators |-> job[p]]
  BY DEF MInv
<1>2. \A p \in Operators : job'[p] = IF p = o THEN k ELSE job[p]
  BY <1>1
<1>3. QED
  BY <1>2

(* A job of a release that reads nothing of the world.                     *)
LEMMA ReadsNothing ==
  ASSUME DInv, MInv', UNCHANGED <<world, journal, snapshots, damaged>>, NEW o \in Operators,
         NEW k, job' = [job EXCEPT ![o] = k], k.release \in Releases, k.step \notin Reading
  PROVE  DInv'
<1>1. job'[o] = k /\ \A p \in Operators \ {o} : job'[p] = job[p]
  BY OneChanges DEF DInv
<1>2. Fits(job[o])'
  BY <1>1 DEF Fits, Reading
<1>3. QED
  BY <1>1, <1>2, ReaderStep

LEMMA BeginFits ==
  ASSUME DInv, MInv', NEW o \in Operators, NEW kind \in DOMAIN FirstStep, NEW r \in Releases,
         Begin(o, kind, r)
  PROVE  DInv'
<1>1. UNCHANGED <<world, journal, snapshots, damaged>>
  BY DEF Begin, tables
<1> DEFINE k == [Free EXCEPT !.kind = kind, !.release = r, !.step = FirstStep[kind]]
<1>2. job' = [job EXCEPT ![o] = k]
  BY DEF Begin
<1>3. k.release = r /\ k.step = FirstStep[kind]
  BY DEF Free
<1> HIDE DEF k
<1>4. FirstStep[kind] \in {"lock", "look", "row", "state"}
  BY DEF FirstStep
<1>5. k.step \notin Reading
  BY <1>3, <1>4 DEF Reading
<1>6. QED
  BY <1>1, <1>2, <1>3, <1>5, ReadsNothing

LEMMA MigrateFits ==
  ASSUME DInv, MInv', UNCHANGED damaged, NEW o \in Operators, Migrate(o)
  PROVE  DInv'
<1>1. UNCHANGED <<world, journal, snapshots, damaged>>
  BY DEF Migrate, TryLock, LoadLedger, Apply, FinishMigrate, tables
<1>2. IsJob(job[o]) /\ (job[o].step # "free" => job[o].release \in Releases)
  BY DEF DInv, MInv, Good, Fits
<1>3. CASE TryLock(o)
  <2> DEFINE k == [job[o] EXCEPT !.step = "load"]
             l == [job[o] EXCEPT !.tries = @ + 1]
  <2>1. \/ job' = [job EXCEPT ![o] = k] \/ job' = [job EXCEPT ![o] = l] \/ End(o, "lock timeout")
    BY <1>3 DEF TryLock
  <2>2. job[o].step = "lock"
    BY <1>3 DEF TryLock
  <2>3. /\ k.release = job[o].release /\ k.step = "load"
        /\ l.release = job[o].release /\ l.step = "lock"
    BY <1>2, <2>2 DEF IsJob, Fields
  <2> HIDE DEF k, l
  <2>4. QED
    BY <1>1, <1>2, <2>1, <2>2, <2>3, ReadsNothing, ReaderEnds DEF Reading
<1>4. CASE LoadLedger(o)
  <2> DEFINE k == [job[o] EXCEPT !.step = "apply", !.plan = Missing(job[o].release)]
  <2>1. \/ End(o, "phase conflict") \/ End(o, "edited") \/ job' = [job EXCEPT ![o] = k]
    BY <1>4 DEF LoadLedger
  <2>2. k.release = job[o].release /\ k.step = "apply" /\ job[o].step = "load"
    BY <1>2, <1>4 DEF IsJob, Fields, LoadLedger
  <2> HIDE DEF k
  <2>3. QED
    BY <1>1, <1>2, <2>1, <2>2, ReadsNothing, ReaderEnds DEF Reading
<1>5. CASE Apply(o)
  <2>1. PICK m : \/ End(o, "applied twice")
                 \/ job' = [job EXCEPT ![o].plan = @ \ {m}, ![o].phases = @ \cup {m.phase}]
    BY <1>5 DEF Apply
  <2> DEFINE k == [job[o] EXCEPT !.plan = @ \ {m}, !.phases = @ \cup {m.phase}]
  <2>2. k.release = job[o].release /\ k.step = "apply" /\ job[o].step = "apply"
    BY <1>2, <1>5 DEF IsJob, Fields, Apply
  <2>3. End(o, "applied twice") \/ job' = [job EXCEPT ![o] = k]
    BY <2>1
  <2> HIDE DEF k
  <2>4. QED
    BY <1>1, <1>2, <2>2, <2>3, ReadsNothing, ReaderEnds DEF Reading
<1>6. CASE FinishMigrate(o)
  BY <1>1, <1>6, ReaderEnds DEF FinishMigrate
<1>7. QED
  BY <1>3, <1>4, <1>5, <1>6 DEF Migrate

LEMMA LookFits ==
  ASSUME DInv, MInv', UNCHANGED damaged, NEW o \in Operators, Look(o)
  PROVE  DInv'
<1>1. UNCHANGED <<world, journal, snapshots, damaged>> /\ job[o].step = "look"
  BY DEF Look, tables
<1>2. IsJob(job[o]) /\ job[o].release \in Releases
  BY <1>1 DEF DInv, MInv, Good, Fits
<1> DEFINE k == [job[o] EXCEPT !.step = "create"]
<1>3. job' = [job EXCEPT ![o] = k] \/ End(o, "no tables") \/ End(o, "exists")
  BY DEF Look
<1>4. k.release = job[o].release /\ k.step = "create"
  BY <1>2 DEF IsJob, Fields
<1> HIDE DEF k
<1>5. QED
  BY <1>1, <1>2, <1>3, <1>4, ReadsNothing, ReaderEnds DEF Reading

(* Nobody reads a world that is made now.                                  *)
LEMMA CreateFits ==
  ASSUME DInv, MInv', UNCHANGED damaged, NEW o \in Operators, Create(o)
  PROVE  DInv'
<1> DEFINE r == job[o].release
           row == [sequence |-> 0, agents |-> <<>>, bundles |-> Bundles[r], profile |-> Profile[r]]
<1>1. job[o].step = "create" /\ r \in Releases
  BY DEF Create, DInv, Fits
<1>2. CASE world # None
  BY <1>2, ReaderEnds DEF Create
<1>3. CASE world = None
  <2>1. /\ world' = row /\ DOMAIN snapshots' = {0} /\ End(o, "created") /\ journal' = journal
    BY <1>3 DEF Create
  <2>2. row \in Worlds
    <3>1. <<>> \in Seq(Nat) /\ 0 \in Nat
      OBVIOUS
    <3>2. QED
      BY <1>1, <3>1 DEF Worlds
  <2>3. row.sequence = 0 /\ row.agents = <<>>
    OBVIOUS
  <2> HIDE DEF row
  <2>4. world' # None
    BY <2>1, <2>2, ReleaseAssumption
  <2>5. DOMAIN journal' = {}
    BY <1>3, <2>1 DEF DInv, WorldFits
  <2>6. Whole'
    <3>1. 1 .. 0 = {} /\ Told(0) = <<>>
      BY DEF Told
    <3>2. world'.sequence = 0 /\ world'.agents = <<>>
      BY <2>1, <2>3
    <3>3. QED
      BY <2>5, <3>1, <3>2 DEF Whole
  <2>7. WorldFits'
    BY <2>1, <2>2, <2>3, <2>4, <2>5, <2>6 DEF WorldFits
  <2>8. ASSUME NEW p \in Operators
        PROVE  Fits(job[p])'
    <3>1. CASE p = o
      <4>1. job'[o] = [Free EXCEPT !.outcome = "created"]
        BY <2>1 DEF End, DInv, MInv
      <4>2. job'[o].step = "free"
        BY <4>1, FreeIsGood, Zenon
      <4>3. QED
        BY <3>1, <4>2 DEF Fits, Reading
    <3>2. CASE p # o
      <4>1. job'[p] = job[p]
        BY <2>1, <3>2 DEF End, DInv, MInv
      <4>2. job[p].step \notin Reading /\ (job[p].step # "free" => job[p].release \in Releases)
        BY <1>3 DEF DInv, Fits
      <4>3. QED
        BY <4>1, <4>2 DEF Fits, Reading
    <3>3. QED
      BY <3>1, <3>2
  <2>9. QED
    BY <2>7, <2>8 DEF DInv
<1>4. QED
  BY <1>2, <1>3

LEMMA ReadRowFits ==
  ASSUME DInv, MInv', UNCHANGED damaged, NEW o \in Operators, ReadRow(o)
  PROVE  DInv'
<1>1. UNCHANGED <<world, journal, snapshots, damaged>> /\ job[o].step = "row"
  BY DEF ReadRow, tables
<1>2. IsJob(job[o]) /\ job[o].release \in Releases
  BY <1>1 DEF DInv, MInv, Good, Fits
<1> DEFINE k == [job[o] EXCEPT !.step = "agents", !.sequence = world.sequence]
<1>3. \/ job' = [job EXCEPT ![o] = k] /\ world # None
      \/ End(o, "no tables") \/ End(o, "no world")
  BY DEF ReadRow
<1>4. CASE job' = [job EXCEPT ![o] = k] /\ world # None
  <2>1. k.release = job[o].release /\ k.step = "agents" /\ k.sequence = world.sequence
    BY <1>2 DEF IsJob, Fields
  <2> HIDE DEF k
  <2>2. job'[o] = k /\ \A p \in Operators \ {o} : job'[p] = job[p]
    BY <1>4, OneChanges DEF DInv
  <2>3. world.sequence \in 0 .. world.sequence
    BY <1>4 DEF DInv, WorldFits, Worlds
  <2>4. Fits(job[o])'
    BY <1>1, <1>2, <1>4, <2>1, <2>2, <2>3 DEF Fits
  <2>5. QED
    BY <1>1, <2>2, <2>4, ReaderStep
<1>5. QED
  BY <1>1, <1>3, <1>4, ReaderEnds

LEMMA ReadAgentsFits ==
  ASSUME DInv, MInv', UNCHANGED damaged, NEW o \in Operators, ReadAgents(o)
  PROVE  DInv'
<1>1. UNCHANGED <<world, journal, snapshots, damaged>> /\ job[o].step = "agents"
  BY DEF ReadAgents, tables
<1>2. /\ IsJob(job[o]) /\ job[o].release \in Releases
      /\ world # None /\ job[o].sequence \in 0 .. world.sequence
  BY <1>1 DEF DInv, MInv, Good, Fits, Reading
<1> DEFINE k == [job[o] EXCEPT !.step = "write", !.agents = world.agents]
<1>3. job' = [job EXCEPT ![o] = k]
  BY DEF ReadAgents
<1>4. k.release = job[o].release /\ k.step = "write" /\ k.sequence = job[o].sequence
  BY <1>2 DEF IsJob, Fields
<1> HIDE DEF k
<1>5. job'[o] = k /\ \A p \in Operators \ {o} : job'[p] = job[p]
  BY <1>3, OneChanges DEF DInv
<1>6. Fits(job[o])'
  BY <1>1, <1>2, <1>4, <1>5 DEF Fits
<1>7. QED
  BY <1>1, <1>5, <1>6, ReaderStep

(* A snapshot is never taken of a sequence that the world has not reached. *)
LEMMA WriteSnapshotFits ==
  ASSUME DInv, MInv', UNCHANGED damaged, NEW o \in Operators, WriteSnapshot(o)
  PROVE  DInv'
<1> DEFINE s == job[o].sequence
<1>1. UNCHANGED <<world, journal, damaged>> /\ job[o].step = "write"
  BY DEF WriteSnapshot
<1>2. world # None /\ s \in 0 .. world.sequence
  BY <1>1 DEF DInv, Fits, Reading
<1>3. \/ snapshots' = snapshots /\ End(o, "taken before")
      \/ DOMAIN snapshots' = DOMAIN snapshots \cup {s} /\ End(o, "written")
  BY DEF WriteSnapshot
<1> HIDE DEF s
<1>4. /\ DOMAIN snapshots \subseteq DOMAIN snapshots'
      /\ DOMAIN snapshots' \subseteq DOMAIN snapshots \cup {s}
  BY <1>3
<1>5. SameWorld
  BY <1>1, <1>4 DEF SameWorld
<1>6. /\ world \in Worlds /\ DOMAIN journal \subseteq 1 .. world.sequence
      /\ 0 \in DOMAIN snapshots /\ DOMAIN snapshots \subseteq 0 .. world.sequence
      /\ ~damaged => Whole
  BY <1>2 DEF DInv, WorldFits
<1>7. ~damaged' => Whole'
  BY <1>1, <1>6 DEF Whole
<1>8. WorldFits'
  BY <1>1, <1>2, <1>4, <1>6, <1>7 DEF WorldFits
<1>9. QED
  BY <1>3, <1>5, <1>8, OneEnds

LEMMA ReadStateFits ==
  ASSUME DInv, MInv', UNCHANGED damaged, NEW o \in Operators, ReadState(o)
  PROVE  DInv'
<1>1. UNCHANGED <<world, journal, snapshots, damaged>> /\ job[o].step = "state"
  BY DEF ReadState, tables
<1>2. IsJob(job[o]) /\ job[o].release \in Releases
  BY <1>1 DEF DInv, MInv, Good, Fits
<1> DEFINE k == [job[o] EXCEPT !.step = "load snapshot", !.sequence = world.sequence,
                               !.agents = world.agents]
<1>3. \/ job' = [job EXCEPT ![o] = k] /\ world # None
      \/ End(o, "no tables") \/ End(o, "no world")
  BY DEF ReadState
<1>4. CASE job' = [job EXCEPT ![o] = k] /\ world # None
  <2>1. /\ k.release = job[o].release /\ k.step = "load snapshot"
        /\ k.sequence = world.sequence /\ k.agents = world.agents
    BY <1>2 DEF IsJob, Fields
  <2> HIDE DEF k
  <2>2. job'[o] = k /\ \A p \in Operators \ {o} : job'[p] = job[p]
    BY <1>4, OneChanges DEF DInv
  <2>3. world.sequence \in 0 .. world.sequence
    BY <1>4 DEF DInv, WorldFits, Worlds
  <2>4. Fits(job[o])'
    BY <1>1, <1>2, <1>4, <2>1, <2>2, <2>3 DEF Fits
  <2>5. QED
    BY <1>1, <2>2, <2>4, ReaderStep
<1>5. QED
  BY <1>1, <1>3, <1>4, ReaderEnds

(* There is a last snapshot, since that of genesis is there.               *)
LEMMA LatestIs ==
  ASSUME WorldFits, world # None
  PROVE  Latest \in DOMAIN snapshots
<1>1. /\ world.sequence \in Nat /\ DOMAIN snapshots # {}
      /\ DOMAIN snapshots \subseteq Nat /\ \A s \in DOMAIN snapshots : s <= world.sequence
  BY DEF WorldFits, Worlds
<1>2. QED
  BY <1>1, GreatestIs DEF Latest

LEMMA LoadSnapshotFits ==
  ASSUME DInv, MInv', UNCHANGED damaged, NEW o \in Operators, LoadSnapshot(o)
  PROVE  DInv'
<1>1. UNCHANGED <<world, journal, snapshots, damaged>> /\ job[o].step = "load snapshot"
  BY DEF LoadSnapshot, tables
<1>2. /\ IsJob(job[o]) /\ job[o].release \in Releases /\ world # None
      /\ job[o].sequence \in 0 .. world.sequence /\ Latest \in DOMAIN snapshots
      /\ ~damaged /\ ~job[o].disturbed =>
           job[o].sequence = world.sequence /\ job[o].agents = world.agents
  BY <1>1, LatestIs DEF DInv, MInv, Good, Fits, Reading
<1> DEFINE k == [job[o] EXCEPT !.step = "journal", !.from = Latest]
<1>3. \/ job' = [job EXCEPT ![o] = k]
      \/ End(o, "other bundles") \/ End(o, "not qualified")
  BY DEF LoadSnapshot
<1>4. CASE job' = [job EXCEPT ![o] = k]
  <2>1. /\ k.release = job[o].release /\ k.step = "journal" /\ k.sequence = job[o].sequence
        /\ k.agents = job[o].agents /\ k.from = Latest /\ k.disturbed = job[o].disturbed
    BY <1>2 DEF IsJob, Fields
  <2> HIDE DEF k
  <2>2. job'[o] = k /\ \A p \in Operators \ {o} : job'[p] = job[p]
    BY <1>4, OneChanges DEF DInv
  <2>3. world' # None /\ k.sequence \in 0 .. world'.sequence /\ k.from \in DOMAIN snapshots'
    BY <1>1, <1>2, <2>1
  <2>4. ~damaged' /\ ~k.disturbed => k.sequence = world'.sequence /\ k.agents = world'.agents
    <3>1. world' = world /\ damaged' = damaged
      BY <1>1
    <3>2. k.sequence = job[o].sequence /\ k.agents = job[o].agents /\ k.disturbed = job[o].disturbed
      BY <2>1
    <3>3. SUFFICES ASSUME ~damaged', ~k.disturbed
                   PROVE  k.sequence = world'.sequence /\ k.agents = world'.agents
      OBVIOUS
    <3>4. ~damaged
      BY ONLY <3>1, <3>3, Zenon
    <3>5. ~job[o].disturbed
      BY ONLY <3>2, <3>3, Zenon
    <3>6. job[o].sequence = world.sequence /\ job[o].agents = world.agents
      BY <1>2, <3>4, <3>5
    <3>7. QED
      BY <3>1, <3>2, <3>6
  <2>5. Fits(job[o])'
    BY <1>2, <2>1, <2>2, <2>3, <2>4 DEF Fits
  <2>6. QED
    BY <1>1, <2>2, <2>5, ReaderStep
<1>5. QED
  BY <1>1, <1>3, <1>4, ReaderEnds

LEMMA CompareFits ==
  ASSUME DInv, MInv', UNCHANGED damaged, NEW o \in Operators, Compare(o)
  PROVE  DInv'
<1>1. UNCHANGED <<world, journal, snapshots, damaged>>
  BY DEF Compare, tables
<1>2. PICK y : End(o, y)
  BY DEF Compare
<1>3. QED
  BY <1>1, <1>2, ReaderEnds

LEMMA KillFits ==
  ASSUME DInv, MInv', NEW o \in Operators, Kill(o)
  PROVE  DInv'
<1>1. UNCHANGED <<world, journal, snapshots, damaged>> /\ End(o, "killed")
  BY DEF Kill, tables
<1>2. QED
  BY <1>1, ReaderEnds

(* Whoever is reading has it on his slate that the world has changed.      *)
LEMMA ReadersDisturbed ==
  ASSUME DInv, MInv', WorldFits', Disturb, UNCHANGED snapshots,
         world # None =>
           world' # None /\ world'.sequence \in Nat /\ world.sequence <= world'.sequence
  PROVE  DInv'
<1>1. ASSUME NEW p \in Operators
      PROVE  Fits(job[p])'
  <2>1. job'[p] = IF Busy(p) THEN [job[p] EXCEPT !.disturbed = TRUE] ELSE job[p]
    BY DEF Disturb
  <2>2. CASE ~Busy(p)
    BY <2>1, <2>2 DEF Busy, Fits, Reading
  <2>3. CASE Busy(p)
    <3> DEFINE k == [job[p] EXCEPT !.disturbed = TRUE]
    <3>1. IsJob(job[p]) /\ Fits(job[p])
      BY DEF DInv, MInv, Good
    <3>2. /\ k.step = job[p].step /\ k.release = job[p].release /\ k.from = job[p].from
          /\ k.sequence = job[p].sequence /\ k.disturbed
      BY <3>1 DEF IsJob, Fields
    <3>3. job'[p] = k
      BY <2>1, <2>3
    <3> HIDE DEF k
    <3>4. k.step # "free" => k.release \in Releases
      BY <3>1, <3>2 DEF Fits
    <3>5. k.step \in Reading => world' # None /\ k.sequence \in 0 .. world'.sequence
      <4>1. SUFFICES ASSUME k.step \in Reading
                     PROVE  world' # None /\ k.sequence \in 0 .. world'.sequence
        OBVIOUS
      <4>2. world # None /\ k.sequence \in 0 .. world.sequence
        BY <3>1, <3>2, <4>1 DEF Fits
      <4>3. world.sequence \in Nat
        BY <4>2 DEF DInv, WorldFits, Worlds
      <4>4. QED
        BY <4>2, <4>3
    <3>6. k.step = "journal" => k.from \in DOMAIN snapshots'
      BY <3>1, <3>2 DEF Fits
    <3>7. QED
      BY <3>2, <3>3, <3>4, <3>5, <3>6 DEF Fits
  <2>4. QED
    BY <2>2, <2>3
<1>2. QED
  BY <1>1 DEF DInv

(* A row with other values in two of its columns.                          *)
LEMMA WorldWith ==
  ASSUME world \in Worlds, NEW n \in Nat, NEW c \in Seq(Nat)
  PROVE  LET row == [world EXCEPT !.sequence = n, !.agents = c]
         IN row \in Worlds /\ row.sequence = n /\ row.agents = c /\ row.bundles = world.bundles
<1>1. PICK s \in Nat, a \in Seq(Nat), b \in {Bundles[r] : r \in Releases},
           p \in {Profile[r] : r \in Releases} :
        world = [sequence |-> s, agents |-> a, bundles |-> b, profile |-> p]
  BY DEF Worlds
<1> DEFINE u == [world EXCEPT !.sequence = n]
           v == [u EXCEPT !.agents = c]
<1>2. u = [sequence |-> n, agents |-> a, bundles |-> b, profile |-> p]
  BY <1>1
<1>3. [world EXCEPT !.sequence = n, !.agents = c] = v
  OBVIOUS
<1>4. world.bundles = b
  BY <1>1
<1> HIDE DEF u
<1>5. v = [sequence |-> n, agents |-> c, bundles |-> b, profile |-> p]
  BY <1>2
<1> HIDE DEF v
<1>6. v \in Worlds /\ v.sequence = n /\ v.agents = c /\ v.bundles = b
  BY <1>5 DEF Worlds
<1>7. QED
  BY <1>3, <1>4, <1>6

LEMMA CommitFits ==
  ASSUME DInv, MInv', Commit
  PROVE  DInv'
<1> DEFINE n == world.sequence + 1
           row == [world EXCEPT !.sequence = n, !.agents = Append(world.agents, n)]
<1>1. /\ world # None /\ Disturb /\ UNCHANGED <<snapshots, damaged>>
      /\ world' = row
      /\ journal' = [i \in DOMAIN journal \cup {n} |-> IF i = n THEN world.bundles ELSE journal[i]]
  BY DEF Commit
<1>2. /\ world \in Worlds /\ DOMAIN journal \subseteq 1 .. world.sequence
      /\ 0 \in DOMAIN snapshots /\ DOMAIN snapshots \subseteq 0 .. world.sequence
      /\ ~damaged => Whole
  BY <1>1 DEF DInv, WorldFits
<1>3. world.sequence \in Nat /\ world.agents \in Seq(Nat)
  BY <1>2 DEF Worlds
<1>4. n \in Nat /\ Append(world.agents, n) \in Seq(Nat)
  BY <1>3
<1>5. /\ row \in Worlds /\ row.sequence = n /\ row.bundles = world.bundles
      /\ row.agents = Append(world.agents, n)
  BY <1>2, <1>4, WorldWith
<1> HIDE DEF row
<1>6. world' # None
  BY <1>1, <1>5, ReleaseAssumption
<1>7. DOMAIN journal' \subseteq 1 .. world'.sequence
  BY <1>1, <1>2, <1>3, <1>5
<1>8. 0 \in DOMAIN snapshots' /\ DOMAIN snapshots' \subseteq 0 .. world'.sequence
  BY <1>1, <1>2, <1>3, <1>5
<1>9. ASSUME ~damaged'
      PROVE  Whole'
  <2>1. Whole
    BY <1>1, <1>2, <1>9
  <2>2. DOMAIN journal' = 1 .. n
    BY <1>1, <1>3, <2>1 DEF Whole
  <2>3. Append(Told(world.sequence), n) = Told(n)
    BY <1>3 DEF Told
  <2>4. world'.agents = Told(n)
    BY <1>1, <1>5, <2>1, <2>3 DEF Whole
  <2>5. \A i \in DOMAIN journal' : journal'[i] = world.bundles
    BY <1>1, <2>1 DEF Whole
  <2>6. world'.sequence = n /\ world'.bundles = world.bundles
    BY <1>1, <1>5
  <2> HIDE DEF n
  <2>7. QED
    BY <2>2, <2>4, <2>5, <2>6 DEF Whole
<1>10. WorldFits'
  BY <1>1, <1>5, <1>6, <1>7, <1>8, <1>9 DEF WorldFits
<1>11. world'.sequence \in Nat /\ world.sequence <= world'.sequence
  BY <1>1, <1>3, <1>5
<1>12. QED
  BY <1>1, <1>6, <1>10, <1>11, ReadersDisturbed

LEMMA DamageFits ==
  ASSUME DInv, MInv', Damage
  PROVE  DInv'
<1>1. /\ world # None /\ Disturb /\ UNCHANGED snapshots /\ damaged'
      /\ world' = world \/ world' = [world EXCEPT !.agents = Append(@, 0)]
      /\ DOMAIN journal' \subseteq DOMAIN journal
  BY DEF Damage
<1>2. /\ world \in Worlds /\ DOMAIN journal \subseteq 1 .. world.sequence
      /\ 0 \in DOMAIN snapshots /\ DOMAIN snapshots \subseteq 0 .. world.sequence
  BY <1>1 DEF DInv, WorldFits
<1>3. world' \in Worlds /\ world'.sequence = world.sequence
  <2>1. CASE world' = world
    BY <1>2, <2>1
  <2>2. CASE world' = [world EXCEPT !.agents = Append(@, 0)]
    <3>1. PICK s \in Nat, a \in Seq(Nat), b \in {Bundles[r] : r \in Releases},
               p \in {Profile[r] : r \in Releases} :
            world = [sequence |-> s, agents |-> a, bundles |-> b, profile |-> p]
      BY <1>2 DEF Worlds
    <3> DEFINE c == Append(a, 0)
    <3>2. world' = [sequence |-> s, agents |-> c, bundles |-> b, profile |-> p]
      BY <2>2, <3>1
    <3>3. c \in Seq(Nat)
      OBVIOUS
    <3> HIDE DEF c
    <3>4. world' \in Worlds /\ world'.sequence = s /\ world.sequence = s
      BY <3>1, <3>2, <3>3 DEF Worlds
    <3>5. QED
      BY <3>4
  <2>3. QED
    BY <1>1, <2>1, <2>2
<1>4. world' # None /\ world'.sequence \in Nat /\ world.sequence <= world'.sequence
  BY <1>3, ReleaseAssumption DEF Worlds
<1>5. WorldFits'
  BY <1>1, <1>2, <1>3, <1>4 DEF WorldFits
<1>6. QED
  BY <1>1, <1>4, <1>5, ReadersDisturbed

LEMMA InitDInv == Init => DInv
<1> SUFFICES ASSUME Init PROVE DInv
  OBVIOUS
<1>1. DOMAIN journal = {} /\ DOMAIN snapshots = {} /\ world = None
  BY DEF Init
<1>2. \A o \in Operators : job[o].step = "free"
  BY FreeIsJob DEF Init
<1>3. QED
  BY <1>1, <1>2, InitMInv DEF DInv, WorldFits, Fits, Reading

LEMMA NextDInv == DInv /\ [Next]_vars => DInv'
<1> SUFFICES ASSUME DInv, [Next]_vars PROVE DInv'
  OBVIOUS
<1>1. MInv'
  BY NextMInv DEF DInv
<1>2. ASSUME NEW o \in Operators, Work(o)
      PROVE  DInv'
  BY <1>1, <1>2, MigrateFits, LookFits, CreateFits, ReadRowFits, ReadAgentsFits,
     WriteSnapshotFits, ReadStateFits, LoadSnapshotFits, CompareFits DEF Work
<1>3. ASSUME NEW o \in Operators, Kill(o)
      PROVE  DInv'
  BY <1>1, <1>3, KillFits
<1>4. ASSUME NEW o \in Operators, NEW kind \in DOMAIN FirstStep, NEW r \in Releases,
             Begin(o, kind, r)
      PROVE  DInv'
  BY <1>1, <1>4, BeginFits
<1>5. CASE UNCHANGED vars
  <2>1. UNCHANGED <<world, journal, snapshots, damaged, job>>
    BY <1>5 DEF vars
  <2>2. WorldFits'
    BY <2>1, WorldStill DEF DInv
  <2>3. \A p \in Operators : Fits(job[p])'
    BY <2>1 DEF DInv, Fits
  <2>4. QED
    BY <1>1, <2>2, <2>3 DEF DInv
<1>6. QED
  BY <1>1, <1>2, <1>3, <1>4, <1>5, CommitFits, DamageFits DEF Next

LEMMA WorldInvariance == Spec => []DInv
<1>1. QED
  BY InitDInv, NextDInv, PTL DEF Spec

-----------------------------------------------------------------------------
Verdict(o) ==
  LET s == job[o].from
  IN IF Broken(s) THEN "broken"
     ELSE IF Foreign(s) THEN "foreign"
     ELSE IF Replayed(s) = job[o].agents
             /\ Max(DOMAIN journal \cup {s}) = job[o].sequence THEN "match"
     ELSE "diverged"

LEMMA Tells ==
  ASSUME MInv, Next, NEW p \in Operators, NEW z \in Verdicts, Ends(p, z)
  PROVE  job[p].step = "journal" /\ z = Verdict(p)
<1>1. Compare(p)
  BY WhoTells
<1>2. job[p].step = "journal" /\ End(p, Verdict(p))
  BY <1>1 DEF Compare, Verdict
<1>3. QED
  BY <1>2, EndsOnlyAs

(* The tables under a job that compares.                                   *)
LEMMA UnderReplay ==
  ASSUME DInv, NEW p \in Operators, job[p].step = "journal", NEW s, s = job[p].from
  PROVE  /\ world \in Worlds /\ world.sequence \in Nat
         /\ DOMAIN journal \subseteq 1 .. world.sequence
         /\ s \in DOMAIN snapshots /\ s \in 0 .. world.sequence
         /\ ~damaged => Whole
         /\ ~damaged /\ ~job[p].disturbed =>
              job[p].sequence = world.sequence /\ job[p].agents = world.agents
<1>1. /\ world # None /\ s \in DOMAIN snapshots
      /\ ~damaged /\ ~job[p].disturbed =>
           job[p].sequence = world.sequence /\ job[p].agents = world.agents
  BY DEF DInv, Fits, Reading
<1>2. /\ world \in Worlds /\ DOMAIN journal \subseteq 1 .. world.sequence
      /\ DOMAIN snapshots \subseteq 0 .. world.sequence
      /\ ~damaged => Whole
  BY <1>1 DEF DInv, WorldFits
<1>3. world.sequence \in Nat
  BY <1>2 DEF Worlds
<1>4. QED
  BY <1>1, <1>2, <1>3

(* The last event there is, or t when there is none behind it.             *)
LEMMA LastIs ==
  ASSUME NEW w \in Nat, DOMAIN journal \subseteq 1 .. w, NEW t \in 0 .. w
  PROVE  LET last == Max(DOMAIN journal \cup {t})
         IN /\ last \in Nat /\ last \in DOMAIN journal \cup {t} /\ t <= last /\ last <= w
            /\ \A n \in DOMAIN journal : n <= last
<1> DEFINE S == DOMAIN journal \cup {t}
<1>1. S \subseteq Nat /\ S # {} /\ \A n \in S : n <= w
  OBVIOUS
<1> HIDE DEF S
<1>2. Max(S) \in S /\ \A n \in S : n <= Max(S)
  BY <1>1, GreatestIs
<1>3. QED
  BY <1>1, <1>2 DEF S

(* What MatchIsTrue says of a job.                                         *)
Vouched(o) ==
  LET s == job[o].from
  IN /\ job[o].agents = snapshots[s].agents \o [i \in 1 .. job[o].sequence - s |-> s + i]
     /\ s + 1 .. job[o].sequence \subseteq DOMAIN journal
     /\ job[o].sequence = 0 \/ job[o].sequence \in DOMAIN journal

LEMMA MatchVouches ==
  ASSUME DInv, NEW p \in Operators, job[p].step = "journal", Verdict(p) = "match"
  PROVE  Vouched(p)
<1> DEFINE s == job[p].from
           last == Max(DOMAIN journal \cup {s})
           end == Max(DOMAIN journal \cup {0})
<1>1. /\ world.sequence \in Nat /\ DOMAIN journal \subseteq 1 .. world.sequence
      /\ s \in 0 .. world.sequence /\ 0 \in 0 .. world.sequence
  BY UnderReplay
<1>2. ~Broken(s) /\ Replayed(s) = job[p].agents /\ last = job[p].sequence
  BY DEF Verdict
<1>3. ~(s > end) /\ Suffix(s) = s + 1 .. last
  BY <1>2 DEF Broken
<1> HIDE DEF s, last, end
<1>4. last \in Nat /\ last \in DOMAIN journal \cup {s} /\ s <= last
  BY <1>1, LastIs DEF last
<1>5. end \in Nat /\ end \in DOMAIN journal \cup {0}
  BY <1>1, LastIs DEF end
<1>6. \A n \in DOMAIN journal : n <= last
  BY <1>1, LastIs DEF last
<1>7. job[p].agents = snapshots[s].agents \o [i \in 1 .. last - s |-> s + i]
  <2>1. s \in Nat
    BY <1>1
  <2>2. Ordered(s + 1 .. last) = [i \in 1 .. last - s |-> s + i]
    BY <1>4, <2>1, OrderedRow
  <2>3. QED
    BY <1>2, <1>3, <2>2 DEF Replayed
<1>8. s + 1 .. last \subseteq DOMAIN journal
  BY <1>3 DEF Suffix
<1>9. last = 0 \/ last \in DOMAIN journal
  <2>1. CASE end = 0
    BY <1>1, <1>3, <1>4, <2>1
  <2>2. CASE end \in DOMAIN journal
    BY <1>1, <1>3, <1>4, <1>5, <1>6, <2>2
  <2>3. QED
    BY <1>5, <2>1, <2>2
<1>10. QED
  BY <1>2, <1>7, <1>8, <1>9 DEF Vouched, s

LEMMA WholeMatches ==
  ASSUME DInv, NEW p \in Operators, job[p].step = "journal", ~damaged, ~job[p].disturbed,
         OneMoment(job[p].from), snapshots[job[p].from].bundles = world.bundles
  PROVE  Verdict(p) = "match"
<1> DEFINE s == job[p].from
           w == world.sequence
<1>1. /\ w \in Nat /\ s \in 0 .. w /\ Whole
      /\ job[p].sequence = w /\ job[p].agents = world.agents
  BY UnderReplay
<1>2. DOMAIN journal = 1 .. w /\ job[p].agents = Told(w)
  BY <1>1 DEF Whole
<1>3. \A t \in 0 .. w : Max(DOMAIN journal \cup {t}) = w
  <2> SUFFICES ASSUME NEW t \in 0 .. w
               PROVE  Max(DOMAIN journal \cup {t}) = w
    OBVIOUS
  <2> DEFINE last == Max(DOMAIN journal \cup {t})
  <2>1. /\ last \in Nat /\ t <= last /\ last <= w
        /\ \A n \in DOMAIN journal : n <= last
    BY <1>1, <1>2, LastIs
  <2> HIDE DEF last, w
  <2>2. last = w
    BY <1>1, <1>2, <2>1
  <2>3. QED
    BY <2>2 DEF last
<1>4. Suffix(s) = s + 1 .. w
  BY <1>1, <1>2 DEF Suffix
<1>5. ~Broken(s)
  <2>1. Max(DOMAIN journal \cup {0}) = w /\ Max(DOMAIN journal \cup {s}) = w
    BY <1>1, <1>3
  <2>2. QED
    BY <1>1, <1>4, <2>1 DEF Broken
<1>6. ~Foreign(s)
  BY <1>1 DEF Foreign, Suffix, Whole
<1>7. Replayed(s) = job[p].agents
  <2>1. s \in Nat /\ s <= w
    BY <1>1
  <2>2. Ordered(s + 1 .. w) = [i \in 1 .. w - s |-> s + i]
    BY <1>1, <2>1, OrderedRow
  <2>3. snapshots[s].agents = Told(s)
    BY DEF OneMoment, Told
  <2> HIDE DEF s, w
  <2>4. Told(s) \o [i \in 1 .. w - s |-> s + i] = Told(w)
    BY <1>1, <2>1, TellOn
  <2>5. QED
    BY <1>2, <1>4, <2>2, <2>3, <2>4 DEF Replayed
<1>8. Max(DOMAIN journal \cup {s}) = job[p].sequence
  BY <1>1, <1>3
<1>9. QED
  BY <1>5, <1>6, <1>7, <1>8 DEF Verdict

(* A replay that agrees has read every event behind its snapshot, up to the*)
(* state it read, and that state is what they make of the snapshot: from   *)
(* whatever a damage has left, and however many commit meanwhile.          *)
Agreed == \A o \in Operators : Ends(o, "match") => Vouched(o)

THEOREM MatchVouchesForTheWorld == Spec => MatchIsTrue
<1>1. DInv /\ [Next]_vars => [Agreed]_vars
  <2> SUFFICES ASSUME DInv, Next, NEW o \in Operators, Ends(o, "match")
               PROVE  Vouched(o)
    BY DEF Agreed, Vouched
  <2>1. job[o].step = "journal" /\ Verdict(o) = "match"
    BY Tells DEF DInv, Verdicts
  <2>2. QED
    BY <2>1, MatchVouches
<1>2. Spec => [][Agreed]_vars
  BY <1>1, WorldInvariance, PTL DEF Spec
<1>3. QED
  BY <1>2, PTL DEF Agreed, Vouched, MatchIsTrue

(* Only a damaged world raises the alarm, when nothing is committed under  *)
(* the replay, nor was under its snapshot, and the bundles are those the   *)
(* world was made with: of all the tables an undamaged world can have.     *)
Alarm(o) == Ends(o, "broken") \/ Ends(o, "foreign") \/ Ends(o, "diverged")
Excused(o) ==
  \/ damaged \/ job[o].disturbed
  \/ ~OneMoment(job[o].from) \/ snapshots[job[o].from].bundles # world.bundles
Alarmed == \A o \in Operators : Alarm(o) => Excused(o)

THEOREM AlarmMeansDamage == Spec => AlarmIsTrue
<1>1. DInv /\ [Next]_vars => [Alarmed]_vars
  <2> SUFFICES ASSUME DInv, Next, NEW o \in Operators, Alarm(o), ~Excused(o)
               PROVE  FALSE
    BY DEF Alarmed
  <2>1. PICK z \in {"broken", "foreign", "diverged"} : Ends(o, z)
    BY DEF Alarm
  <2>2. job[o].step = "journal" /\ z = Verdict(o)
    BY <2>1, Tells DEF DInv, Verdicts
  <2>3. ~damaged /\ ~job[o].disturbed
    BY Zenon DEF Excused
  <2>4. OneMoment(job[o].from) /\ snapshots[job[o].from].bundles = world.bundles
    BY Zenon DEF Excused
  <2>5. Verdict(o) = "match"
    BY <2>2, <2>3, <2>4, WholeMatches
  <2>6. QED
    BY <2>2, <2>5
<1>2. Spec => [][Alarmed]_vars
  BY <1>1, WorldInvariance, PTL DEF Spec
<1>3. QED
  BY <1>2 DEF Alarmed, Alarm, Excused, AlarmIsTrue
=============================================================================
