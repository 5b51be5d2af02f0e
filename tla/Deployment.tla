------------------------------ MODULE Deployment ------------------------------
(***************************************************************************)
(* What an operator does to a database beside the workers that run on it:  *)
(* `world migrate`, `world init`, `world snapshot` and `world replay`, of  *)
(* one release of the program or another. A job is a process of its own;   *)
(* each of its statements or transactions is one step, and it may be killed*)
(* between any two.                                                        *)
(*                                                                         *)
(* Event n of the journal is the number n, and the agents are the sequence *)
(* of the events folded into them since genesis; for `evolve`, on which a  *)
(* replay rests, see World and WorldRun. The positions of the random       *)
(* streams, the database roles and their grants are left out.              *)
(***************************************************************************)
EXTENDS Naturals, Sequences, SequencesExt

CONSTANTS
  Operators,    (* processes that can do a job                             *)
  Releases,     (* versions of the program                                 *)
  Registry,     (* the migrations of a release, in order                   *)
  Bundles,      (* its content; rulesetFor refuses a world of other rules  *)
  Profile,      (* its runtime profile                                     *)
  MaxAttempts,  (* DEFAULT_ADVISORY_LOCK_ATTEMPTS                          *)
  None,
  MaxJournal,   (* bound: events of the world                              *)
  MaxJobs,      (* bound: jobs begun                                       *)
  MaxFaults     (* bound: jobs killed, statements failed, data damaged     *)

Ids(migrations) == {m.id : m \in Range(migrations)}

(* validateMigrationRegistry: a registry that is not in the order of its   *)
(* identifiers is refused before anything is read.                         *)
InOrder(migrations) ==
  \A i, j \in DOMAIN migrations : i < j => migrations[i].id < migrations[j].id

(* A row of worlds, with its agents.                                       *)
Worlds == [sequence : Nat, agents : Seq(Nat),
           bundles : {Bundles[r] : r \in Releases}, profile : {Profile[r] : r \in Releases}]

ASSUME ReleaseAssumption ==
  /\ \A r \in Releases :
       /\ Registry[r] \in Seq(Range(Registry[r]))
       /\ InOrder(Registry[r]) /\ Ids(Registry[r]) \subseteq Nat
  /\ None \notin Operators /\ None \notin Worlds
  /\ MaxAttempts \in Nat \ {0}
  /\ MaxJournal \in Nat /\ MaxJobs \in Nat /\ MaxFaults \in Nat

VARIABLES
  ledger,       (* schema_migrations: the migrations applied, by id        *)
  lock,         (* the job whose connection has the advisory lock          *)
  world,        (* the row of worlds, and its agents                       *)
  journal,      (* world_events: the bundles each was written under        *)
  snapshots,    (* world_snapshots, by last_sequence                       *)
  job,          (* what each operator is doing, or how his last job ended  *)
  jobs, faults,
  damaged       (* something was lost or altered behind the program's back *)

tables == <<ledger, world, journal, snapshots>>
vars == <<ledger, lock, world, journal, snapshots, job, jobs, faults, damaged>>

(* A job and how it ended; the snapshot it loaded, the state it read.      *)
(* `phases` and `disturbed` are history: the phases it has applied, and    *)
(* whether the world has changed since it began.                           *)
Free == [kind |-> "none", release |-> None, step |-> "free", outcome |-> "none", tries |-> 0,
         plan |-> {}, sequence |-> 0, agents |-> <<>>, from |-> 0,
         phases |-> {}, disturbed |-> FALSE]

FirstStep == [migrate |-> "lock", init |-> "look", snapshot |-> "row", replay |-> "state"]
Busy(o) == job[o].step # "free"

(* The job is over: its connection is closed and the lock with it.         *)
End(o, outcome) ==
  /\ job' = [job EXCEPT ![o] = [Free EXCEPT !.outcome = outcome]]
  /\ lock' = IF lock = o THEN None ELSE lock

(* The tables a release works with are there.                              *)
Ready(r) == Ids(Registry[r]) \subseteq DOMAIN ledger

-----------------------------------------------------------------------------
Init ==
  /\ ledger = <<>> /\ lock = None
  /\ world = None /\ journal = <<>> /\ snapshots = <<>>
  /\ job = [o \in Operators |-> Free]
  /\ jobs = 0 /\ faults = 0 /\ damaged = FALSE

Begin(o, kind, r) ==
  /\ ~Busy(o) /\ jobs < MaxJobs /\ jobs' = jobs + 1
  /\ job' = [job EXCEPT ![o] = [Free EXCEPT !.kind = kind, !.release = r, !.step = FirstStep[kind]]]
  /\ UNCHANGED <<tables, lock, faults, damaged>>

-----------------------------------------------------------------------------
(* world migrate                                                           *)

(* Not the code: nobody looks at the lock.                                 *)
LockIgnored == TRUE

LockFree == lock = None

(* pg_try_advisory_lock, a second apart, a bounded number of times.        *)
TryLock(o) ==
  /\ job[o].step = "lock"
  /\ IF LockFree
     THEN /\ lock' = o
          /\ job' = [job EXCEPT ![o].step = "load"]
     ELSE IF job[o].tries + 1 < MaxAttempts
     THEN /\ job' = [job EXCEPT ![o].tries = @ + 1]
          /\ UNCHANGED lock
     ELSE End(o, "lock timeout")
  /\ UNCHANGED tables

(* Not the code: only what is beyond the last migration applied.           *)
MissingBeyond(r) ==
  {m \in Range(Registry[r]) : \A id \in DOMAIN ledger : id < m.id}

(* What of the registry is not in the ledger.                              *)
Missing(r) == {m \in Range(Registry[r]) : m.id \notin DOMAIN ledger}

(* Not the code: the phases of a delivery are not compared.                *)
NeverMixed(plan) == FALSE

(* validatePhaseBatch                                                      *)
Mixed(plan) == {"expand", "contract"} \subseteq {m.phase : m \in plan}

(* A migration that was applied is not the one the registry has now: its   *)
(* name, its phase or its statements were edited.                          *)
Edited(r) == \E m \in Range(Registry[r]) : m.id \in DOMAIN ledger /\ ledger[m.id] # m

(* Everything is checked before anything is applied.                       *)
LoadLedger(o) ==
  LET r == job[o].release
  IN /\ job[o].step = "load"
     /\ IF Mixed(Missing(r)) THEN End(o, "phase conflict")
        ELSE IF Edited(r) THEN End(o, "edited")
        ELSE /\ job' = [job EXCEPT ![o].step = "apply", ![o].plan = Missing(r)]
             /\ UNCHANGED lock
     /\ UNCHANGED tables

(* The statements of the next migration, by its id, and its row, in one    *)
(* transaction. A second row with its id is an exception.                  *)
Apply(o) ==
  /\ job[o].step = "apply"
  /\ \E m \in job[o].plan :
       /\ \A n \in job[o].plan : m.id <= n.id
       /\ IF m.id \in DOMAIN ledger
          THEN End(o, "applied twice") /\ UNCHANGED ledger
          ELSE /\ ledger' = [id \in DOMAIN ledger \cup {m.id} |->
                               IF id = m.id THEN m ELSE ledger[id]]
               /\ job' = [job EXCEPT ![o].plan = @ \ {m}, ![o].phases = @ \cup {m.phase}]
               /\ UNCHANGED lock
  /\ UNCHANGED <<world, journal, snapshots>>

FinishMigrate(o) ==
  /\ job[o].step = "apply" /\ job[o].plan = {}
  /\ End(o, "migrated")
  /\ UNCHANGED tables

Migrate(o) == TryLock(o) \/ LoadLedger(o) \/ Apply(o) \/ FinishMigrate(o)

-----------------------------------------------------------------------------
(* world init: is there a world? If not, one transaction writes it, its    *)
(* profile and its genesis snapshot.                                       *)
Look(o) ==
  /\ job[o].step = "look"
  /\ IF ~Ready(job[o].release) THEN End(o, "no tables")
     ELSE IF world # None THEN End(o, "exists")
     ELSE /\ job' = [job EXCEPT ![o].step = "create"]
          /\ UNCHANGED lock
  /\ UNCHANGED tables

Snapshot(agents, r) == [agents |-> agents, bundles |-> Bundles[r], profile |-> Profile[r]]

Create(o) ==
  LET r == job[o].release
  IN /\ job[o].step = "create"
     /\ IF world # None
        THEN End(o, "created by another") /\ UNCHANGED <<world, snapshots>>
        ELSE /\ world' = [sequence |-> 0, agents |-> <<>>, bundles |-> Bundles[r],
                          profile |-> Profile[r]]
             /\ snapshots' = [s \in {0} |-> Snapshot(<<>>, r)]
             /\ End(o, "created")
     /\ UNCHANGED <<ledger, journal>>

-----------------------------------------------------------------------------
(* world snapshot: the row of the world and its agents are read in one     *)
(* transaction, but at read committed, and loadWorldState does not begin a *)
(* transaction of its own inside of it.                                    *)
ReadRow(o) ==
  /\ job[o].step = "row"
  /\ IF ~Ready(job[o].release) THEN End(o, "no tables")
     ELSE IF world = None THEN End(o, "no world")
     ELSE /\ job' = [job EXCEPT ![o].step = "agents", ![o].sequence = world.sequence]
          /\ UNCHANGED lock
  /\ UNCHANGED tables

ReadAgents(o) ==
  /\ job[o].step = "agents"
  /\ job' = [job EXCEPT ![o].step = "write", ![o].agents = world.agents]
  /\ UNCHANGED <<tables, lock>>

(* writeSnapshot, after that transaction. There is one for each sequence.  *)
WriteSnapshot(o) ==
  LET s == job[o].sequence
  IN /\ job[o].step = "write"
     /\ IF s \in DOMAIN snapshots
        THEN End(o, "taken before") /\ UNCHANGED snapshots
        ELSE /\ snapshots' = [t \in DOMAIN snapshots \cup {s} |->
                  IF t = s THEN Snapshot(job[o].agents, job[o].release) ELSE snapshots[t]]
             /\ End(o, "written")
     /\ UNCHANGED <<ledger, world, journal>>

-----------------------------------------------------------------------------
(* world replay: the state, the last snapshot and the journal are read one *)
(* after the other, each as it is at that moment.                          *)
ReadState(o) ==
  /\ job[o].step = "state"
  /\ IF ~Ready(job[o].release) THEN End(o, "no tables")
     ELSE IF world = None THEN End(o, "no world")
     ELSE /\ job' = [job EXCEPT ![o].step = "load snapshot", ![o].sequence = world.sequence,
                                ![o].agents = world.agents]
          /\ UNCHANGED lock
  /\ UNCHANGED tables

Latest == Max(DOMAIN snapshots)

(* verifyRuntimeProfileCompatibility: what the results of two runtimes can *)
(* depend on is the same. Between the releases modelled, a profile either  *)
(* differs in this or not at all.                                          *)
Compatible(qualified, candidate) == qualified = candidate

(* rowToSnapshot: other bundles are reported before another profile, which *)
(* a flag accepts.                                                         *)
LoadSnapshot(o) ==
  /\ job[o].step = "load snapshot"
  /\ LET found == snapshots[Latest] r == job[o].release
     IN \/ /\ found.bundles # Bundles[r]
           /\ End(o, "other bundles")
        \/ /\ found.bundles = Bundles[r] /\ ~Compatible(found.profile, Profile[r])
           /\ End(o, "not qualified")
        \/ /\ found.bundles = Bundles[r]
           /\ job' = [job EXCEPT ![o].step = "journal", ![o].from = Latest]
           /\ UNCHANGED lock
  /\ UNCHANGED tables

(* Not the code: the event of the snapshot itself is in the suffix.        *)
SuffixFrom(s) == {n \in DOMAIN journal : n >= s}

Suffix(s) == {n \in DOMAIN journal : n > s}

(* Not the code: an empty suffix is an empty suffix.                       *)
NeverBroken(s) == FALSE

(* loadContinuousSuffix: the snapshot is beyond the journal, or there is a *)
(* gap behind it.                                                          *)
Broken(s) ==
  \/ s > Max(DOMAIN journal \cup {0})
  \/ Suffix(s) # s + 1 .. Max(DOMAIN journal \cup {s})

(* An event was written under other bundles than the snapshot declares.    *)
Foreign(s) == \E n \in Suffix(s) : journal[n] # snapshots[s].bundles

(* order by world_sequence.                                                *)
Ordered(numbers) ==
  [i \in 1 .. Cardinality(numbers) |->
     CHOOSE n \in numbers : Cardinality({m \in numbers : m <= n}) = i]

Replayed(s) == snapshots[s].agents \o Ordered(Suffix(s))

Compare(o) ==
  LET s == job[o].from
  IN /\ job[o].step = "journal"
     /\ End(o, IF Broken(s) THEN "broken"
               ELSE IF Foreign(s) THEN "foreign"
               ELSE IF Replayed(s) = job[o].agents
                       /\ Max(DOMAIN journal \cup {s}) = job[o].sequence THEN "match"
               ELSE "diverged")
     /\ UNCHANGED tables

Work(o) ==
  /\ \/ Migrate(o) \/ Look(o) \/ Create(o)
     \/ ReadRow(o) \/ ReadAgents(o) \/ WriteSnapshot(o)
     \/ ReadState(o) \/ LoadSnapshot(o) \/ Compare(o)
  /\ UNCHANGED <<jobs, faults, damaged>>

-----------------------------------------------------------------------------
(* Everybody who is reading the world will have read it at two moments.    *)
Disturb == job' = [o \in Operators |->
             IF Busy(o) THEN [job[o] EXCEPT !.disturbed = TRUE] ELSE job[o]]

(* qualifyCanonicalWriter, once, when a process starts: neither the tables *)
(* nor the profile of the world are taken back later.                      *)
Qualified(r) == Compatible(world.profile, Profile[r])

(* A command of a worker. Its event is signed with the versions the world  *)
(* was made with, whatever the release of the worker.                      *)
Commit ==
  /\ world # None
  /\ \E r \in Releases : Ready(r) /\ Qualified(r)
  /\ world.sequence < MaxJournal
  /\ \E n \in {world.sequence + 1} :
       /\ world' = [world EXCEPT !.sequence = n, !.agents = Append(@, n)]
       /\ journal' = [i \in DOMAIN journal \cup {n} |->
                        IF i = n THEN world.bundles ELSE journal[i]]
  /\ Disturb
  /\ UNCHANGED <<ledger, lock, snapshots, jobs, faults, damaged>>

(* A job is killed, or a statement of it fails: its connection and its lock *)
(* are gone with it.                                                       *)
Kill(o) ==
  /\ Busy(o) /\ faults < MaxFaults /\ faults' = faults + 1
  /\ End(o, "killed")
  /\ UNCHANGED <<tables, jobs, damaged>>

(* External: part of the journal is lost, by a restore from an older backup*)
(* or by a retention policy, or the agents are altered.                    *)
Damage ==
  /\ world # None /\ faults < MaxFaults /\ faults' = faults + 1
  /\ \/ \E n \in DOMAIN journal :
          journal' = [i \in DOMAIN journal \ {n} |-> journal[i]] /\ UNCHANGED world
     \/ world' = [world EXCEPT !.agents = Append(@, 0)] /\ UNCHANGED journal
  /\ damaged' = TRUE
  /\ Disturb
  /\ UNCHANGED <<ledger, lock, snapshots, jobs>>

Next ==
  \/ \E o \in Operators :
       Work(o) \/ Kill(o) \/ \E kind \in DOMAIN FirstStep, r \in Releases : Begin(o, kind, r)
  \/ Commit \/ Damage

Spec == Init /\ [][Next]_vars

-----------------------------------------------------------------------------
(* Job o is over in this step, with this outcome.                          *)
Ends(o, outcome) == Busy(o) /\ job'[o].step = "free" /\ job'[o].outcome = outcome

(* A migration that reports success leaves the tables its release needs,   *)
(* whoever else migrates, was killed half-way, or had a release in which a *)
(* migration of this one was still missing; and two that run at once never *)
(* get as far as applying the same migration.                              *)
MigratedIsReady ==
  [][\A o \in Operators :
       /\ Ends(o, "migrated") => Ready(job[o].release)
       /\ ~Ends(o, "applied twice")]_vars

(* Nothing is destroyed in the delivery that brings what replaces it: not  *)
(* by one run, nor by the run that goes on where another was killed.       *)
ContractAlone ==
  \A o \in Operators : ~({"expand", "contract"} \subseteq job[o].phases)

(* What a snapshot holds is the world at its sequence.                     *)
OneMoment(s) == snapshots[s].agents = [i \in 1 .. s |-> i]

(* M-D: the state is read in one transaction, so a snapshot is the world of*)
(* one moment.                                                             *)
SnapshotIsOneMoment == ~damaged => \A s \in DOMAIN snapshots : OneMoment(s)

(* A replay that agrees vouches for what happened since its snapshot: the  *)
(* journal has every event up to the state that was read, and that state is*)
(* the fold of them.                                                       *)
MatchIsTrue ==
  [][\A o \in Operators :
       Ends(o, "match") =>
         LET s == job[o].from
         IN /\ job[o].agents = snapshots[s].agents \o [i \in 1 .. job[o].sequence - s |-> s + i]
            /\ s + 1 .. job[o].sequence \subseteq DOMAIN journal
            /\ job[o].sequence = 0 \/ job[o].sequence \in DOMAIN journal]_vars

(* SIM-01: a replay only raises the alarm over a world that was damaged -  *)
(* if nothing is committed while it runs, nothing was committed while its  *)
(* snapshot was taken, and that snapshot declares the bundles the world was*)
(* made with.                                                              *)
AlarmIsTrue ==
  [][\A o \in Operators :
       Ends(o, "broken") \/ Ends(o, "foreign") \/ Ends(o, "diverged") =>
         \/ damaged \/ job[o].disturbed
         \/ ~OneMoment(job[o].from) \/ snapshots[job[o].from].bundles # world.bundles]_vars
=============================================================================
