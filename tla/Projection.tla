------------------------------ MODULE Projection ------------------------------
(***************************************************************************)
(* The observer's projection and the processes that build it: workers, each*)
(* of which takes one step of it after every step of the world, and        *)
(* processes started to rebuild it from nothing. A step reads the position,*)
(* the agents and the outbox in three statements, without a transaction    *)
(* and without a lock, and writes everything in one transaction; what keeps*)
(* two builders apart is the keys of projection_events. They do not keep a *)
(* rebuild from the rows of a worker that read before it began: a save of  *)
(* what was read before a reset is the one thing that tears the projection.*)
(*                                                                         *)
(* Event n of the journal is the number n. The cards of the agents are the *)
(* sequence of the events folded into them since genesis (ObserverFold has *)
(* the fold itself). The map never changes and is left out.                *)
(***************************************************************************)
EXTENDS Naturals, Sequences, Functions

CONSTANTS
  Builders,     (* processes that can build the projection                 *)
  BatchSize,    (* DEFAULT_BATCH_SIZE                                      *)
  None,
  MaxJournal,   (* bound: events of the world                              *)
  MaxFaults,    (* bound: crashes and failed statements                    *)
  MaxRebuilds   (* bound: times the projection is rebuilt                  *)

ASSUME ProjectionAssumption ==
  /\ BatchSize \in Nat \ {0}
  /\ MaxJournal \in Nat /\ MaxFaults \in Nat /\ MaxRebuilds \in Nat
  /\ None \notin [sequence : Nat, event : Nat]

VARIABLES
  journal,      (* how many events the outbox has                          *)
  position,     (* projection_state: feed rows made and events applied     *)
  agents,       (* projection_agents: the events folded into them          *)
  feed,         (* projection_events: projection_sequence to event         *)
  torn,         (* history: what was read before a reset was saved after it*)
  builder,      (* what each process is doing                              *)
  faults, rebuilds

tables == <<position, agents, feed, torn>>
vars == <<journal, position, agents, feed, torn, builder, faults, rebuilds>>

Events == 1 .. MaxJournal
Positions == [sequence : 0 .. MaxJournal, event : 0 .. MaxJournal]

Modes == {"worker", "rebuild"}
Steps == {"down", "closed", "create", "reset", "recreate", "idle", "agents", "events", "save"}
Process == [step : Steps, mode : Modes, seen : Positions \cup {None},
            cards : Seq(Events), found : BOOLEAN, upto : 0 .. MaxJournal, late : BOOLEAN]

(* found: there were rows of agents. late is history: there was a reset    *)
(* since the process read the position.                                    *)
Down == [step |-> "down", mode |-> "worker", seen |-> None,
         cards |-> <<>>, found |-> FALSE, upto |-> 0, late |-> FALSE]

(* A process between two steps keeps only the open projection.             *)
AtStep(b, step) == [Down EXCEPT !.mode = builder[b].mode, !.step = step]

(* Not the code: a projection made now begins at the end of the journal.   *)
GenesisNow == [sequence |-> 0, event |-> journal]
Genesis == [sequence |-> 0, event |-> 0]

-----------------------------------------------------------------------------
Init ==
  /\ journal = 0
  /\ position = None /\ agents = <<>> /\ feed = <<>> /\ torn = FALSE
  /\ builder = [b \in Builders |-> Down]
  /\ faults = 0 /\ rebuilds = 0

(* A command commits its event and the outbox row together.                *)
Happen ==
  /\ journal < MaxJournal /\ journal' = journal + 1
  /\ UNCHANGED <<tables, builder, faults, rebuilds>>

(* Nothing keeps a process from being started beside the others.           *)
StartWorker(b) ==
  /\ builder[b].step = "down"
  /\ builder' = [builder EXCEPT ![b].step = "closed"]
  /\ UNCHANGED <<journal, tables, faults, rebuilds>>

StartRebuild(b) ==
  /\ builder[b].step = "down"
  /\ rebuilds < MaxRebuilds /\ rebuilds' = rebuilds + 1
  /\ builder' = [builder EXCEPT ![b] = [@ EXCEPT !.step = "closed", !.mode = "rebuild"]]
  /\ UNCHANGED <<journal, tables, faults>>

-----------------------------------------------------------------------------
(* Not the code: a worker that could not open the projection goes on as if *)
(* it had.                                                                 *)
GivesUpOnce(b) ==
  IF builder[b].mode = "rebuild" THEN Down ELSE AtStep(b, "idle")

(* An exception ends a rebuild. A worker goes on with the world and tries  *)
(* the same thing after its next step.                                     *)
GivesUp(b) ==
  CASE builder[b].mode = "rebuild" -> Down
    [] builder[b].mode = "worker" /\ builder[b].step \in {"closed", "create"} -> AtStep(b, "closed")
    [] OTHER -> AtStep(b, "idle")

Throw(b) == builder' = [builder EXCEPT ![b] = GivesUp(b)] /\ UNCHANGED tables

(* openProjection: is there one already?                                   *)
Open(b) ==
  /\ builder[b].step = "closed"
  /\ builder' = [builder EXCEPT ![b] = AtStep(b,
       IF position = None THEN "create"
       ELSE IF builder[b].mode = "rebuild" THEN "reset" ELSE "idle")]
  /\ UNCHANGED tables

(* createProjectionAtGenesis, in one transaction; somebody else's rows are *)
(* in its way if there are any.                                            *)
Create(b) ==
  /\ builder[b].step \in {"create", "recreate"}
  /\ \/ /\ position = None
        /\ position' = Genesis /\ agents' = <<>> /\ UNCHANGED <<feed, torn>>
        /\ builder' = [builder EXCEPT ![b] = AtStep(b,
             IF builder[b].mode = "rebuild" /\ builder[b].step = "create" THEN "reset" ELSE "idle")]
     \/ /\ position # None
        /\ Throw(b)

MidStep(c) == builder[c].step \in {"agents", "events", "save"}

(* resetProjection: one transaction. Whoever is in the middle of a step    *)
(* does not learn of it.                                                   *)
Reset(b) ==
  /\ builder[b].step = "reset"
  /\ position' = None /\ agents' = <<>> /\ feed' = <<>> /\ torn' = FALSE
  /\ builder' = [c \in Builders |->
       IF c = b THEN AtStep(b, "recreate") ELSE [builder[c] EXCEPT !.late = MidStep(c)]]

(* runProjectionStep: three reads and a transaction. A worker whose        *)
(* projection is open does not make one that has gone.                     *)
ReadPosition(b) ==
  /\ builder[b].step = "idle"
  /\ \/ /\ position # None
        /\ builder' = [builder EXCEPT ![b].step = "agents", ![b].seen = position]
        /\ UNCHANGED tables
     \/ /\ position = None
        /\ Throw(b)

(* There are rows of agents when there is a row of the position.           *)
ReadAgents(b) ==
  /\ builder[b].step = "agents"
  /\ builder' = [builder EXCEPT ![b].step = "events", ![b].cards = agents,
                                ![b].found = (position # None)]
  /\ UNCHANGED tables

(* Not the code: the batch is taken to be full.                            *)
UptoFull(after) == after + BatchSize
Upto(after) == IF journal < after + BatchSize THEN journal ELSE after + BatchSize

(* loadOutboxEventsAfter. A rebuild is over when there is nothing left. An *)
(* event may name an agent who is not there, and is refused then.          *)
ReadOutbox(b) ==
  LET after == builder[b].seen.event
  IN /\ builder[b].step = "events"
     /\ \/ /\ builder' = [builder EXCEPT ![b] =
                IF after < journal THEN [@ EXCEPT !.step = "save", !.upto = Upto(after)]
                ELSE IF @.mode = "rebuild" THEN Down ELSE AtStep(b, "idle")]
           /\ UNCHANGED tables
        \/ /\ after < journal /\ ~builder[b].found
           /\ Throw(b)

(* applyObserverEvent for each event of the batch, one feed row for each.  *)
Fresh(k) == k.upto - k.seen.event
Cards(k) == k.cards \o [i \in 1 .. Fresh(k) |-> k.seen.event + i]
Emitted(k) ==
  [p \in k.seen.sequence + 1 .. k.seen.sequence + Fresh(k) |-> k.seen.event + (p - k.seen.sequence)]

(* Not the code: rows that are there already are written over.             *)
ConflictsNever(rows) == FALSE

(* The primary key of projection_events, and its unique event.             *)
Conflicts(rows) ==
  DOMAIN feed \cap DOMAIN rows # {} \/ Range(feed) \cap Range(rows) # {}

(* saveProjectionStep: the position that was read is not compared. Rows of *)
(* the feed are inserted; agents and position are updated where they are.  *)
Save(b) ==
  LET k == builder[b]
  IN /\ k.step = "save"
     /\ \/ /\ ~Conflicts(Emitted(k))
           /\ feed' = [p \in DOMAIN feed \cup DOMAIN Emitted(k) |->
                         IF p \in DOMAIN Emitted(k) THEN Emitted(k)[p] ELSE feed[p]]
           /\ agents' = IF position # None /\ k.found THEN Cards(k) ELSE agents
           /\ position' = IF position = None THEN None
                          ELSE [sequence |-> k.seen.sequence + Fresh(k), event |-> k.upto]
           /\ torn' = (torn \/ k.late)
           /\ builder' = [builder EXCEPT ![b] = AtStep(b, "idle")]
        \/ /\ Conflicts(Emitted(k))
           /\ Throw(b)

Work(b) ==
  /\ \/ Open(b) \/ Create(b) \/ Reset(b)
     \/ ReadPosition(b) \/ ReadAgents(b) \/ ReadOutbox(b) \/ Save(b)
  /\ UNCHANGED <<journal, faults, rebuilds>>

(* A statement fails.                                                      *)
Fail(b) ==
  /\ builder[b].step \notin {"down", "idle"}
  /\ faults < MaxFaults /\ faults' = faults + 1
  /\ Throw(b)
  /\ UNCHANGED <<journal, rebuilds>>

(* The process is killed, or stopped.                                      *)
Crash(b) ==
  /\ builder[b].step # "down"
  /\ faults < MaxFaults /\ faults' = faults + 1
  /\ builder' = [builder EXCEPT ![b] = Down]
  /\ UNCHANGED <<journal, tables, rebuilds>>

Next ==
  \/ Happen
  \/ \E b \in Builders : StartWorker(b) \/ StartRebuild(b) \/ Work(b) \/ Fail(b) \/ Crash(b)

Spec == Init /\ [][Next]_vars

(* A process that runs goes on. Nobody need start one.                     *)
FairSpec == Spec /\ \A b \in Builders : WF_vars(Work(b))

-----------------------------------------------------------------------------
(* Every variable holds values of its kind.                                *)
TypeOK ==
  /\ journal \in 0 .. MaxJournal
  /\ position \in Positions \cup {None}
  /\ agents \in Seq(Events)
  /\ DOMAIN feed \subseteq 1 .. MaxJournal /\ Range(feed) \subseteq Events
  /\ torn \in BOOLEAN
  /\ builder \in [Builders -> Process]
  /\ faults \in 0 .. MaxFaults /\ rebuilds \in 0 .. MaxRebuilds

(* D6: whoever builds, and wherever he is killed, the feed has every event *)
(* of the journal up to the position, once, in order and without a gap,    *)
(* rebuilds beside running workers included, until one of these saves what *)
(* it read before the reset. Even then no event stands in another's place. *)
FeedIsWhole ==
  /\ \A p \in DOMAIN feed : feed[p] = p /\ p <= journal
  /\ position # None => position.event = position.sequence /\ position.event <= journal
  /\ ~torn => feed = [p \in 1 .. (IF position = None THEN 0 ELSE position.event) |-> p]

(* The cards are those of the position: no builder that read the agents    *)
(* after somebody else had moved them folds an event into them twice, and  *)
(* none that found no agents leaves those of genesis at a later position.  *)
CardsAtPosition ==
  ~torn /\ position # None => agents = [i \in 1 .. position.event |-> i]

(* What the observer was promised, while no save crossed a reset.          *)
Promised == INSTANCE EventFeed WITH
  written <- journal,
  shown <- IF torn THEN <<>> ELSE feed,
  cards <- IF torn THEN <<>> ELSE agents

ImplementsFeed == Promised!Spec

(* What has happened is shown in the end, as long as somebody builds: after*)
(* a crash, after a rebuild that was killed, after an exception. Nothing   *)
(* repairs a torn projection but a rebuild; and if a rebuild was killed    *)
(* after its reset, nothing but a process that is started.                 *)
NobodyBuilds == \A b \in Builders : builder[b].step = "down"
Stranded ==
  /\ rebuilds > 0 /\ position = None
  /\ \A b \in Builders : builder[b].step \in {"down", "idle"}

ProjectionFollows ==
  \A n \in Events :
    journal >= n ~> \/ NobodyBuilds \/ torn \/ Stranded
                    \/ position # None /\ position.event >= n
=============================================================================
