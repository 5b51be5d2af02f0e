# TLA+ models of "Живая Зона"

This directory holds TLA+ specifications of the server that keeps a simulated
world alive: how a command changes a world, how its schedule is served by
several processes, which rules the world follows, how its observers learn of it,
and what an operator does to its database. TLC checks them on small instances;
TLAPS proves the core of them for every value of the constants. All paths below
are relative to the repository; `PROJECT.json` maps every definition to the lines
it stands for.

Contents: [the system](#1-the-system), [the modules](#2-the-modules),
[what the runs check](#3-what-the-runs-check), [fairness](#4-fairness),
[what is proved](#5-what-is-proved), [what the code does not keep](#6-what-the-code-does-not-keep),
[what is not modelled](#7-what-is-not-modelled), [the plan](#8-the-plan).

## 1. The system

One PostgreSQL database holds a world. Nothing in memory is authoritative: every
process reads the state from the tables, and every change is one transaction of
`executeCommand`.

| Component | State it keeps | Operations | Who touches it at once |
|---|---|---|---|
| command handler `packages/persistence/src/command-handler.ts` | `worlds`, `world_events`, `outbox`, `command_results`, `command_attempt_rejections` | `executeCommand`: lock the world's row, look the id up, load, `decide`, `evolve`, write, commit | every worker, every run of the CLI |
| scheduler `packages/persistence/src/scheduler.ts` | `scheduled_actions`, the advisory lock, `observed_world_time` | `runWorldTick`: lock, observe, earliest moment, claim with a lease, check and renew, execute, mark failed | several workers, an operator |
| rules of the world `packages/domain/src/` | none (pure functions of a state) | `decide`, `evolve`, needs, goals, routes | - |
| world repository `packages/persistence/src/world-repository.ts` | the tables of a world | load a state, seed a world, read the journal | as above |
| worker loop `apps/worker/src/` | the anchor of its tempo, an open projection | `createWorldStep`, `worldHorizon`, the poll | several workers |
| projection `apps/worker/src/projection-builder.ts`, `packages/projections/src/projection-store.ts` | `projection_state`, `projection_agents`, `projection_events` | open, create, reset, step, rebuild | several workers, a rebuild |
| observer's fold `packages/projections/src/observer-fold.ts` | none | `applyObserverEvent` | - |
| observer's API `apps/api/src/` | none | snapshot, page of events, stream with resumption and reset | the builder that writes what it reads |
| screen `apps/web/src/app/world-view.tsx` | cursor, feed, snapshot, stream | restore, follow, refetch | fetches answered in any order |
| operator's CLI `apps/cli/src/world-db-cli.ts` | none between runs | `init`, `run`, `tick`, `snapshot`, `replay`, `migrate` | workers, a second operator |
| migrations `packages/persistence/src/migration-runner.ts` | `schema_migrations`, an advisory lock | lock, check phases and edits, apply one by one | a second delivery |
| snapshots and replay `packages/persistence/src/snapshot-store.ts`, `replay.ts` | `world_snapshots` | write, load with its checks, replay a suffix, compare | workers that go on committing |
| canonical writer `packages/persistence/src/canonical-writer.ts` (and its profile) | the world's qualified profile | compare at start | - |
| contracts, content, principals and grants, representation | none | schemas, canonical JSON, the data of the world, roles | - |
| agent-harness, security-scan `tools/` | none | development tooling | - |

How they interact:

    worker loop --horizon--> scheduler --command--> command handler --decide/evolve--> rules
        |                       ^                        |   \
        |                       +--- scheduled_actions --+    +-- world_events + outbox
        +--- projection step: outbox --fold--> projection tables --> API --> screen
    operator's CLI --command--> command handler;  migrate/init/snapshot/replay --> the database

What is hard about it, and what makes each part correct:

* **Command handler.** Clients race for one row, die at any statement, repeat
  commands whose answer they lost, reuse ids. Correct: a command takes effect
  once, the journal has no gap, the version and the journal agree, an answer that
  was given stays the answer, an expected version is honoured, nobody who dies
  keeps the row.
* **Scheduler.** The advisory lock lives on one connection while the work goes
  over others; leases run out; an operator moves the world under a running tick;
  the failed mark is a statement of its own. Correct: an action happens once, at
  its moment, in order, never beyond what a tick has noted as seen (which is what
  the tempo allows, unless an operator names a moment or a horizon), and what is
  due is dealt with in the end, unless it cannot be saved.
* **Rules and their persistence.** Events schedule decisions, decisions steps,
  steps events, some for the same moment; the state is written from a difference,
  piece by piece. Correct: nobody waits for an action that is not scheduled, the
  cascade of a moment ends, nothing scheduled is rejected, the tables equal the
  fold of the journal.
* **Worker loop.** World time is computed from an anchor that is moved only after
  an idle step. Correct: a journey takes the time the tempo gives it, within the
  delay of a poll.
* **Projection, API, screen.** No lock between builders, nor between them and a
  rebuild that erases what they build; three statements read what may change in
  between; a snapshot, a page and a stream overlap. Correct: every event shown
  once, in order, in the end; no snapshot lacks an event that the stream will not
  bring; no screen stops following without being told.
* **Contracts.** What is committed is decoded only by those who read it later; an
  event they refuse stops them. Correct: every event the rules produce is one the
  contract lets through.
* **Deployment.** Runs of several releases, killed half-way, beside workers.
  Correct: a successful migration leaves what its release needs, nothing is
  destroyed in the delivery that brings its replacement, a replay tells the truth.

The hazards, each at its line and with the properties that would notice it, are
listed under `hazards` in `PROJECT.json`.

## 2. The modules

    CommandLog  <--implements--  CommandHandler  <--EXTENDS--  OperatorCli
                                       ^---- CommandHandlerProofs
    EventFeed   <--implements--  Projection  <--EXTENDS--  Observer
                                                              ^---- ObserverProofs
    Scheduler   <--EXTENDS--  Story  <--EXTENDS--  MCScheduler
                                ^---- SchedulerProofs
    World <-- WorldEvents <-- ObserverFold <-- WorldRun <-- MCWorldRun <-- MCWorldPrompt
                                                  ^---- WorldProofs <-- WorldPromptProofs
    Tempo <-- TempoProofs     Deployment <-- MCDeployment
                                  ^---- DeploymentProofs
    Instant, Numeric <-- ConversionProofs

The layers lean on each other, and each says so in its header: Scheduler takes
`executeCommand` for one step because CommandHandler implements the one-step
CommandLog; WorldRun takes a command and a tick for one step each for the same
reason; Tempo takes a whole worker's step for one because Scheduler serves a
horizon in order; Observer takes the rows of the feed for unchanging because of
`FeedIsWhole`.

**CommandLog** - the abstract promise: an id is answered once; an acceptance
appends one block `before + 1 .. after` to the journal; time does not go back.

**CommandHandler** - `executeCommand`. `tx[c].step` is the next statement of a
transaction: `lock` (`LockWorld`, the `for no key update` of the world's row),
`check` (`readStoredResult`: `Replay`, `RecordForeignBody`, or `Load`), `decide`
(`RefuseBackwardTime` or `Decide`), `commit` (`CommitRejection`,
`CommitAcceptance`, which publish all writes at once). `Crash` is a process, a
connection or a statement that fails anywhere before the commit; `told` records
which answers reached a client, and an answer may be lost after the commit. The
body with its expected version is the fingerprint (`Prints`); what the domain
decides is a free choice of how many events.

**OperatorCli** - `world run`: it reads the version and the time outside of any
transaction (`ReadLine`) and sends a command made from them (`RunLine`), next to
the other clients.

**Scheduler** - `runWorldTick`. `worker[w].step` is the next statement: `TryLock`
(`pg_try_advisory_lock`; a worker without it reports a skipped tick), `Read`,
`Observe`, `Look` (`earliestPendingDueAt`), `Claim`, `Hold` (ownership and lease),
`Execute`, `MarkFailed`, `Finish`. `rows` are `scheduled_actions` with
`completed_at` and `failed_at` folded into `status`; a lease is an owner that is
`live` until `Expire`. `Crash` takes the session along and leaves the leases;
`LoseSession` takes only the lock while the tick goes on. `Ask` and `Obey` are an
operator who reads the hour, or names a moment of his own (`--at-world-time`), and
later acts at it. `Advance` is the tempo, `clock` the horizon it allows; `Read` takes
any horizon, since `world tick --until` and `--advance` are bound by no tempo. What
the domain makes of an action is given by `Spawns`, `Delay` and `Replaces`.

**Story** - what a schedule ought to become (`scheduler.ts:297-299`), told without
workers, horizons and leases: a page has what is due and when, what is being served
and what has happened, and each page follows from the one before (`NextPage`: claim
the next moment, or let the first of the batch happen). `UninterruptedSame` compares
the chronicle of the Scheduler with it. Nothing of the claim is used: `Before`, `Look`
and `Claim` of the Scheduler have to arrive at the same order by themselves.

**World** - `decide` and `evolve` as operators, and `commandFor`, which makes the
command of an action: one per command and per event,
the need levels and their crossings with the rounding of the code, the choice of
goals and routes with their costs, interruption and recovery. `ValidMap`,
`ValidNeeds`, `ValidWeights`, `ValidRest` are the checks of the configuration.

**WorldEvents** - `decodeWorldEvent`: the payload of every type of event, no field
more and no field less, and the ids an envelope may name as causes. Nothing decodes
an event before it is committed (`commandFor` has to name only ids of events), so
the contract belongs to the readers.

**ObserverFold** - `applyObserverEvent`: the card of an agent, folded without the
rules, from events that are `Decodable`, into a table with constraints of its own
(`CardFits`); a batch with one that is not is refused whole.

**WorldRun** - composes these with the tables: rows are written from the
difference of two states (`Added`, `Removed`, `Written`), read back (`Loaded`)
and compared before the commit (`Reread`, `CanSave`), under the constraints of
the tables (`Violates`, `AgentFits`, `ActionFits`). `Claim` and `Serve` are the
tick, `Order` the operator. `replica` is the fold of all events from genesis,
`cards` the observer's. A batch is the set of its rows, taken in the order of
`claimDueActions` (`First`); among actions of one agent, kind and moment, which the
code orders by the text of their identifiers, any may be first.

**Tempo** - `createWorldStep` and `worldHorizon`, counted in beats of real time:
`Anchored`, `Remember` (the anchor moves at the beginning of the step after an
idle one), `Step`, `StepUnheard` (a skipped tick, an unreachable database),
`Stop`/`Start`, late polls, journeys ordered by an operator and ticks by hand.

**EventFeed** - the abstract promise to an observer: the feed is a beginning of the
journal, the cards tell the same moment, both go on together or are erased together.

**Projection** - processes that build it, each started as a worker or to rebuild it
once, in any number beside each other: `Open`, `Create`, `Reset`, `ReadPosition`,
`ReadAgents`, `ReadOutbox`, `Save`, each a statement or a transaction, with `Fail`
and `Crash`. Nothing in the code keeps a rebuild from running beside workers, so
nothing in the model does. `late` marks a worker in the middle of a step when the
rows are erased, `torn` that such a worker has saved; both are history, no guard
reads them. The cards are kept as the sequence of the events folded into them, so
that a fold done twice or left out shows.

**Observer** - extends Projection with `loadObserverSnapshot` (two statements),
the page of events, `/v1/stream` with its reset and resumption, and the state of
the screen: `OpenPage`, `Restored`, `Paged`, `Connect`, `Poll`, `Deliver`,
`Refreshed`, `Break`, and fetches that are lost. `mapAfter` (the event the map was
fetched for), `short` (the rows were erased between the snapshot and the page),
`restarted` (the stream told the screen to start over) and `strayed` (rows were read
from a torn feed, or by a stream that was opened again after a reset) are history.

**Deployment** - `world migrate`, `init`, `snapshot`, `replay` as jobs of two
operators and three releases (a first one, its successor with another content, a
late and a destructive migration, and one that edited a migration), beside workers
that commit, jobs that are killed, and damage from outside.

**Instant** - `instant.ts` and `canonical-instant.ts`: the days of the calendar
(`DaysFromCivil`, `CivilFromDays`), the fields of a text, their checks, the moment
they name and the text a moment is written as. Other modules count minutes instead;
that they may is proved in ConversionProofs. A text is the record of its fields.

**Numeric** - `numeric.ts`: a decimal text, cut where the unit ends, is read without
rounding (`Parses`) or rounded in one of four modes (`Rounds`, `Rounded`) by comparing
the tail with a half, digit by digit.

## 3. What the runs check

Every property has a mutation of the code in `PROJECT.json` (`mutants`) under
which TLC finds it violated, so that none holds merely by the shape of the model.
The mutated operators stand beside the real ones, marked "Not the code".

| Run | Asks | Bounds, and why they are enough | States |
|---|---|---|---|
| `command_handler` | two clients, every interleaving and crash: `JournalIsWhole`, `EffectOnce`, `ToldWhatIsRecorded`, `AcceptedAsExpected`, `LockHeld`, `AttemptsKeepNewest`, `AnswersNeverChange`, `ImplementsLog` | `MaxSequence` 3 and `MaxEvents` 2: two acceptances, one of them with two events; two ids with two bodies each: a foreign body and a repetition; `MaxAttempts` 1: the list is full at once | 280 k |
| `scheduler` | two workers and an operator: `RowsTellOutcome`, `HappensOnce`, `UninterruptedSame`, `InDueOrder`, `ScheduleServed` | 4 actions over 2 moments, batches of 2 (so a moment needs two claims), one action spawned into its own moment, one the domain may reject, an order that removes two, at any moment, an action of the next moment that removes the one that may be rejected (so the schedule may jam), ticks to any horizon; one crash or lost session at any point | 498 k |
| `scheduler_interrupted` | is the chronicle the same after a crash? - it is not | a chain of 5 actions over 3 moments | violation |
| `operator_repeats` | is a repeated line recognised? - it is not | one operator, one id, one event | violation |
| `tempo` | `DelayIsBounded`, `NeverEarly`, `WaitsEnd` | two workers, a poll of 4 beats, 2 minutes in 3 beats (so fractions occur, and a poll may be late by less than itself), actions that wait at the beginning, two journeys, one trouble of each kind; `MaxElapsed` 40 beats is beyond the last moment anybody waits for | 198 k |
| `world` | two agents, every journey an operator may order: `CrossingAwaited`, `NeedsMet`, `NothingFails`, `CardsTellTheWorld`, `MomentsEnd` | the prototype's map, risks and rules; 2160 minutes in steps of 240 cover hunger and fatigue to critical, two rests, meals, flight; hunger becomes full in 1201 minutes rather than 1440, which makes it critical during a rest and makes crossings fall between minutes | 33 k |
| `world_late` | the same with long ticks, in which actions are served late: `ReplayAgrees`, `NobodyStuck` | one agent, 3120 minutes in steps of 240 and 1440, two journeys | 396 k |
| `world_poisoned` | does every moment end when actions are served late? - it does not | one agent, one journey | violation |
| `projection` | two processes, each a worker or a rebuild whenever it is started: `FeedIsWhole`, `CardsAtPosition`, `ProjectionFollows`, `ImplementsFeed` | 3 events in batches of 2 (a full and a short one), 1 fault, 2 rebuilds: a rebuild beside a worker, a rebuild beside a rebuild, a rebuild that was killed and another | 132 k |
| `observer` | `FeedUnbroken`, `SnapshotMissesNothing`, `MapTellsItsEvent`, `SilentOnlyAfterReset`, `ViewerFollows` | one builder, 3 events, a feed and a page of 2 (so the feed slides), two fetches at once, one fault, one rebuild, one visit | 329 k |
| `deployment` | `ContractAlone`, `MigratedIsReady`, `MatchIsTrue`, `AlarmIsTrue` | 5 jobs of two operators, 3 releases, 2 events, one fault: a run that is killed, another release, and the first again | 2.2 M |
| `deployment_torn` | is a snapshot the world of one moment? - it is not | 4 jobs | violation |

The type invariants are properties of the runs `command_handler`, `scheduler`,
`world` and `projection`. Symmetry of clients, workers or operators is used only
where no liveness is checked. `CHECK_DEADLOCK FALSE` is said where a model really
stops: when the world has reached its last moment or all jobs are done.

Some properties say under which condition they hold, and the condition is part of
what was found out:

* `NeverEarly` and `DelayIsBounded` are stated for runs without certain troubles.
  A worker that was restarted counts from `world_time`, which in a quiet world
  lies behind the observed time an order is stamped with: its horizons are refused
  until the tempo catches up, and the delay is as long as the world was quiet. A
  worker whose steps learnt nothing keeps its anchor and grants that time at once,
  so that a journey can end early. `WaitsEnd` holds whatever happened.
* `InDueOrder` leaves the operator aside: his command may schedule something
  behind a running tick. It also needs the lock, or actions that do not take each
  other off the schedule (section 5, SchedulerProofs).
* `ScheduleServed` says that all that is due is dealt with, or the schedule is
  `Jammed`: the first of what is due would take a failed action off. The tick that
  executes it is aborted, as is every tick after it (`scheduler.ts:552-563`;
  `world_poisoned` finds how the rules of the world lead there, section 6), and what
  is due later waits behind it. The run reaches such schedules. What stands before
  the jam has been dealt with even then.
* `AlarmIsTrue` names what else than damage makes `world replay` report one: a
  commit between its reads (its docstring, `world-db-cli.ts:721-722`, takes any
  divergence for a violation), a torn snapshot, and a snapshot taken under another
  content than the world was made with, after which every replay reports foreign
  events - so the advice printed for other bundles (`world-db-cli.ts:785-786`)
  does not help.
* `FeedIsWhole`, `CardsAtPosition` and `ImplementsFeed` hold through rebuilds beside
  running workers until one of these saves what it read before the reset (`torn`).
  The position then passes rows that were erased, and the rebuild itself fails when
  it meets the worker's rows; the worker goes on from there, or meets rows of the
  rebuild and fails at every step, until somebody rebuilds alone. Even then no
  event stands in another's place. `main.ts:287-289` counts on there being one
  writer, which nothing enforces. `ProjectionFollows` also exempts `Stranded`: a
  rebuild was killed after its reset, and a worker whose projection is open does not
  make it again.
* `FeedUnbroken` holds through rebuilds, but for one that erases the rows between
  the snapshot of a screen and its page (`short`), and but for two ways to stray. Rows
  that were read while the feed was torn have the gap of the feed. And after a reset
  nothing makes `restore` and the effect wait for each other: if a late refresh finds
  no projection and a later one finds it again, a stream is opened while `restore` still
  has its page to read, and the screen shows event 1 of that stream after event 3 of the
  old feed. The run has one builder, so that no save tears the projection in it, and two
  requests, too few for the second; the theorem is for any number of either.
  `SnapshotMissesNothing` and
  `MapTellsItsEvent` are about a projection nobody rebuilds: positions begin again
  at a reset.
* `ViewerFollows` exempts a screen that was told to start over. After a `reset` it
  reads its snapshot again but opens no stream, because the effect that would
  depends on whether there was a snapshot before (`world-view.tsx:103-116`).
  `SilentOnlyAfterReset` says that nothing else silences a screen, and that only
  erased rows lead there.
* Two snapshots answered in the wrong order leave the older one on the screen until
  the next event; `MapTellsItsEvent` is what is true of it nevertheless.
* A snapshot of the API may hold agents that are newer than its position, since
  each of its two statements sees what is committed when it runs
  (`projection-store.ts:52-62`). It never lacks an event up to its position, which
  is what `SnapshotMissesNothing` says and what the stream relies on.

## 4. Fairness

Only liveness properties use it, and only as much as the code provides:

* Scheduler: workers poll (weak fairness of `TryLock`), a tick runs on (`Work`),
  a lease runs out unless it is renewed (`Expire`), real time passes (`Advance`),
  an operator who has asked acts (`Obey`). A tick reads the horizon of the tempo
  again and again, so it reads the present one in the end: strong fairness of
  `Read(w, clock)`. No fairness of crashes, of lost sessions, of what an operator
  asks for: his orders, and his ticks with horizons of his own.
* WorldRun: the tick loops while something is due, so `Claim \/ Serve` is weakly
  fair.
* Tempo: beats pass and running workers poll. Nothing in the repository starts a
  worker again, so `WaitsEnd` is conditional on somebody being up.
* Projection and Observer: a process that runs goes on, a request is answered, the
  handler polls and the browser reconnects. Nobody need start a builder, so the
  properties are conditional on `NobodyBuilds`.

## 5. What is proved

Fifty-four theorems, for any number of clients, workers, builders, screens'
requests, operators, agents, commands, actions, events and releases, any map, any
rules and any bound. The only assumptions are those on the constants:
`BoundsAssumption` and `NoneAssumption` (CommandHandler), `ScheduleAssumption`
(Scheduler), `ProjectionAssumption` (Projection), `ScreenAssumption` (Observer),
`RulesAssumption` (World), `RunAssumption` (WorldRun), `TempoAssumption` and
`LongEnough` (Tempo; the bound up to which beats are counted reaches the end of every
journey, or nothing could be said of its length) and `ReleaseAssumption`
(Deployment; that a registry is in the order of its ids is what
`validateMigrationRegistry` checks before anything else) - kinds of numbers, finitely
many items, marks such as `None`, `Nobody` and `Nowhere`
being different from what they stand beside, and of the rules what the code checks
when it makes them. TLC evaluates them in the runs.

Three theorems ask more of the rules than the code checks, and name it in their statement:
`Prompt` and `Sober`, one of them `Caring` too (end of WorldRun; below, under
WorldPromptProofs).

**CommandHandlerProofs.** The properties are not inductive: the commit computes
from a state that was loaded three statements earlier. The strengthening is
`Prepared` (what a transaction loaded is still the world, its id is still
unanswered, its moment and expectation still fit), which holds because of
`LockHeld`; and `AnswersInJournal` (recorded answers stand for blocks the journal
has), by which an appended block cannot belong to an older answer. With `IInv` =
`TypeOK`, `LockHeld`, `Prepared`, `AnswersInJournal` and the four properties:

* `TypeCorrectness`, `WorldIsReleased`, `WholeJournal`, `OneEffectPerCommand`,
  `TruthfulAnswers`, `OptimisticConcurrency`: the invariants of the run;
* `StableAnswers`: `AnswersNeverChange`, from `ToldWhatIsRecorded` in both states
  and recorded results that never change (`ResultsStay`);
* `RefusalsLeaveATrace`: `AttemptsKeepNewest`, from what trimming keeps;
* `HandlerImplementsLog`: `Spec => ImplementsLog`. The refinement maps `journal` and
  `results` to themselves; `CommitRejection` and `CommitAcceptance` are steps of the
  log, every other step leaves it alone (`StepRefinesLog`).

**SchedulerProofs.** Of a tick that was overtaken little is true; `TickSound` says
what still is: its horizon and moment were seen (`observed`), its batch are rows
that once were due, and a row it is about to mark was rejected. `ChronicleTold` ties
the history to the journal of commands. Then `TypeCorrectness`,
`TicksExcludeEachOther` (`OneTick`), `ScheduleTellsOutcome` (`RowsTellOutcome`),
`ActionsHappenOnce` (`HappensOnce`: whoever else holds the action, the journal of
commands decides), `ActionsInTime` (`AtItsMoment`).

How far the world may go is two theorems. `ActionsInSight` (`NothingUnseen`) is
without condition: an action moves the world no further than a tick has noted as seen
before it claimed the action; past that, only a command of the operator moves it. That
nothing passes the tempo is not true of an operator who names a moment or a horizon, so
`TempoIsTheLimit` (`WithinTempo`) speaks of the behaviours in which nobody does
(`Next /\ ByTempo`). For these the invariant is strengthened by `OrderSeen` (the moment
an order waits with was seen) and `HorizonsAllowed` (the horizon a tick remembers is one
the tempo allowed by then). `WithinTempo`,
`NothingUnseen`, `OneTick` and `AtItsMoment` are not checked by a run besides: the
theorems hold for every instance.

`InDueOrder` rests on `InOrder`: nothing pending is due before the moment any tick has
taken up. A row that comes on the schedule is due no earlier than the action that put it
there, so a tick does not harm its own moment; it could harm that of another
(`Scheduled`), by executing an action that is off the schedule and therefore held back
nobody. Two facts exclude this, each sufficient: the lock (`DueOrderWithLock`: crashes
and expired leases do no harm as long as no session is lost), or that actions do not take
each other off the schedule (`DueOrderWithoutLock`, with lost sessions). Where
both fail, so does the order: a tick that has lost its session before it executes an
action may, once another tick has taken that action off by a second one, still have it
accepted and schedule something behind the next moment, if the domain accepts it (the
model leaves that open: whether it does depends on the state of the actor, as no check in
`decide` asks whether the action is still on the schedule). In the instance of the run an
action takes another off, but only one that is due earlier and spawns nothing, and
sessions are lost: the property holds there without either condition.

`UndisturbedTellsTheStory` (`UninterruptedSame`) goes through `Undisturbed`: as long
as there is no fault, refusal or order, the state of the tables *is* a page of the
story (`Page`, `StoryTold`). `Claim` turns to the page on which the next moment is
being served, `Execute` to the one on which its turn has happened, and every other step
stays on the page (`SamePage`). For the two to turn to the *next* page a tick must be
right in all it read: that it is now what it read (`Trusts`), that nothing pending is
behind the world (`Timely`) or behind its moment (`AheadOf`), that what it claimed is
still its own, and that what is leased is in the batch of a tick that serves it
(`Leased`; so a claim finds the whole moment free). Not all of this outlives a fault,
which is why `scheduler_interrupted` finds what it finds. `TakenIsBatch` counts: what a
claim with its `LIMIT` takes are those with fewer than `BatchSize` before them. Counting
needs `Planned` and what an action spawns to be finite, which `ScheduleAssumption` says.
`TheStoryGoesOn` is about the story alone: the chronicle of a page begins that of every
later one, so that of two undisturbed runs over the same schedule, with whatever workers
and horizons, one has done what the other has and perhaps more. That the story is
well defined is proved too (`StoryUnfolds`): its first pages exist, up to any
page, and agree, by the least page for which they would not (`LeastNat`).

**ObserverProofs, the first part: Projection.** No lock keeps builders apart. `Sound` says that what a
builder read can only be stale by being *older*, as long as nobody erased the rows
since: its position is a former one and its cards belong to some position between
that one and the present. The key lemma is `StaleBatchConflicts`: a batch computed
from an older position emits a row whose number or event is in the feed, so that its
transaction fails, and one that does not conflict was computed from the present
position and cards. Of a builder that is `late` only `Honest` is true (it has read a
beginning of the journal), which is enough for `InPlace`, the part of `FeedIsWhole`
that survives a torn projection. `IInv` = `TypeOK`, `InPlace`, `Honest` of everyone
and, unless torn, `Untorn`. From it:

* `TypeCorrectness`, `ExactlyOnce` (`FeedIsWhole`), `CardsTellThePosition`
  (`CardsAtPosition`);
* `Implements`: `Spec => ImplementsFeed`, the refinement of EventFeed. `Save` shows
  more, `Reset` erases and so, to the observer, does the save that tears; everything
  else leaves the feed alone.

**TempoProofs.** World time and real time are compared in parts, of which a minute has
`Beats` and a beat has `Minutes` (`Worth`, `Gone`), so that the proof rounds nothing that
the code does not. A worker that was idle will begin again from the minute at which it
was, so its clock is not what it shows but what it will show (`Reckoned`). `Inv` has two
parts beside the types:

* while the only troubles are workers that were started again, `Common` (nothing that
  waits has been observed; who has no idle step behind has granted what is observed) and
  `Early` (no clock is ahead of the real time since an action was stamped, but for the
  poll and the minute by which the stamp itself may lag): `NoJourneyIsEarly`
  (`NeverEarly`);
* without troubles, `Delay`: no worker is more than two polls behind the world, another
  worker, or what waits (`Behind`). The last poll of a worker is at most one more:
  `DelayDoesNotAddUp` (`DelayIsBounded`), for any number of workers that poll out of
  step. The comment at `world-step.ts:79-80` promises that the delay by which a worker
  takes a new point to count from does not add up; counted from the order, it and the
  polls around it come to three.

**WorldProofs.** The tables are written piece by piece from the difference of the
states before and after, in which rows that were rejected appear as well.
`TablesAreTheJournal` (`ReplayAgrees`) says that what is read back from them is what
replaying the journal gives, for any map and rules and however late the world is
served; the invariant beside it is that a row holds an action under its own id
(`RowsAreRows`), and the step that matters is the comparison before the commit.

The rules are proved about event by event. What each of them does to the state has one
form: one agent is another, some actions leave the schedule and some enter it (`Moved`;
the lemmas `...IsMove`), and each keeps `Good` (the lemmas `...IsGood`): an agent and his
part of the schedule belong together (`Fine`). `Fine` knows of the actions that have
failed, since these stay on the schedule that is loaded: of a journey or a rest there
is exactly one action that ends it, and of a goal a step that has *not* failed. An event
has the effect the decision counted on only where it is `Legal`; the events of a command
come in at most two, and the second has to be legal after the first (`Sequel`, `Fold`).
`Answered` says that the schedule always holds commands the rules know an answer to, and
`Healthy` ties this to the rows. From it:

* `TypesHold` (`TypeOK`) and `NobodyWaitsForNothing` (`NobodyStuck`);
* `OnlyStaleNewsIsRefused`: however late the schedule is served, what the domain refuses
  is news of a need that is out of date or a step of a plan that was given up; the end of
  a journey or of a rest and a decision are never refused. No run checks this besides;
* `ChosenGoalIsFeasible`: `ChooseGoal` and `ChooseRoute` are defined, whatever the
  weights - the order of scores and numbers is total - and what they choose can be begun;
* `TheObserverIsToldTheTruth` (`CardsTellTheWorld`): the cards are folded by a second
  program that does not know the rules. `Told` is the invariant: a card agrees with its
  agent, but for the goal while that agent is about to decide (`Deciding`): the card
  keeps the goal of an agent whose plan has ended until the next is chosen, the state
  does not. A decision is on the schedule of that very moment, so once the moment is over
  they agree;
* `CrossingsAreAwaited` (`NothingFails => CrossingAwaited`): whatever the cards were told
  of a need, its baseline and its crossings on the schedule belong together (`Feels`).
  The level that was last announced was reached, and unless it is critical exactly one
  crossing is awaited, *no later* than the minute the next level is reached: no later
  and not at, because who eats or rests while nothing is felt moves his baseline and
  leaves the old crossing where it is (`Recovered` is silent). `Heeding` says what
  `decide` owes for this: a need is answered in silence only while its level is
  normal, and a level is announced only once it is reached, with the crossing that
  follows. Once the moment is over no crossing is due, so what was announced is the
  level. That nothing has failed is needed: a crossing that was refused stays in
  the schedule that is loaded, but is never served again.

About the needs, as functions of time: `CrossingIsTheFirstMinute` - the rounded minute
`nextThresholdCrossing` names is the first at which the level is reached - and
`CrossingOnTimeIsAccepted` - a crossing that is executed then is accepted. The second
has a proviso the first has not: that the two levels lie at least a minute of the need
apart. The checks of `needs.ts` do not demand it, and where it fails, `critical` is
reached in the minute in which `warning` is announced, whose crossing is refused.

**WorldPromptProofs.** Nothing the code checks keeps a schedule from being refused: a
world may be served so late that a need has passed two levels, and weights may be such
that somebody eats who is not hungry - `Recovered` is silent then, and the crossing that
was computed from the old baseline stays on the schedule and is refused in the end. Two
conditions exclude both:

* `Prompt`: from one level of a need to the next it takes at least a minute, and at least
  as long as a process moves the announced time at once. In the prototype's rules the
  shorter of the two is 960 * 0.3 = 288 minutes;
* `Sober`: to answer a need nobody feels is worth no more than it takes to change one's
  mind (`Urgency.normal <= SwitchMargin`; the prototype has 0 and 100).

The run `world` has an instance of both, and of `Caring` below, which TLC evaluates as
`PromptAssumption`. Under the two `APromptWorldRefusesNothing` (`NothingFails`) and `APromptWorldForgetsNoNeed`
(`CrossingAwaited`, no longer under the condition that nothing fails). The invariant is a
circle of four parts, each of which keeps the next (`PromptInv`):

* whoever is about to eat or to lie down feels the need he is about to answer
  (`Orderly`): by `Sober`, a goal that answers a need nobody feels is never worth more
  than staying idle;
* so no baseline is moved in silence, and each crossing on the schedule is exactly the
  one its baseline names (`Exact`);
* what is on the schedule is served before the next level of its need (`InTime`), since
  the announced time moves by at most a stride once all before it is served;
* so a crossing is news when it is executed, and accepted. A step of a plan is executed
  before its plan can be given up in the same moment (`StepsFirst`): the steps stand
  before the end of a journey and after the news of a need, and news either completes the
  step it overrules or leaves it its plan.

`APromptWorldMeetsItsNeeds` (`NeedsMet`) asks one thing more:

* `Caring`: to answer a need that is felt is worth more than the time of a rest and what
  it takes to change one's mind (`Urgency.warning - TimeCost(RestMinutes) > SwitchMargin`;
  in the prototype 400 - 200 > 100). The weights the code accepts may be such that a tired
  agent prefers to stand about until he is exhausted.

An agent looks at his needs only when an `agent.decide` of his is served, so the property
depends on somebody being roused by whatever changes what he could do. `MetInv` adds two
parts to `PromptInv` and to what the cards know (`NeedsInv`):

* each agent is `Wakeful`: who is free and has no decision on the schedule will still be
  told that he is tired, and that he is hungry, unless his bag is empty (`Content`: the
  first crossing of the need is awaited, and by `Exact` it lies before the level);
  who sleeps or is about to lie down does it to rest, and with food in his bag will be told
  before he starves, which wakes him (`Mindful`); a decision is due at once (`Alert`).
  Each event that could break this schedules a decision (`WithDecision`) or comes with
  the interruption of the plan (`EmergencyInterrupt`);
* what the tick has claimed is due no later than anything else (`BatchFirst`). Without it
  `Wakeful` is not inductive: news that hunger has become critical interrupts only who
  rests already (`EmergencyInterrupt`); who is about to lie down would do so after it, and
  nothing would wake him. With it his `agent.rest` is due no earlier than that news, and
  whoever chose to rest then with food in his bag was not starving at that moment
  (`Mindful`): there is no such agent (`NobodyLiesDownStarving`).

Once nothing is due, nobody has a decision or a step left, whoever is free has no goal,
and the crossings he awaits lie ahead: he feels nothing he could answer.

**ObserverProofs, the second part: Observer.** The screen is far from the builders, and nothing it does waits for
them. `Knows` says that whatever it, its stream and its requests have heard lies at or
below the position, and that a request was read at or after the event it was made for
(`RequestKnows`). This survives every step of a builder because a projection nobody
rebuilds only shows more (`ShowsMore`, from `SaveShows` of the first part, that is:
from the keys of the feed). Together with `IInv` it gives `SnapshotsAreComplete`
(`SnapshotMissesNothing`), `MapsAreNotBehind` (`MapTellsItsEvent`) and, since nobody
can be behind a feed that was never erased (`NobodyIsBehind`), `NobodyFallsSilent`
(`SilentOnlyAfterReset`).

`FeedHasNoGap` (`FeedUnbroken`) needs to know less of the projection and more of the
screen. What is shown is a `Row` of positions, and both the cursor and the last event
that was delivered lie in it or just before it (`Anchored`): hence a stream may be
opened at the one and resumed at the other. What the stream has brought and not yet
delivered begins right after the last delivered (`NextRows`), because a feed that is
not torn has no gap (`RowsAreNext`); what is delivered is then shown already or makes
the row one longer (`RowGrows`). The page is a row because it is read in order
(`InOrderIsRow`), and it is read only once because one request at most may restore the
screen, and none may refresh it before it shows something (`OneAsks`). A screen that
starts over keeps its row as long as nothing is brought to it (`Again`).

**DeploymentProofs.** A run of the migrations computes its plan once and carries it out
in as many transactions. `MInv` says that as long as it does, the plan is what of its
registry the ledger lacks (`Planned`), and that what it has applied and what it still
has to apply do not mix phases; the advisory lock is what makes this last, since it
keeps everybody else from the ledger (`Exclusive`). Two migrations of a registry do
not share an id (`OneOfEachId`), so applying one leaves the rest missing. From it
`OneDelivery` (`ContractAlone`) and `MigrationKeepsItsWord` (`MigratedIsReady`), for
any number of operators and releases.

What a replay says of the world rests on a second invariant (`DInv`). The journal and the
snapshots stay within the sequence of the world, whatever is damaged (`WorldFits`); until
something is, the journal is the numbers up to it and the agents have been told all of
them (`Whole`); and what a replay has read is still what the tables say, unless it was
disturbed (`Fits`). Only a job that compares has a verdict (`WhoTells`), which leaves one
step to think about: a suffix without a gap, put in order, is the numbers in a row behind
the snapshot (`OrderedRow`, by counting how many are no greater), and the greatest of a
bounded set of numbers is one of them (`GreatestIs`). `MatchVouchesForTheWorld`
(`MatchIsTrue`): a replay that agrees has read every event behind its snapshot up to the
state it compares with, of damaged tables too, and however many commands commit
meanwhile. `AlarmMeansDamage` (`AlarmIsTrue`): it raises the alarm over an undamaged
world only when it was disturbed or began from a snapshot that is torn or declares other
bundles.

**ConversionProofs.** Of instants: the two calendar algorithms are each other's inverse
for every day of every year, leap years and centuries included (`DateOfItsDay`, `DayOfItsDate`): a
canonical text names exactly its moment (`TextNamesItsMoment`), two texts of one moment
are the same text (`OneTextForAMoment`), and texts are in the order of their moments
(`TextsInOrder`), on which the `due_at` of the schedule rests, which the database
orders as text. All of this is about canonical texts. `parseInstant` returns the text it
was given, so that `world tick --until` compares a valid one by code points whatever its
offset and digits (`world-db-cli.ts:437-439`, `scheduler.ts:422`). There is no run beside: the numbers are beyond TLC's integers.
`SomeTextLeavesTheMoments`: a valid text within a day of either end of the era has an
offset that takes it out of it. `parseCanonicalInstant` hands such a text to
`formatCanonicalInstant`, which throws, although the comment at
`canonical-instant.ts:33-35` promises an `{ error }` for a text that does not parse.

Of decimals: `RoundingKeepsItsPromise`: in each of its modes `Rounded` is the
integer the mode promises, ties and negative numbers included; `RoundingGrows`: it is
monotone. Besides, a decimal that is parsed was not rounded (`ParsedIsNotRounded`). The
rounding is used by its own tests so far; `checkMinorUnits` by the generator of a world.

Every invariant and every action property of the passing runs is the statement of a
theorem, or two (`InDueOrder`, under one of its conditions each). Only model-checked are
the liveness properties, and that the instances do what the properties speak of.

Out of the prover's reach: liveness under fairness and `ENABLED`; induction over data, so
what a fold computes for every journal. (Induction over numbers is there, as the least
counterexample: so the story is reasoned about, a function of the number of its page. No
module has a `RECURSIVE` operator.)

## 6. What the code does not keep

Four runs expect a violation; each states what a comment of the repository says of
the program, and `findings` quotes it.

* `scheduler_interrupted`, `SameChronicle` (`scheduler.ts:297-299`: the result depends
  on the horizon, not on when a process got to run). A worker that dies inside a
  batch has committed actions that may have scheduled a better placed one for the
  same moment; the next tick serves that one before the rest of the batch. The same
  commands, in another order. Without a fault `UninterruptedSame` holds
  (and is proved: `UndisturbedTellsTheStory`).
* `operator_repeats`, `RepeatIsRecognised` (`world-db-cli.ts:287`: with `--command-id`
  the line is a repetition of that very attempt). The line carries the version it has
  just read, the fingerprint covers it, and the accepted first attempt has moved it:
  the repetition is refused as a foreign body.
* `world_poisoned`, `MomentsEnd` (`scheduler.ts:546-548`: a rejection is final). A
  failed row stays in the loaded state; an event that removes the crossings of a need
  completes it, which a constraint of the table forbids, and the transaction fails at
  every later tick: the schedule stands still. It takes a crossing served so late that
  the need has become critical. In `world`, where ticks are short, `NothingFails`
  holds, and with it `MomentsEnd`.
* `deployment_torn`, `SnapshotIsOneMoment` (`world-db-cli.ts:642-656`: the transaction
  covers the four queries). It is begun at read committed, in which it does not.

## 7. What is not modelled

* **contracts**, the rest of them: canonical JSON, checksums, the decoders of commands,
  snapshots and profiles, the observer's schemas - pure conversions with property tests
  of their own. CommandHandler compares fingerprints as values. Modelled are the
  contract of events (WorldEvents), instants and rounding.
* **content**: the data of the prototype world are constants of the runs; the
  validation of a bundle is not modelled.
* **random streams**: no rule of the world draws from one yet. Their positions, and
  the repair of those in the genesis snapshot (migrations 0009 and 0010), are left out.
* **identifiers and envelopes** of events, the decision trace, the text of the feed.
* **principals and grants**: configuration without behaviour. Of the canonical writer
  only the comparison at start is modelled.
* **agent-harness, security-scan, representation**: development tooling, and an empty
  package.
* `--at-world-time` is left out of WorldRun and Tempo, whose operator acts at the hour he
  reads; OperatorCli and Scheduler have it. The horizon of `world tick --until` is a
  moment everywhere, also where its text is not canonical.
* Waiting for the row lock is not a run of its own: `LockHeld` says that the lock
  always has a living holder; that PostgreSQL serves its queue is taken for granted.

## 8. The plan

Done, in the order of importance: CommandLog, CommandHandler and their refinement;
Scheduler; OperatorCli; World, WorldEvents, ObserverFold, WorldRun; Projection, with
rebuilds beside running workers, and its refinement of EventFeed; Observer; Tempo;
Deployment; Instant and Numeric; the proofs about CommandHandler, Scheduler, Tempo,
Projection, the rules of the world and its tables, Observer, Deployment and the conversions.

To do:

1. the start of a process in full (qualification of the writer, the profile), the
   random streams with their repair, the validation of content.
