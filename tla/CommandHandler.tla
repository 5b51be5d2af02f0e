--------------------------- MODULE CommandHandler ---------------------------
(***************************************************************************)
(* executeCommand: the one way a world changes. Several clients (the tick  *)
(* of a worker, the operator's command line) run it at once, each in one   *)
(* READ COMMITTED transaction that begins by locking the row of the world. *)
(* A client may die at any statement and later send the same command again.*)
(*                                                                         *)
(* Every read and write between the lock and the commit belongs to one     *)
(* transaction, so its writes are kept in `tx` until the commit publishes  *)
(* them, and every statement reads what is committed at that moment.       *)
(***************************************************************************)
EXTENDS Integers, Sequences, FiniteSets

CONSTANTS
  Clients,      (* connections that execute commands                       *)
  CommandIds,   (* command_id values                                       *)
  Intents,      (* what a body asks for, with its actor and its payload    *)
  Expectations, (* expected_world_version values, Unchecked included       *)
  Times,        (* moments of world time                                   *)
  MaxEvents,    (* bound: events of one command                            *)
  MaxSequence,  (* bound: events of the journal                            *)
  MaxAttempts,  (* MAX_ATTEMPTS_PER_COMMAND                                *)
  Unchecked,    (* the command does not name the version it expects        *)
  Nobody,       (* no transaction holds the row of the world               *)
  None          (* no row in command_results                               *)

ASSUME BoundsAssumption ==
  /\ MaxEvents \in Nat \ {0} /\ MaxSequence \in Nat /\ MaxAttempts \in Nat \ {0}
  /\ Times \subseteq Nat /\ 0 \in Times
  /\ Expectations \subseteq Nat \cup {Unchecked} /\ Unchecked \notin Nat
  /\ Nobody \notin Clients

ASSUME NoneAssumption ==
  /\ None \notin [id : CommandIds, print : Intents \X Expectations]
  /\ None \notin [outcome : {"accepted", "rejected", "mismatch"}, before : Nat, after : Nat]
  /\ None \notin [print : Intents \X Expectations, outcome : {"accepted", "rejected"},
                  before : Nat, after : Nat]

VARIABLES
  world,        (* the row of the world: version, last_sequence, world_time *)
  journal,      (* world_events                                            *)
  outbox,       (* outbox: the sequences offered to subscribers            *)
  results,      (* command_results by command_id                           *)
  attempts,     (* command_attempt_rejections by command_id, oldest first  *)
  lock,         (* the client whose transaction holds the row of the world *)
  tx,           (* each client's transaction                               *)
  told          (* history: the last answer a client got to each command   *)

tables == <<world, journal, outbox, results, attempts>>
vars == <<world, journal, outbox, results, attempts, lock, tx, told>>

(* commandFingerprint covers the body and the version it expects, not the  *)
(* identifier and not the moment at which the caller executes it.          *)
Prints == Intents \X Expectations
Commands == [id : CommandIds, print : Prints]
Expected(command) == command.print[2]

Log == INSTANCE CommandLog WITH
  CommandIds <- CommandIds, Prints <- Prints, Times <- Times,
  MaxEvents <- MaxEvents, None <- None,
  journal <- journal, results <- results

Worlds == [version : 0 .. MaxSequence, lastSequence : 0 .. MaxSequence, time : Times]
Answers == [print : Prints, outcome : {"accepted", "rejected"},
            before : 0 .. MaxSequence, after : 0 .. MaxSequence]
Events == [sequence : 1 .. MaxSequence, command : CommandIds, time : Times]
Replies == [outcome : {"accepted", "rejected", "mismatch"},
            before : 0 .. MaxSequence, after : 0 .. MaxSequence]

Genesis == [version |-> 0, lastSequence |-> 0, time |-> 0]

(* Statements of a transaction, in order. "check" reads the journal of     *)
(* commands, "decide" loads the state and runs the domain, "commit" is left*)
(* with everything written and the answer ready.                           *)
Steps == {"idle", "lock", "check", "decide", "commit"}
Transactions == [step : Steps, command : Commands \cup {None}, at : Times,
                 state : Worlds, events : 0 .. MaxEvents]

Idle == [step |-> "idle", command |-> None, at |-> 0, state |-> Genesis, events |-> 0]
Open(command, at) == [Idle EXCEPT !.step = "lock", !.command = command, !.at = at]

-----------------------------------------------------------------------------
Init ==
  /\ world = Genesis
  /\ journal = <<>> /\ outbox = <<>>
  /\ results = [id \in CommandIds |-> None]
  /\ attempts = [id \in CommandIds |-> <<>>]
  /\ lock = Nobody
  /\ tx = [c \in Clients |-> Idle]
  /\ told = [command \in Commands |-> None]

(* A client opens a transaction. `at` is options.worldTime: the tick passes *)
(* the moment of its action, the operator the observed time of the world.  *)
(* A retry is nothing else than the same command sent again.               *)
Begin(c) ==
  /\ tx[c].step = "idle"
  /\ \E command \in Commands, at \in Times : tx' = [tx EXCEPT ![c] = Open(command, at)]
  /\ UNCHANGED <<tables, lock, told>>

(* Variants marked "Not the code" are mistakes the properties must notice.   *)

(* Not the code: a plain select reads the row while another is writing it.  *)
ReadWorld(c) ==
  /\ tx[c].step = "lock"
  /\ lock' = c
  /\ tx' = [tx EXCEPT ![c].step = "check"]
  /\ UNCHANGED <<tables, told>>

(* select ... for no key update: waits until no transaction has the row.   *)
LockWorld(c) ==
  /\ tx[c].step = "lock"
  /\ lock = Nobody
  /\ lock' = c
  /\ tx' = [tx EXCEPT ![c].step = "check"]
  /\ UNCHANGED <<tables, told>>

Reply(outcome, before, after) == [outcome |-> outcome, before |-> before, after |-> after]

(* The transaction of c ends and gives its lock back. The answer reaches    *)
(* the client, or is lost with the process that was waiting for it.        *)
Finish(c, reply) ==
  /\ lock' = Nobody
  /\ tx' = [tx EXCEPT ![c] = Idle]
  /\ told' \in {told, [told EXCEPT ![tx[c].command] = reply]}

(* Not the code: the answer is recomputed for the present world.           *)
ReplayPresent(c) ==
  LET command == tx[c].command
      stored  == results[command.id]
  IN /\ tx[c].step = "check"
     /\ stored # None
     /\ stored.print = command.print
     /\ Finish(c, Reply(stored.outcome, stored.before, world.version))
     /\ UNCHANGED tables

(* readStoredResult found the same body: the recorded answer is returned,  *)
(* before any look at the version of the world.                            *)
Replay(c) ==
  LET command == tx[c].command
      stored  == results[command.id]
  IN /\ tx[c].step = "check"
     /\ stored # None
     /\ stored.print = command.print
     /\ Finish(c, Reply(stored.outcome, stored.before, stored.after))
     /\ UNCHANGED tables

(* Not the code: every attempt is kept.                                    *)
Untrimmed(log) == log

Latest(log) ==
  SubSeq(log, IF Len(log) > MaxAttempts THEN Len(log) - MaxAttempts + 1 ELSE 1, Len(log))

(* Not the code: the new body takes the place of the recorded one.         *)
RecordOverAnswer(c) ==
  LET command == tx[c].command
      stored  == results[command.id]
  IN /\ tx[c].step = "check"
     /\ stored # None
     /\ stored.print # command.print
     /\ results' = [results EXCEPT ![command.id].print = command.print]
     /\ Finish(c, Reply("mismatch", world.version, world.version))
     /\ UNCHANGED <<world, journal, outbox, attempts>>

(* Not the code: the early return leaves the transaction open.             *)
RecordAndKeepLock(c) ==
  LET command == tx[c].command
      stored  == results[command.id]
  IN /\ tx[c].step = "check"
     /\ stored # None
     /\ stored.print # command.print
     /\ attempts' = [attempts EXCEPT ![command.id] = Latest(Append(@, command.print))]
     /\ tx' = [tx EXCEPT ![c] = Idle]
     /\ UNCHANGED <<world, journal, outbox, results, lock, told>>

(* readStoredResult found another body under the identifier: the attempt is*)
(* recorded apart, only the latest are kept, the world is left alone.      *)
RecordForeignBody(c) ==
  LET command == tx[c].command
      stored  == results[command.id]
  IN /\ tx[c].step = "check"
     /\ stored # None
     /\ stored.print # command.print
     /\ attempts' = [attempts EXCEPT ![command.id] = Latest(Append(@, command.print))]
     /\ Finish(c, Reply("mismatch", world.version, world.version))
     /\ UNCHANGED <<world, journal, outbox, results>>

(* Not the code: nobody looks whether the command was answered before.     *)
LoadAnyway(c) ==
  /\ tx[c].step = "check"
  /\ tx' = [tx EXCEPT ![c] = [@ EXCEPT !.step = "decide", !.state = world]]
  /\ UNCHANGED <<tables, lock, told>>

(* No answer is recorded: loadWorldState and loadWorldMeta.                *)
Load(c) ==
  /\ tx[c].step = "check"
  /\ results[tx[c].command.id] = None
  /\ tx' = [tx EXCEPT ![c] = [@ EXCEPT !.step = "decide", !.state = world]]
  /\ UNCHANGED <<tables, lock, told>>

(* World time cannot go back: an exception, and the transaction is undone. *)
RefuseBackwardTime(c) ==
  /\ tx[c].step = "decide"
  /\ tx[c].at < tx[c].state.time
  /\ lock' = Nobody
  /\ tx' = [tx EXCEPT ![c] = Idle]
  /\ UNCHANGED <<tables, told>>

(* Not the code: only an expectation from the future is noticed.           *)
StaleAhead(command, state) ==
  Expected(command) # Unchecked /\ Expected(command) > state.version

Stale(command, state) == Expected(command) \notin {Unchecked, state.version}

(* Not the code: a moment already gone is accepted.                        *)
DecideInThePast(c) ==
  /\ tx[c].step = "decide"
  /\ \E n \in 0 .. MaxEvents :
       /\ Stale(tx[c].command, tx[c].state) => n = 0
       /\ tx[c].state.lastSequence + n <= MaxSequence
       /\ tx' = [tx EXCEPT ![c] = [@ EXCEPT !.step = "commit", !.events = n]]
  /\ UNCHANGED <<tables, lock, told>>

(* decide: a stale expectation is rejected; otherwise the domain accepts   *)
(* with at least one event or rejects for a reason of its own.             *)
Decide(c) ==
  /\ tx[c].step = "decide"
  /\ tx[c].at >= tx[c].state.time
  /\ \E n \in 0 .. MaxEvents :
       /\ Stale(tx[c].command, tx[c].state) => n = 0
       /\ tx[c].state.lastSequence + n <= MaxSequence
       /\ tx' = [tx EXCEPT ![c] = [@ EXCEPT !.step = "commit", !.events = n]]
  /\ UNCHANGED <<tables, lock, told>>

(* A rejected command leaves its row in command_results and nothing else.  *)
CommitRejection(c) ==
  LET t == tx[c]
  IN /\ t.step = "commit"
     /\ t.events = 0
     /\ results' = [results EXCEPT ![t.command.id] =
                      Log!Rejected(t.command.print, t.state.version)]
     /\ Finish(c, Reply("rejected", t.state.version, t.state.version))
     /\ UNCHANGED <<world, journal, outbox, attempts>>

(* An accepted command: its events, the state they lead to, one outbox row *)
(* per event and its row in command_results become visible together. The   *)
(* row of the world is SET to what evolve computed from the loaded state.  *)
CommitAcceptance(c) ==
  LET t == tx[c]
      events == Log!Block(t.command.id, t.at, t.state.lastSequence, t.events)
      answer == Log!Accepted(t.command.print, t.state.version, t.events)
  IN /\ t.step = "commit"
     /\ t.events > 0
     /\ journal' = journal \o events
     /\ outbox' = outbox \o [k \in 1 .. t.events |-> events[k].sequence]
     /\ world' = [version |-> t.state.version + t.events,
                  lastSequence |-> t.state.lastSequence + t.events, time |-> t.at]
     /\ results' = [results EXCEPT ![t.command.id] = answer]
     /\ Finish(c, Reply("accepted", answer.before, answer.after))
     /\ UNCHANGED attempts

(* The client, its connection or a statement fails before the commit:      *)
(* nothing of the transaction remains.                                     *)
Crash(c) ==
  /\ tx[c].step # "idle"
  /\ tx' = [tx EXCEPT ![c] = Idle]
  /\ lock' = IF lock = c THEN Nobody ELSE lock
  /\ UNCHANGED <<tables, told>>

Work(c) ==
  \/ LockWorld(c) \/ Replay(c) \/ RecordForeignBody(c) \/ Load(c)
  \/ RefuseBackwardTime(c) \/ Decide(c) \/ CommitRejection(c) \/ CommitAcceptance(c)

Next == \E c \in Clients : Begin(c) \/ Work(c) \/ Crash(c)

Spec == Init /\ [][Next]_vars

-----------------------------------------------------------------------------
(* Every variable holds values of its kind.                                *)
TypeOK ==
  /\ world \in Worlds
  /\ journal \in Seq(Events)
  /\ outbox \in Seq(1 .. MaxSequence)
  /\ results \in [CommandIds -> Answers \cup {None}]
  /\ attempts \in [CommandIds -> Seq(Prints)]
  /\ lock \in Clients \cup {Nobody}
  /\ tx \in [Clients -> Transactions]
  /\ told \in [Commands -> Replies \cup {None}]

(* A transaction is past its lock exactly when it has it: whoever dies, is *)
(* refused or answers leaves the row of the world to the next one, and two *)
(* are never between reading the state and writing the next.               *)
LockHeld ==
  \A c \in Clients : tx[c].step \in {"check", "decide", "commit"} <=> lock = c

(* What a transaction loaded and checked still holds when it commits.      *)
Prepared ==
  \A c \in Clients :
    /\ tx[c].step # "idle" => tx[c].command \in Commands
    /\ tx[c].step \in {"decide", "commit"} =>
         tx[c].state = world /\ results[tx[c].command.id] = None
    /\ tx[c].step = "commit" =>
         /\ tx[c].at >= tx[c].state.time
         /\ tx[c].events > 0 => ~Stale(tx[c].command, tx[c].state)
         /\ tx[c].state.lastSequence + tx[c].events <= MaxSequence

(* Answers stand for blocks the journal already has.                       *)
AnswersInJournal ==
  \A id \in CommandIds :
    results[id] # None =>
      /\ results[id].before <= results[id].after /\ results[id].after <= Len(journal)
      /\ results[id].outcome = "rejected" => results[id].before = results[id].after

(* The row of the world, the journal and the outbox tell the same story:   *)
(* events are numbered from 1 without a gap up to last_sequence, which is  *)
(* also the version; each is offered to subscribers once, in that order;   *)
(* world_time is the time of the last one and no earlier event is later.   *)
JournalIsWhole ==
  /\ world.version = Len(journal) /\ world.lastSequence = Len(journal)
  /\ \A i \in DOMAIN journal : journal[i].sequence = i
  /\ outbox = [i \in DOMAIN journal |-> i]
  /\ \A i, j \in DOMAIN journal : i <= j => journal[i].time <= journal[j].time
  /\ journal # <<>> => world.time = journal[Len(journal)].time

(* However often a command is sent, by however many clients, crashed or    *)
(* not, its events are in the journal once: exactly those its recorded     *)
(* answer names. An event of an unanswered or rejected command is nowhere. *)
EffectOnce ==
  \A i \in DOMAIN journal, id \in CommandIds :
    journal[i].command = id <=>
      /\ results[id] # None
      /\ results[id].before < i /\ i <= results[id].after

(* What a client was told stays true: an acceptance or a rejection it      *)
(* received is the answer on record for that body, and a client whose body *)
(* was refused as foreign will find another body on record.                *)
ToldWhatIsRecorded ==
  \A command \in Commands :
    told[command] # None =>
      LET stored == results[command.id]
      IN /\ stored # None
         /\ IF told[command].outcome = "mismatch" THEN stored.print # command.print
            ELSE /\ stored.print = command.print
                 /\ told[command] = Reply(stored.outcome, stored.before, stored.after)

(* Optimistic concurrency: a command that named the version it was made    *)
(* for is only ever accepted at that version.                              *)
AcceptedAsExpected ==
  \A id \in CommandIds :
    results[id] # None /\ results[id].outcome = "accepted" =>
      results[id].print[2] \in {Unchecked, results[id].before}

(* A refusal as a foreign body is never news without a trace: whoever is   *)
(* told so finds its body as the newest attempt under the identifier, even *)
(* when the list was full and its oldest had to go, and never as the body  *)
(* on record there.                                                        *)
AttemptsKeepNewest ==
  [][\A command \in Commands :
       told'[command] # told[command] /\ told'[command].outcome = "mismatch" =>
         LET log == attempts'[command.id]
         IN /\ 0 < Len(log) /\ Len(log) <= MaxAttempts
            /\ log[Len(log)] = command.print
            /\ results[command.id].print # command.print]_told

(* A retry may come long after the world has moved on; the client is told  *)
(* what it was, or would have been, told the first time.                   *)
AnswersNeverChange ==
  [][\A command \in Commands :
       told[command] # None =>
         /\ told'[command].outcome = told[command].outcome
         /\ told[command].outcome # "mismatch" => told'[command] = told[command]]_told

(* The handler keeps the promise of CommandLog.                            *)
ImplementsLog == Log!LogSpec
=============================================================================
