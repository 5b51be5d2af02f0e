------------------------ MODULE CommandHandlerProofs ------------------------
(***************************************************************************)
(* Proofs about CommandHandler, for any number of clients, commands and    *)
(* attempts. Each step of a transaction is taken in turn; only the two     *)
(* commits write the tables, and what they write was read under the lock.  *)
(***************************************************************************)
EXTENDS CommandHandler, TLAPS

(* Appending keeps what was there and puts the new part right behind it.   *)
LEMMA Appending ==
  ASSUME NEW S, NEW s \in Seq(S), NEW n \in Nat, NEW f \in [1 .. n -> S]
  PROVE  /\ s \o f \in Seq(S)
         /\ Len(s \o f) = Len(s) + n
         /\ \A i \in 1 .. Len(s) : (s \o f)[i] = s[i]
         /\ \A i \in Len(s) + 1 .. Len(s) + n : (s \o f)[i] = f[i - Len(s)]
<1>1. f \in Seq(S) /\ Len(f) = n
  OBVIOUS
<1>2. QED
  BY <1>1

(* A block of events is a sequence of events when its numbers fit.         *)
LEMMA BlockType ==
  ASSUME NEW id \in CommandIds, NEW at \in Times, NEW before \in Nat, NEW n \in Nat,
         before + n <= MaxSequence
  PROVE  Log!Block(id, at, before, n) \in [1 .. n -> Events]
BY BoundsAssumption DEF Log!Block, Events

(* Trimming the attempts gives a sequence of fingerprints again.           *)
LEMMA LatestType ==
  ASSUME NEW log \in Seq(Prints)
  PROVE  Latest(log) \in Seq(Prints)
BY BoundsAssumption DEF Latest

(* A finished transaction is idle and its lock is free.                    *)
LEMMA FinishType ==
  ASSUME TypeOK, NEW c \in Clients, NEW reply \in Replies, Finish(c, reply)
  PROVE  /\ lock' \in Clients \cup {Nobody}
         /\ tx' \in [Clients -> Transactions]
         /\ told' \in [Commands -> Replies \cup {None}]
<1>1. Idle \in Transactions
  BY BoundsAssumption DEF Idle, Transactions, Steps, Worlds, Genesis
<1>2. QED
  BY <1>1 DEF Finish, TypeOK

(* The values of a transaction that has a command.                         *)
LEMMA Fields ==
  ASSUME TypeOK, Prepared, NEW c \in Clients, tx[c].step # "idle"
  PROVE  /\ tx[c] \in Transactions /\ tx[c].command \in Commands
         /\ tx[c].command.id \in CommandIds /\ tx[c].command.print \in Prints
         /\ tx[c].at \in Times /\ tx[c].state \in Worlds
         /\ tx[c].events \in 0 .. MaxEvents
         /\ tx[c].state.version \in 0 .. MaxSequence
         /\ tx[c].state.lastSequence \in 0 .. MaxSequence
         /\ tx[c].state.time \in Times
BY DEF TypeOK, Prepared, Transactions, Commands, Worlds

-----------------------------------------------------------------------------
IInv ==
  /\ TypeOK /\ LockHeld /\ Prepared /\ AnswersInJournal
  /\ JournalIsWhole /\ EffectOnce /\ ToldWhatIsRecorded /\ AcceptedAsExpected

(* Initially nothing has happened and no transaction is open.              *)
LEMMA InitIInv == Init => IInv
<1> SUFFICES ASSUME Init PROVE IInv
  OBVIOUS
<1>1. Idle \in Transactions /\ Idle.step = "idle" /\ Genesis \in Worlds
  BY BoundsAssumption DEF Idle, Transactions, Steps, Worlds, Genesis
<1>2. TypeOK
  BY <1>1 DEF Init, TypeOK
<1>3. LockHeld /\ Prepared
  BY <1>1, BoundsAssumption DEF Init, LockHeld, Prepared
<1>4. JournalIsWhole
  BY DEF Init, JournalIsWhole, Genesis
<1>5. AnswersInJournal /\ EffectOnce /\ ToldWhatIsRecorded /\ AcceptedAsExpected
  BY DEF Init, AnswersInJournal, EffectOnce, ToldWhatIsRecorded, AcceptedAsExpected
<1>6. QED
  BY <1>2, <1>3, <1>4, <1>5 DEF IInv

(* Types are preserved by every step.                                      *)
LEMMA TypeStep ==
  ASSUME TypeOK, Prepared, JournalIsWhole, [Next]_vars
  PROVE  TypeOK'
<1>0. Idle \in Transactions
  BY BoundsAssumption DEF Idle, Transactions, Steps, Worlds, Genesis
<1>1. ASSUME NEW c \in Clients, Begin(c) PROVE TypeOK'
  <2>1. PICK command \in Commands, at \in Times :
          tx' = [tx EXCEPT ![c] = Open(command, at)]
    BY <1>1 DEF Begin
  <2>2. Open(command, at) \in Transactions
    BY <1>0 DEF Open, Idle, Transactions, Steps
  <2>3. QED
    BY <1>1, <2>1, <2>2 DEF Begin, TypeOK, tables
<1>2. ASSUME NEW c \in Clients, LockWorld(c) PROVE TypeOK'
  <2>1. [tx[c] EXCEPT !.step = "check"] \in Transactions
    BY <1>0 DEF TypeOK, Transactions, Steps
  <2>2. QED
    BY <1>2, <2>1 DEF LockWorld, TypeOK, tables
<1>3. ASSUME NEW c \in Clients, Replay(c) PROVE TypeOK'
  <2>1. tx[c].command.id \in CommandIds
    BY <1>3, Fields DEF Replay
  <2>2. results[tx[c].command.id] \in Answers
    BY <1>3, <2>1 DEF Replay, TypeOK
  <2> DEFINE stored == results[tx[c].command.id]
  <2>3. Reply(stored.outcome, stored.before, stored.after) \in Replies
    BY <2>2 DEF Reply, Replies, Answers
  <2>4. QED
    BY <1>3, <2>3, FinishType DEF Replay, TypeOK, tables
<1>4. ASSUME NEW c \in Clients, RecordForeignBody(c) PROVE TypeOK'
  <2>1. tx[c].command.id \in CommandIds /\ tx[c].command.print \in Prints
    BY <1>4, Fields DEF RecordForeignBody
  <2>2. Reply("mismatch", world.version, world.version) \in Replies
    BY DEF Reply, Replies, TypeOK, Worlds
  <2>3. attempts[tx[c].command.id] \in Seq(Prints)
    BY <2>1 DEF TypeOK
  <2>4. Latest(Append(attempts[tx[c].command.id], tx[c].command.print)) \in Seq(Prints)
    <3>1. Append(attempts[tx[c].command.id], tx[c].command.print) \in Seq(Prints)
      BY <2>1, <2>3
    <3>2. QED
      BY <3>1, LatestType
  <2>5. attempts' \in [CommandIds -> Seq(Prints)]
    BY <1>4, <2>1, <2>4 DEF RecordForeignBody, TypeOK
  <2>6. QED
    BY <1>4, <2>2, <2>5, FinishType DEF RecordForeignBody, TypeOK
<1>5. ASSUME NEW c \in Clients, Load(c) PROVE TypeOK'
  <2>1. [tx[c] EXCEPT !.step = "decide", !.state = world] \in Transactions
    BY DEF TypeOK, Transactions, Steps
  <2>2. QED
    BY <1>5, <2>1 DEF Load, TypeOK, tables
<1>6. ASSUME NEW c \in Clients, RefuseBackwardTime(c) PROVE TypeOK'
  BY <1>0, <1>6 DEF RefuseBackwardTime, TypeOK, tables
<1>7. ASSUME NEW c \in Clients, Decide(c) PROVE TypeOK'
  <2>1. \A n \in 0 .. MaxEvents :
          [tx[c] EXCEPT !.step = "commit", !.events = n] \in Transactions
    BY DEF TypeOK, Transactions, Steps
  <2>2. QED
    BY <1>7, <2>1 DEF Decide, TypeOK, tables
<1>8. ASSUME NEW c \in Clients, CommitRejection(c) PROVE TypeOK'
  <2>1. tx[c].command.id \in CommandIds /\ tx[c].command.print \in Prints
        /\ tx[c].state.version \in 0 .. MaxSequence
    BY <1>8, Fields DEF CommitRejection
  <2>2. Reply("rejected", tx[c].state.version, tx[c].state.version) \in Replies
    BY <2>1 DEF Reply, Replies
  <2>3. Log!Rejected(tx[c].command.print, tx[c].state.version) \in Answers
    BY <2>1 DEF Log!Rejected, Answers
  <2>4. results' \in [CommandIds -> Answers \cup {None}]
    BY <1>8, <2>1, <2>3 DEF CommitRejection, TypeOK
  <2>5. QED
    BY <1>8, <2>2, <2>4, FinishType DEF CommitRejection, TypeOK
<1>9. ASSUME NEW c \in Clients, CommitAcceptance(c) PROVE TypeOK'
  <2> DEFINE t == tx[c]
             n == t.events
             events == Log!Block(t.command.id, t.at, t.state.lastSequence, n)
  <2>1. /\ t.command.id \in CommandIds /\ t.command.print \in Prints /\ t.at \in Times
        /\ t.state.version \in 0 .. MaxSequence /\ t.state.lastSequence \in 0 .. MaxSequence
        /\ n \in 0 .. MaxEvents
    BY <1>9, Fields DEF CommitAcceptance
  <2>2. t.state.lastSequence + n <= MaxSequence /\ t.state.version = t.state.lastSequence
    BY <1>9 DEF CommitAcceptance, Prepared, JournalIsWhole
  <2>3. n \in Nat /\ events \in [1 .. n -> Events]
    <3>1. n \in Nat /\ t.state.lastSequence \in Nat
      BY <2>1, BoundsAssumption
    <3>2. QED
      BY <2>1, <2>2, <3>1, BlockType
  <2>4. [k \in 1 .. n |-> events[k].sequence] \in [1 .. n -> 1 .. MaxSequence]
    BY <2>3 DEF Events
  <2>5. journal' \in Seq(Events) /\ outbox' \in Seq(1 .. MaxSequence)
    BY <1>9, <2>3, <2>4, Appending DEF CommitAcceptance, TypeOK
  <2>6. world' \in Worlds
    <3>1. t.state.version + n \in 0 .. MaxSequence
          /\ t.state.lastSequence + n \in 0 .. MaxSequence
      BY <2>1, <2>2, <2>3, BoundsAssumption
    <3>2. QED
      BY <1>9, <2>1, <3>1 DEF CommitAcceptance, Worlds
  <2>7. Log!Accepted(t.command.print, t.state.version, n) \in Answers
    BY <2>1, <2>2, BoundsAssumption DEF Log!Accepted, Answers
  <2>8. results' \in [CommandIds -> Answers \cup {None}]
    BY <1>9, <2>1, <2>7 DEF CommitAcceptance, TypeOK
  <2>9. Reply("accepted", t.state.version, t.state.version + n) \in Replies
    BY <2>1, <2>2, BoundsAssumption DEF Reply, Replies
  <2>10. QED
    BY <1>9, <2>5, <2>6, <2>8, <2>9, FinishType DEF CommitAcceptance, TypeOK, Log!Accepted
<1>10. ASSUME NEW c \in Clients, Crash(c) PROVE TypeOK'
  BY <1>0, <1>10 DEF Crash, TypeOK, tables
<1>11. CASE UNCHANGED vars
  BY <1>11 DEF vars, TypeOK
<1>12. QED
  BY <1>1, <1>2, <1>3, <1>4, <1>5, <1>6, <1>7, <1>8, <1>9, <1>10, <1>11 DEF Next, Work

(* A step either writes no table and tells nobody anything, or ends a      *)
(* transaction that replays, refuses or commits.                           *)
LEMMA StepKinds ==
  ASSUME [Next]_vars
  PROVE  \/ UNCHANGED <<world, journal, outbox, results, told>>
         \/ \E c \in Clients :
              Replay(c) \/ RecordForeignBody(c) \/ CommitRejection(c) \/ CommitAcceptance(c)
BY DEF Next, Work, vars, tables, Begin, LockWorld, Load, RefuseBackwardTime, Decide, Crash

(* The row of the world is handed from one transaction to the next.        *)
LEMMA LockStep ==
  ASSUME TypeOK, LockHeld, [Next]_vars
  PROVE  LockHeld'
<1>0. Idle.step = "idle" /\ Nobody \notin Clients
  BY BoundsAssumption DEF Idle
<1>1. ASSUME NEW c \in Clients, Begin(c) PROVE LockHeld'
  <2>1. \A command \in Commands, at \in Times : Open(command, at).step = "lock"
    BY DEF Open, Idle
  <2>2. PICK command \in Commands, at \in Times :
          tx' = [tx EXCEPT ![c] = Open(command, at)]
    BY <1>1 DEF Begin
  <2>3. tx'[c].step = "lock" /\ tx[c].step = "idle" /\ lock' = lock
    BY <1>1, <2>1, <2>2 DEF Begin, TypeOK
  <2>4. \A d \in Clients \ {c} : tx'[d] = tx[d]
    BY <2>2 DEF TypeOK
  <2>5. QED
    BY <2>3, <2>4 DEF LockHeld
<1>2. ASSUME NEW c \in Clients, LockWorld(c) PROVE LockHeld'
  <2>1. tx'[c].step = "check" /\ lock' = c /\ lock = Nobody
    BY <1>2 DEF LockWorld, TypeOK, Transactions
  <2>2. \A d \in Clients \ {c} : tx'[d] = tx[d]
    BY <1>2 DEF LockWorld, TypeOK
  <2>3. QED
    BY <1>0, <2>1, <2>2 DEF LockHeld
<1>3. ASSUME NEW c \in Clients, NEW reply, Finish(c, reply), lock = c PROVE LockHeld'
  BY <1>0, <1>3 DEF Finish, LockHeld, TypeOK
<1>4. ASSUME NEW c \in Clients,
             Replay(c) \/ RecordForeignBody(c) \/ CommitRejection(c) \/ CommitAcceptance(c)
      PROVE  LockHeld'
  <2>1. lock = c
    BY <1>4 DEF LockHeld, Replay, RecordForeignBody, CommitRejection, CommitAcceptance
  <2>2. \E reply : Finish(c, reply)
    BY <1>4 DEF Replay, RecordForeignBody, CommitRejection, CommitAcceptance
  <2>3. QED
    BY <1>3, <2>1, <2>2
<1>5. ASSUME NEW c \in Clients, Load(c) PROVE LockHeld'
  <2>1. tx'[c].step = "decide" /\ tx[c].step = "check" /\ lock' = lock
    BY <1>5 DEF Load, TypeOK, Transactions
  <2>2. \A d \in Clients \ {c} : tx'[d] = tx[d]
    BY <1>5 DEF Load, TypeOK
  <2>3. QED
    BY <2>1, <2>2 DEF LockHeld
<1>6. ASSUME NEW c \in Clients, RefuseBackwardTime(c) PROVE LockHeld'
  <2>1. lock = c
    BY <1>6 DEF RefuseBackwardTime, LockHeld
  <2>2. QED
    BY <1>0, <1>6, <2>1 DEF RefuseBackwardTime, LockHeld, TypeOK
<1>7. ASSUME NEW c \in Clients, Decide(c) PROVE LockHeld'
  <2>1. tx'[c].step = "commit" /\ tx[c].step = "decide" /\ lock' = lock
    BY <1>7 DEF Decide, TypeOK, Transactions
  <2>2. \A d \in Clients \ {c} : tx'[d] = tx[d]
    BY <1>7 DEF Decide, TypeOK
  <2>3. QED
    BY <2>1, <2>2 DEF LockHeld
<1>8. ASSUME NEW c \in Clients, Crash(c) PROVE LockHeld'
  <2>1. tx' = [tx EXCEPT ![c] = Idle] /\ lock' = IF lock = c THEN Nobody ELSE lock
    BY <1>8 DEF Crash
  <2>2. QED
    BY <1>0, <2>1 DEF LockHeld, TypeOK
<1>9. CASE UNCHANGED vars
  BY <1>9 DEF vars, LockHeld
<1>10. QED
  BY <1>1, <1>2, <1>4, <1>5, <1>6, <1>7, <1>8, <1>9 DEF Next, Work

(* What holds of one transaction, so that the others can be set aside.     *)
PreparedAt(c) ==
  /\ tx[c].step # "idle" => tx[c].command \in Commands
  /\ tx[c].step \in {"decide", "commit"} =>
       tx[c].state = world /\ results[tx[c].command.id] = None
  /\ tx[c].step = "commit" =>
       /\ tx[c].at >= tx[c].state.time
       /\ tx[c].events > 0 => ~Stale(tx[c].command, tx[c].state)
       /\ tx[c].state.lastSequence + tx[c].events <= MaxSequence

(* A transaction is not disturbed by a step of another one: whoever writes *)
(* the tables has the lock, so nobody else is past it.                     *)
LEMMA Undisturbed ==
  ASSUME TypeOK, LockHeld, Prepared, NEW c \in Clients, NEW d \in Clients, c # d,
         Begin(c) \/ Work(c) \/ Crash(c)
  PROVE  PreparedAt(d)'
<1>1. tx'[d] = tx[d]
  BY DEF Begin, Work, Crash, LockWorld, Replay, RecordForeignBody, Load, RefuseBackwardTime,
         Decide, CommitRejection, CommitAcceptance, Finish, TypeOK
<1>2. tx[d].step \in {"decide", "commit"} => world' = world /\ results' = results
  <2>1. CASE CommitRejection(c) \/ CommitAcceptance(c)
    BY <2>1 DEF LockHeld, CommitRejection, CommitAcceptance
  <2>2. CASE ~(CommitRejection(c) \/ CommitAcceptance(c))
    BY <2>2 DEF Begin, Work, Crash, LockWorld, Replay, RecordForeignBody, Load,
                RefuseBackwardTime, Decide, tables
  <2>3. QED
    BY <2>1, <2>2
<1>3. PreparedAt(d)
  BY DEF Prepared, PreparedAt
<1>4. QED
  BY <1>1, <1>2, <1>3 DEF PreparedAt, Stale, Expected

(* What a transaction loaded and checked still holds after every step.     *)
LEMMA PreparedStep ==
  ASSUME TypeOK, LockHeld, Prepared, [Next]_vars
  PROVE  Prepared'
<1>0. Idle.step = "idle"
  BY DEF Idle
<1>1. ASSUME NEW c \in Clients, Begin(c) PROVE PreparedAt(c)'
  <2>1. PICK command \in Commands, at \in Times :
          tx' = [tx EXCEPT ![c] = Open(command, at)]
    BY <1>1 DEF Begin
  <2>2. Open(command, at).step = "lock" /\ Open(command, at).command = command
    BY DEF Open, Idle
  <2>3. tx'[c] = Open(command, at)
    BY <2>1 DEF TypeOK
  <2>4. QED
    BY <2>2, <2>3 DEF PreparedAt
<1>2. ASSUME NEW c \in Clients, LockWorld(c) PROVE PreparedAt(c)'
  <2>1. tx'[c].step = "check" /\ tx'[c].command = tx[c].command
    BY <1>2 DEF LockWorld, TypeOK, Transactions
  <2>2. tx[c].command \in Commands
    BY <1>2 DEF LockWorld, Prepared
  <2>3. QED
    BY <2>1, <2>2 DEF PreparedAt
<1>3. ASSUME NEW c \in Clients, tx'[c] = Idle PROVE PreparedAt(c)'
  BY <1>0, <1>3 DEF PreparedAt
<1>4. ASSUME NEW c \in Clients, Load(c) PROVE PreparedAt(c)'
  <2>1. tx'[c].step = "decide" /\ tx'[c].command = tx[c].command /\ tx'[c].state = world
        /\ world' = world /\ results' = results
    BY <1>4 DEF Load, TypeOK, Transactions, tables
  <2>2. tx[c].command \in Commands /\ results[tx[c].command.id] = None
    BY <1>4 DEF Load, Prepared
  <2>3. QED
    BY <2>1, <2>2 DEF PreparedAt
<1>5. ASSUME NEW c \in Clients, Decide(c) PROVE PreparedAt(c)'
  <2>1. PICK n \in 0 .. MaxEvents :
          /\ Stale(tx[c].command, tx[c].state) => n = 0
          /\ tx[c].state.lastSequence + n <= MaxSequence
          /\ tx' = [tx EXCEPT ![c] = [@ EXCEPT !.step = "commit", !.events = n]]
    BY <1>5 DEF Decide
  <2>2. /\ tx'[c].step = "commit" /\ tx'[c].command = tx[c].command /\ tx'[c].at = tx[c].at
        /\ tx'[c].state = tx[c].state /\ tx'[c].events = n
        /\ world' = world /\ results' = results
    <3>1. tx \in [Clients -> Transactions] /\ world' = world /\ results' = results
      BY <1>5 DEF Decide, TypeOK, tables
    <3>2. tx'[c] = [tx[c] EXCEPT !.step = "commit", !.events = n]
      BY <2>1, <3>1
    <3>3. QED
      BY <3>1, <3>2 DEF Transactions
  <2>3. /\ tx[c].command \in Commands /\ tx[c].state = world
        /\ results[tx[c].command.id] = None /\ tx[c].at >= tx[c].state.time
    BY <1>5 DEF Decide, Prepared
  <2>4. QED
    BY <2>1, <2>2, <2>3 DEF PreparedAt, Stale, Expected
<1>6. ASSUME NEW c \in Clients, Begin(c) \/ Work(c) \/ Crash(c) PROVE PreparedAt(c)'
  <2>1. CASE Begin(c) \/ LockWorld(c) \/ Load(c) \/ Decide(c)
    BY <2>1, <1>1, <1>2, <1>4, <1>5
  <2>2. CASE ~(Begin(c) \/ LockWorld(c) \/ Load(c) \/ Decide(c))
    <3>1. tx'[c] = Idle
      BY <1>6, <2>2 DEF Work, Replay, RecordForeignBody, RefuseBackwardTime, CommitRejection,
                        CommitAcceptance, Crash, Finish, TypeOK
    <3>2. QED
      BY <3>1, <1>3
  <2>3. QED
    BY <2>1, <2>2
<1>7. ASSUME NEW c \in Clients, Begin(c) \/ Work(c) \/ Crash(c) PROVE Prepared'
  <2>1. \A d \in Clients : PreparedAt(d)'
    BY <1>6, <1>7, Undisturbed
  <2>2. QED
    BY <2>1 DEF Prepared, PreparedAt
<1>8. CASE UNCHANGED vars
  BY <1>8 DEF vars, Prepared, Stale, Expected
<1>9. QED
  BY <1>7, <1>8 DEF Next

(* What the commit of an accepted command does, in terms of the tables it  *)
(* finds: n events of time `at` appended to a journal of length len.       *)
Acceptance(command, len, n, at) ==
  /\ results[command.id] = None /\ ~Stale(command, world)
  /\ world.version = len /\ world.time \in Nat /\ at >= world.time
  /\ Len(journal) = len /\ Len(journal') = len + n
  /\ \A i \in 1 .. len : journal'[i] = journal[i]
  /\ \A i \in len + 1 .. len + n :
       journal'[i] = [sequence |-> i, command |-> command.id, time |-> at]
  /\ outbox' = outbox \o [k \in 1 .. n |-> len + k]
  /\ world' = [version |-> len + n, lastSequence |-> len + n, time |-> at]
  /\ results' = [results EXCEPT ![command.id] =
                   [print |-> command.print, outcome |-> "accepted",
                    before |-> len, after |-> len + n]]

(* The loaded state IS the current one, so the commit overwrites nothing.  *)
LEMMA AcceptanceFacts ==
  ASSUME TypeOK, Prepared, JournalIsWhole, NEW c \in Clients, CommitAcceptance(c)
  PROVE  /\ tx[c].command \in Commands /\ tx[c].command.id \in CommandIds
         /\ tx[c].command.print \in Prints
         /\ tx[c].events \in Nat \ {0} /\ tx[c].events <= MaxEvents
         /\ tx[c].at \in Nat /\ tx[c].at \in Times
         /\ Len(journal) \in Nat
         /\ Acceptance(tx[c].command, Len(journal), tx[c].events, tx[c].at)
<1> DEFINE t == tx[c]
           events == Log!Block(t.command.id, t.at, Len(journal), t.events)
<1>1. /\ t.command \in Commands /\ t.command.id \in CommandIds /\ t.command.print \in Prints
      /\ t.at \in Times /\ t.events \in 0 .. MaxEvents
  <2>1. t.step # "idle"
    BY DEF CommitAcceptance
  <2>2. QED
    BY <2>1, Fields
<1>2. t.events > 0 /\ t.events \in Nat /\ t.events <= MaxEvents /\ t.at \in Nat
  <2>1. t.events > 0
    BY DEF CommitAcceptance
  <2>2. t.events \in 0 .. MaxEvents /\ MaxEvents \in Nat
    BY <1>1, BoundsAssumption
  <2>3. t.events \in Nat /\ t.events <= MaxEvents
    BY <2>2
  <2>4. t.at \in Nat
    BY <1>1, BoundsAssumption
  <2>5. QED
    BY <2>1, <2>3, <2>4
<1>3. /\ results[t.command.id] = None /\ t.state = world /\ t.at >= t.state.time
      /\ ~Stale(t.command, t.state) /\ t.state.lastSequence + t.events <= MaxSequence
  <2>1. t.step = "commit" /\ t.events > 0
    BY DEF CommitAcceptance
  <2>2. QED
    BY <2>1 DEF Prepared
<1>4. /\ world.version = Len(journal) /\ world.lastSequence = Len(journal)
      /\ Len(journal) \in Nat /\ world.time \in Nat
  <2>1. world.time \in Times
    BY DEF TypeOK, Worlds
  <2>2. Len(journal) \in Nat
    BY DEF TypeOK
  <2>3. QED
    BY <2>1, <2>2, BoundsAssumption DEF JournalIsWhole
<1>5. events \in [1 .. t.events -> Events]
  BY <1>1, <1>2, <1>3, <1>4, BlockType
<1>6. journal' = journal \o events /\ journal \in Seq(Events)
  BY <1>3, <1>4 DEF CommitAcceptance, TypeOK
<1>7. /\ Len(journal') = Len(journal) + t.events
      /\ \A i \in 1 .. Len(journal) : journal'[i] = journal[i]
      /\ \A i \in Len(journal) + 1 .. Len(journal) + t.events :
           journal'[i] = events[i - Len(journal)]
  BY <1>2, <1>5, <1>6, Appending
<1>8. \A k \in 1 .. t.events :
        events[k] = [sequence |-> Len(journal) + k, command |-> t.command.id, time |-> t.at]
  BY DEF Log!Block
<1>9. \A i \in Len(journal) + 1 .. Len(journal) + t.events :
        journal'[i] = [sequence |-> i, command |-> t.command.id, time |-> t.at]
  <2>1. TAKE i \in Len(journal) + 1 .. Len(journal) + t.events
  <2>2. i - Len(journal) \in 1 .. t.events /\ Len(journal) + (i - Len(journal)) = i
    BY <1>2, <1>4
  <2>3. QED
    BY <1>7, <1>8, <2>2
<1>10. world' = [version |-> Len(journal) + t.events, lastSequence |-> Len(journal) + t.events,
                 time |-> t.at]
  BY <1>3, <1>4 DEF CommitAcceptance
<1>11. results' = [results EXCEPT ![t.command.id] =
                     [print |-> t.command.print, outcome |-> "accepted",
                      before |-> Len(journal), after |-> Len(journal) + t.events]]
  BY <1>3, <1>4 DEF CommitAcceptance, Log!Accepted
<1>12. outbox' = outbox \o [k \in 1 .. t.events |-> Len(journal) + k]
  <2>1. outbox' = outbox \o [k \in 1 .. t.events |-> events[k].sequence]
    BY <1>3, <1>4 DEF CommitAcceptance
  <2>2. [k \in 1 .. t.events |-> events[k].sequence] = [k \in 1 .. t.events |-> Len(journal) + k]
    <3>1. \A k \in 1 .. t.events : events[k].sequence = Len(journal) + k
      BY DEF Log!Block
    <3>2. QED
      BY <3>1
  <2>3. QED
    BY <2>1, <2>2
<1>13. QED
  BY <1>1, <1>2, <1>3, <1>4, <1>7, <1>9, <1>10, <1>11, <1>12 DEF Acceptance

(* The journal, the outbox and the row of the world stay in step.          *)
LEMMA AcceptanceKeepsJournal ==
  ASSUME TypeOK, TypeOK', JournalIsWhole, NEW command, NEW len \in Nat, NEW n \in Nat \ {0},
         NEW at \in Nat, Acceptance(command, len, n, at)
  PROVE  JournalIsWhole'
<1>1. /\ journal \in Seq(Events) /\ DOMAIN journal = 1 .. len
      /\ journal' \in Seq(Events) /\ DOMAIN journal' = 1 .. len + n
  BY DEF TypeOK, Acceptance
<1>2. \A i \in 1 .. len : journal[i].sequence = i /\ journal[i].time \in Nat
  <2>1. TAKE i \in 1 .. len
  <2>2. journal[i] \in Events
    BY <1>1, <2>1
  <2>3. journal[i].sequence = i
    BY <1>1, <2>1 DEF JournalIsWhole
  <2>4. QED
    BY <2>2, <2>3, BoundsAssumption DEF Events
<1>3. \A i \in 1 .. len : journal'[i] = journal[i]
  BY DEF Acceptance
<1>4. \A i \in len + 1 .. len + n : journal'[i].sequence = i /\ journal'[i].time = at
  <2>1. TAKE i \in len + 1 .. len + n
  <2>2. journal'[i] = [sequence |-> i, command |-> command.id, time |-> at]
    BY <2>1 DEF Acceptance
  <2>3. QED
    BY <2>2
<1>5. \A i \in 1 .. len : journal[i].time <= at
  <2>1. TAKE i \in 1 .. len
  <2>2. journal # <<>> /\ Len(journal) = len /\ len \in 1 .. len /\ i <= len
    BY <1>1, <2>1
  <2>3. world.time = journal[len].time /\ journal[i].time <= journal[len].time
    BY <1>1, <2>1, <2>2 DEF JournalIsWhole
  <2>4. QED
    BY <1>2, <2>1, <2>2, <2>3 DEF Acceptance
<1>6. \A i \in 1 .. len + n : journal'[i].sequence = i
  BY <1>2, <1>3, <1>4
<1>7. \A i, j \in 1 .. len + n : i <= j => journal'[i].time <= journal'[j].time
  <2>1. SUFFICES ASSUME NEW i \in 1 .. len + n, NEW j \in 1 .. len + n, i <= j
                 PROVE  journal'[i].time <= journal'[j].time
    OBVIOUS
  <2>2. CASE j <= len
    <3>1. i \in 1 .. len /\ j \in 1 .. len
      BY <2>1, <2>2
    <3>2. QED
      BY <1>1, <1>3, <2>1, <3>1 DEF JournalIsWhole
  <2>3. CASE j > len /\ i <= len
    <3>1. i \in 1 .. len /\ j \in len + 1 .. len + n
      BY <2>1, <2>3
    <3>2. QED
      BY <1>3, <1>4, <1>5, <3>1
  <2>4. CASE i > len
    <3>1. i \in len + 1 .. len + n /\ j \in len + 1 .. len + n
      BY <2>1, <2>4
    <3>2. QED
      BY <1>4, <3>1
  <2>5. QED
    BY <2>2, <2>3, <2>4
<1>8. outbox' = [i \in 1 .. len + n |-> i]
  <2>1. outbox = [i \in 1 .. len |-> i]
    BY <1>1 DEF JournalIsWhole
  <2>2. outbox' = [i \in 1 .. len |-> i] \o [k \in 1 .. n |-> len + k]
    BY <2>1 DEF Acceptance
  <2>3. QED
    BY <2>2
<1>9. /\ world'.version = Len(journal') /\ world'.lastSequence = Len(journal')
      /\ world'.time = journal'[Len(journal')].time
  <2>1. Len(journal') = len + n /\ len + n \in len + 1 .. len + n
    BY DEF Acceptance
  <2>2. QED
    BY <1>4, <2>1 DEF Acceptance
<1>10. QED
  BY <1>1, <1>6, <1>7, <1>8, <1>9 DEF JournalIsWhole

LEMMA JournalStep ==
  ASSUME TypeOK, Prepared, JournalIsWhole, [Next]_vars
  PROVE  JournalIsWhole'
<1>1. CASE UNCHANGED <<world, journal, outbox>>
  BY <1>1 DEF JournalIsWhole
<1>2. ASSUME NEW c \in Clients, CommitAcceptance(c) PROVE JournalIsWhole'
  BY <1>2, AcceptanceFacts, TypeStep, AcceptanceKeepsJournal
<1>3. QED
  BY <1>1, <1>2, StepKinds DEF Replay, RecordForeignBody, CommitRejection, tables

(* A command that was accepted is recorded for the block it appended.      *)
LEMMA AcceptanceKeepsAnswers ==
  ASSUME TypeOK, AnswersInJournal, EffectOnce, AcceptedAsExpected,
         NEW command \in Commands, command.id \in CommandIds, NEW len \in Nat,
         NEW n \in Nat \ {0}, NEW at \in Nat, Acceptance(command, len, n, at)
  PROVE  AnswersInJournal' /\ EffectOnce' /\ AcceptedAsExpected'
<1> DEFINE answer == [print |-> command.print, outcome |-> "accepted",
                      before |-> len, after |-> len + n]
<1>1. /\ results'[command.id] = answer
      /\ \A id \in CommandIds \ {command.id} : results'[id] = results[id]
      /\ results[command.id] = None /\ Len(journal) = len /\ Len(journal') = len + n
      /\ DOMAIN journal = 1 .. len
  BY DEF Acceptance, TypeOK
<1>2. \A id \in CommandIds : results[id] # None =>
        /\ results[id].before \in Nat /\ results[id].after \in Nat
        /\ results[id].before <= results[id].after /\ results[id].after <= len
        /\ results[id].outcome = "rejected" => results[id].before = results[id].after
  <2>1. TAKE id \in CommandIds
  <2>2. HAVE results[id] # None
  <2>3. results[id] \in Answers
    BY <2>1, <2>2 DEF TypeOK
  <2>4. results[id].before \in Nat /\ results[id].after \in Nat
    BY <2>3, BoundsAssumption DEF Answers
  <2>5. QED
    BY <1>1, <2>1, <2>2, <2>4 DEF AnswersInJournal
<1>3. answer # None
  <2>1. command.print \in Intents \X Expectations
    BY DEF Commands, Prints
  <2>2. answer \in [print : Intents \X Expectations, outcome : {"accepted", "rejected"},
                    before : Nat, after : Nat]
    BY <2>1
  <2>3. QED
    BY <2>2, NoneAssumption
<1>4. AnswersInJournal'
  <2>1. SUFFICES ASSUME NEW id \in CommandIds, results'[id] # None
                 PROVE  /\ results'[id].before <= results'[id].after
                        /\ results'[id].after <= Len(journal')
                        /\ results'[id].outcome = "rejected" =>
                             results'[id].before = results'[id].after
    BY DEF AnswersInJournal
  <2>2. CASE id = command.id
    BY <1>1, <2>2
  <2>3. CASE id # command.id
    BY <1>1, <1>2, <2>1, <2>3
  <2>4. QED
    BY <2>2, <2>3
<1>5. EffectOnce'
  <2>1. DOMAIN journal' = 1 .. len + n
    BY <1>1 DEF Acceptance
  <2>2. SUFFICES ASSUME NEW i \in 1 .. len + n, NEW id \in CommandIds
                 PROVE  journal'[i].command = id <=>
                          /\ results'[id] # None
                          /\ results'[id].before < i /\ i <= results'[id].after
    BY <2>1 DEF EffectOnce
  <2>3. CASE i <= len
    <3>1. i \in 1 .. len /\ journal'[i] = journal[i]
      BY <2>2, <2>3 DEF Acceptance
    <3>2. journal[i].command = id <=>
            results[id] # None /\ results[id].before < i /\ i <= results[id].after
      BY <1>1, <3>1 DEF EffectOnce
    <3>3. CASE id = command.id
      <4>1. journal[i].command # id
        BY <1>1, <3>2, <3>3
      <4>2. QED
        BY <1>1, <2>3, <3>1, <3>3, <4>1
    <3>4. CASE id # command.id
      BY <1>1, <3>1, <3>2, <3>4
    <3>5. QED
      BY <3>3, <3>4
  <2>4. CASE i > len
    <3>1. i \in len + 1 .. len + n
      BY <2>2, <2>4
    <3>2. journal'[i].command = command.id
      <4>1. journal'[i] = [sequence |-> i, command |-> command.id, time |-> at]
        BY <3>1 DEF Acceptance
      <4>2. QED
        BY <4>1
    <3>3. CASE id = command.id
      BY <1>1, <1>3, <2>2, <2>4, <3>2, <3>3
    <3>4. CASE id # command.id
      BY <1>1, <1>2, <2>4, <3>2, <3>4
    <3>5. QED
      BY <3>3, <3>4
  <2>5. QED
    BY <2>2, <2>3, <2>4
<1>6. AcceptedAsExpected'
  <2>1. SUFFICES ASSUME NEW id \in CommandIds, results'[id] # None,
                        results'[id].outcome = "accepted"
                 PROVE  results'[id].print[2] \in {Unchecked, results'[id].before}
    BY DEF AcceptedAsExpected
  <2>2. CASE id = command.id
    <3>1. command.print[2] \in {Unchecked, len}
      BY DEF Acceptance, Stale, Expected
    <3>2. QED
      BY <1>1, <2>2, <3>1
  <2>3. CASE id # command.id
    BY <1>1, <2>1, <2>3 DEF AcceptedAsExpected
  <2>4. QED
    BY <2>2, <2>3
<1>7. QED
  BY <1>4, <1>5, <1>6

(* A rejection is recorded for no event at all.                            *)
LEMMA RejectionKeepsAnswers ==
  ASSUME TypeOK, Prepared, JournalIsWhole, AnswersInJournal, EffectOnce, AcceptedAsExpected,
         NEW c \in Clients, CommitRejection(c)
  PROVE  AnswersInJournal' /\ EffectOnce' /\ AcceptedAsExpected'
<1> DEFINE command == tx[c].command
           len == Len(journal)
           answer == [print |-> command.print, outcome |-> "rejected",
                      before |-> len, after |-> len]
<1>1. command.id \in CommandIds /\ results[command.id] = None /\ len \in Nat
      /\ tx[c].state.version = len
  <2>1. tx[c].step = "commit"
    BY DEF CommitRejection
  <2>2. QED
    BY <2>1, Fields DEF Prepared, JournalIsWhole, TypeOK
<1>2. results' = [results EXCEPT ![command.id] = answer] /\ journal' = journal
  BY <1>1 DEF CommitRejection, Log!Rejected
<1>3. /\ results'[command.id] = answer
      /\ \A id \in CommandIds \ {command.id} : results'[id] = results[id]
  BY <1>1, <1>2 DEF TypeOK
<1>4. AnswersInJournal'
  <2>1. SUFFICES ASSUME NEW id \in CommandIds, results'[id] # None
                 PROVE  /\ results'[id].before <= results'[id].after
                        /\ results'[id].after <= Len(journal)
                        /\ results'[id].outcome = "rejected" =>
                             results'[id].before = results'[id].after
    BY <1>2 DEF AnswersInJournal
  <2>2. CASE id = command.id
    BY <1>1, <1>3, <2>2
  <2>3. CASE id # command.id
    BY <1>3, <2>1, <2>3 DEF AnswersInJournal
  <2>4. QED
    BY <2>2, <2>3
<1>5. EffectOnce'
  <2>1. SUFFICES ASSUME NEW i \in DOMAIN journal, NEW id \in CommandIds
                 PROVE  journal[i].command = id <=>
                          /\ results'[id] # None
                          /\ results'[id].before < i /\ i <= results'[id].after
    BY <1>2 DEF EffectOnce
  <2>2. i \in 1 .. len /\ (journal[i].command = id <=>
          results[id] # None /\ results[id].before < i /\ i <= results[id].after)
    BY DEF EffectOnce, TypeOK
  <2>3. CASE id = command.id
    <3>1. journal[i].command # id
      BY <1>1, <2>2, <2>3
    <3>2. ~(len < i)
      BY <1>1, <2>2
    <3>3. QED
      BY <1>3, <2>3, <3>1, <3>2
  <2>4. CASE id # command.id
    BY <1>3, <2>2, <2>4
  <2>5. QED
    BY <2>3, <2>4
<1>6. AcceptedAsExpected'
  BY <1>3 DEF AcceptedAsExpected
<1>7. QED
  BY <1>4, <1>5, <1>6

(* Answers are recorded once, for the events they stand for.               *)
LEMMA AnswersStep ==
  ASSUME TypeOK, Prepared, JournalIsWhole, AnswersInJournal, EffectOnce, AcceptedAsExpected,
         [Next]_vars
  PROVE  AnswersInJournal' /\ EffectOnce' /\ AcceptedAsExpected'
<1>1. CASE UNCHANGED <<journal, results>>
  BY <1>1 DEF AnswersInJournal, EffectOnce, AcceptedAsExpected
<1>2. ASSUME NEW c \in Clients, CommitAcceptance(c)
      PROVE  AnswersInJournal' /\ EffectOnce' /\ AcceptedAsExpected'
  BY <1>2, AcceptanceFacts, AcceptanceKeepsAnswers
<1>3. QED
  BY <1>1, <1>2, StepKinds, RejectionKeepsAnswers DEF Replay, RecordForeignBody, tables

(* What ToldWhatIsRecorded says of one command.                            *)
ToldRight(command) ==
  told[command] # None =>
    LET stored == results[command.id]
    IN /\ stored # None
       /\ IF told[command].outcome = "mismatch" THEN stored.print # command.print
          ELSE /\ stored.print = command.print
               /\ told[command] = Reply(stored.outcome, stored.before, stored.after)

(* A client that is told something is told what is then on record.         *)
LEMMA ToldByFinish ==
  ASSUME TypeOK, ToldWhatIsRecorded, NEW c \in Clients, NEW reply, Finish(c, reply),
         tx[c].command \in Commands,
         \A id \in CommandIds : results[id] # None => results'[id] = results[id],
         LET stored == results'[tx[c].command.id]
         IN /\ stored # None
            /\ IF reply.outcome = "mismatch" THEN stored.print # tx[c].command.print
               ELSE /\ stored.print = tx[c].command.print
                    /\ reply = Reply(stored.outcome, stored.before, stored.after)
  PROVE  ToldWhatIsRecorded'
<1>1. SUFFICES ASSUME NEW command \in Commands PROVE ToldRight(command)'
  BY DEF ToldWhatIsRecorded, ToldRight
<1>2. ToldRight(command) /\ command.id \in CommandIds
  BY DEF ToldWhatIsRecorded, ToldRight, Commands
<1>3. CASE told'[command] = told[command]
  <2>1. told[command] # None => results'[command.id] = results[command.id]
    BY <1>2 DEF ToldRight
  <2>2. QED
    BY <1>2, <1>3, <2>1 DEF ToldRight
<1>4. CASE told'[command] # told[command]
  <2>1. command = tx[c].command /\ told'[command] = reply
    BY <1>4 DEF Finish, TypeOK
  <2>2. QED
    BY <2>1 DEF ToldRight
<1>5. QED
  BY <1>3, <1>4

LEMMA ToldStep ==
  ASSUME TypeOK, Prepared, JournalIsWhole, ToldWhatIsRecorded, [Next]_vars
  PROVE  ToldWhatIsRecorded'
<1>1. CASE UNCHANGED <<results, told>>
  BY <1>1 DEF ToldWhatIsRecorded
<1>2. ASSUME NEW c \in Clients, Replay(c) PROVE ToldWhatIsRecorded'
  <2> DEFINE stored == results[tx[c].command.id]
             reply == Reply(stored.outcome, stored.before, stored.after)
  <2>1. tx[c].command \in Commands /\ tx[c].command.id \in CommandIds
    BY <1>2, Fields DEF Replay
  <2>2. stored # None /\ stored.print = tx[c].command.print /\ Finish(c, reply)
        /\ results' = results
    BY <1>2 DEF Replay, tables
  <2>3. stored \in Answers
    BY <2>1, <2>2 DEF TypeOK
  <2>4. reply.outcome # "mismatch"
    BY <2>3 DEF Reply, Answers
  <2>5. QED
    BY <2>1, <2>2, <2>4, ToldByFinish
<1>3. ASSUME NEW c \in Clients, RecordForeignBody(c) PROVE ToldWhatIsRecorded'
  <2> DEFINE reply == Reply("mismatch", world.version, world.version)
  <2>1. tx[c].command \in Commands /\ tx[c].command.id \in CommandIds
    BY <1>3, Fields DEF RecordForeignBody
  <2>2. /\ results[tx[c].command.id] # None /\ Finish(c, reply) /\ results' = results
        /\ results[tx[c].command.id].print # tx[c].command.print
    BY <1>3 DEF RecordForeignBody
  <2>3. reply.outcome = "mismatch"
    BY DEF Reply
  <2>4. QED
    BY <2>1, <2>2, <2>3, ToldByFinish
<1>4. ASSUME NEW c \in Clients, NEW outcome \in {"accepted", "rejected"}, NEW before, NEW after,
             tx[c].command \in Commands, tx[c].command.id \in CommandIds,
             results[tx[c].command.id] = None, results'[tx[c].command.id] # None,
             results' = [results EXCEPT ![tx[c].command.id] =
               [print |-> tx[c].command.print, outcome |-> outcome,
                before |-> before, after |-> after]],
             Finish(c, Reply(outcome, before, after))
      PROVE  ToldWhatIsRecorded'
  <2> DEFINE reply == Reply(outcome, before, after)
  <2>1. results'[tx[c].command.id] = [print |-> tx[c].command.print, outcome |-> outcome,
                                      before |-> before, after |-> after]
    BY <1>4 DEF TypeOK
  <2>2. \A id \in CommandIds : results[id] # None => results'[id] = results[id]
    BY <1>4 DEF TypeOK
  <2>3. reply.outcome # "mismatch"
    BY <1>4 DEF Reply
  <2>4. QED
    BY <1>4, <2>1, <2>2, <2>3, ToldByFinish
<1>5. ASSUME NEW c \in Clients, CommitRejection(c) PROVE ToldWhatIsRecorded'
  <2> DEFINE t == tx[c]
  <2>1. t.command \in Commands /\ t.command.id \in CommandIds /\ t.command.print \in Prints
        /\ t.state.version \in Nat
    BY <1>5, Fields, BoundsAssumption DEF CommitRejection
  <2>2. results[t.command.id] = None
    BY <1>5 DEF CommitRejection, Prepared
  <2>3. /\ results' = [results EXCEPT ![t.command.id] =
             [print |-> t.command.print, outcome |-> "rejected",
              before |-> t.state.version, after |-> t.state.version]]
        /\ Finish(c, Reply("rejected", t.state.version, t.state.version))
    BY <1>5 DEF CommitRejection, Log!Rejected
  <2>4. results'[t.command.id] # None
    <3>1. [print |-> t.command.print, outcome |-> "rejected", before |-> t.state.version,
           after |-> t.state.version]
            \in [print : Intents \X Expectations, outcome : {"accepted", "rejected"},
                 before : Nat, after : Nat]
      BY <2>1 DEF Prints
    <3>2. QED
      BY <2>1, <2>3, <3>1, NoneAssumption DEF TypeOK
  <2>5. QED
    BY <1>4, <2>1, <2>2, <2>3, <2>4
<1>6. ASSUME NEW c \in Clients, CommitAcceptance(c) PROVE ToldWhatIsRecorded'
  <2> DEFINE t == tx[c]
             len == Len(journal)
  <2>1. /\ t.command \in Commands /\ t.command.id \in CommandIds /\ t.command.print \in Prints
        /\ len \in Nat /\ t.events \in Nat
        /\ Acceptance(t.command, len, t.events, t.at)
    BY <1>6, AcceptanceFacts
  <2>2. /\ results[t.command.id] = None
        /\ results' = [results EXCEPT ![t.command.id] =
             [print |-> t.command.print, outcome |-> "accepted",
              before |-> len, after |-> len + t.events]]
    BY <2>1 DEF Acceptance
  <2>3. t.state.version = len
    BY <1>6 DEF CommitAcceptance, Prepared, JournalIsWhole
  <2>4. Finish(c, Reply("accepted", len, len + t.events))
    BY <1>6, <2>3 DEF CommitAcceptance, Log!Accepted
  <2>5. results'[t.command.id] # None
    <3>1. [print |-> t.command.print, outcome |-> "accepted", before |-> len,
           after |-> len + t.events]
            \in [print : Intents \X Expectations, outcome : {"accepted", "rejected"},
                 before : Nat, after : Nat]
      BY <2>1 DEF Prints
    <3>2. QED
      BY <2>1, <2>2, <3>1, NoneAssumption DEF TypeOK
  <2>6. QED
    BY <1>4, <2>1, <2>2, <2>4, <2>5
<1>7. QED
  BY <1>1, <1>2, <1>3, <1>5, <1>6, StepKinds

-----------------------------------------------------------------------------
(* The invariant is inductive.                                             *)
LEMMA Invariance == Spec => []IInv
<1>1. IInv /\ [Next]_vars => IInv'
  BY TypeStep, LockStep, PreparedStep, JournalStep, AnswersStep, ToldStep DEF IInv
<1>2. QED
  BY <1>1, InitIInv, PTL DEF Spec

(* Every variable of the command handler keeps its type.                   *)
THEOREM TypeCorrectness == Spec => []TypeOK
<1>1. IInv => TypeOK
  BY DEF IInv
<1>2. QED
  BY <1>1, Invariance, PTL

(* The world row, the journal and the outbox never disagree: numbers have  *)
(* no gap, each event is offered once and in order, time does not go back. *)
THEOREM WholeJournal == Spec => []JournalIsWhole
<1>1. IInv => JournalIsWhole
  BY DEF IInv
<1>2. QED
  BY <1>1, Invariance, PTL

(* A command has its effect at most once, however often and by however many*)
(* clients it is sent: its events are those its recorded answer names.     *)
THEOREM OneEffectPerCommand == Spec => []EffectOnce
<1>1. IInv => EffectOnce
  BY DEF IInv
<1>2. QED
  BY <1>1, Invariance, PTL

(* An answer a client received is the answer on record, for good.          *)
THEOREM TruthfulAnswers == Spec => []ToldWhatIsRecorded
<1>1. IInv => ToldWhatIsRecorded
  BY DEF IInv
<1>2. QED
  BY <1>1, Invariance, PTL

(* A command that names a version is accepted at no other version.         *)
THEOREM OptimisticConcurrency == Spec => []AcceptedAsExpected
<1>1. IInv => AcceptedAsExpected
  BY DEF IInv
<1>2. QED
  BY <1>1, Invariance, PTL

(* Whoever works on the world has its row, and whoever is gone has left it. *)
THEOREM WorldIsReleased == Spec => []LockHeld
<1>1. IInv => LockHeld
  BY DEF IInv
<1>2. QED
  BY <1>1, Invariance, PTL

(* An answer on record is never overwritten.                               *)
LEMMA ResultsStay ==
  ASSUME TypeOK, Prepared, JournalIsWhole, [Next]_vars,
         NEW id \in CommandIds, results[id] # None
  PROVE  results'[id] = results[id]
<1>1. ASSUME NEW c \in Clients, CommitRejection(c) PROVE results'[id] = results[id]
  BY <1>1 DEF CommitRejection, Prepared, TypeOK
<1>2. ASSUME NEW c \in Clients, CommitAcceptance(c) PROVE results'[id] = results[id]
  BY <1>2, AcceptanceFacts DEF Acceptance, TypeOK
<1>3. QED
  BY <1>1, <1>2, StepKinds DEF Replay, RecordForeignBody, tables

(* Whoever is answered is answered with a reply.                           *)
LEMMA TypedReply ==
  ASSUME TypeOK, Prepared, JournalIsWhole, NEW c \in Clients,
         Replay(c) \/ RecordForeignBody(c) \/ CommitRejection(c) \/ CommitAcceptance(c)
  PROVE  \E reply \in Replies : Finish(c, reply)
<1>1. CASE Replay(c)
  <2> DEFINE stored == results[tx[c].command.id]
  <2>1. stored \in Answers /\ Finish(c, Reply(stored.outcome, stored.before, stored.after))
    BY <1>1, Fields DEF Replay, TypeOK
  <2>2. Reply(stored.outcome, stored.before, stored.after) \in Replies
    BY <2>1 DEF Reply, Replies, Answers
  <2>3. QED
    BY <2>1, <2>2
<1>2. CASE RecordForeignBody(c)
  <2>1. Reply("mismatch", world.version, world.version) \in Replies
    BY DEF Reply, Replies, TypeOK, Worlds
  <2>2. QED
    BY <1>2, <2>1 DEF RecordForeignBody
<1>3. CASE CommitRejection(c)
  <2>1. tx[c].state.version \in 0 .. MaxSequence
    BY <1>3, Fields DEF CommitRejection
  <2>2. Reply("rejected", tx[c].state.version, tx[c].state.version) \in Replies
    BY <2>1 DEF Reply, Replies
  <2>3. QED
    BY <1>3, <2>2 DEF CommitRejection
<1>4. CASE CommitAcceptance(c)
  <2> DEFINE t == tx[c]
  <2>1. /\ t.state.version \in 0 .. MaxSequence /\ t.events \in 0 .. MaxEvents
        /\ t.state.lastSequence + t.events <= MaxSequence
        /\ t.state.version = t.state.lastSequence
    <3>1. t.step = "commit"
      BY <1>4 DEF CommitAcceptance
    <3>2. QED
      BY <3>1, Fields DEF Prepared, JournalIsWhole
  <2>2. t.state.version + t.events \in 0 .. MaxSequence
    BY <2>1, BoundsAssumption
  <2>3. Reply("accepted", t.state.version, t.state.version + t.events) \in Replies
    BY <2>1, <2>2 DEF Reply, Replies
  <2>4. QED
    BY <1>4, <2>3 DEF CommitAcceptance, Log!Accepted
<1>5. QED
  BY <1>1, <1>2, <1>3, <1>4

(* A retry is told what the first attempt was told, whatever the world has *)
(* become in between.                                                      *)
THEOREM StableAnswers == Spec => AnswersNeverChange
<1> DEFINE Stays(command) ==
      told[command] # None =>
        /\ told'[command].outcome = told[command].outcome
        /\ told[command].outcome # "mismatch" => told'[command] = told[command]
<1>1. ASSUME IInv, IInv', [Next]_vars, NEW command \in Commands PROVE Stays(command)
  <2>1. SUFFICES ASSUME told[command] # None, told'[command] # told[command]
                 PROVE  /\ told'[command].outcome = told[command].outcome
                        /\ told[command].outcome # "mismatch" => told'[command] = told[command]
    OBVIOUS
  <2>2. ToldRight(command) /\ ToldRight(command)'
    BY <1>1 DEF IInv, ToldWhatIsRecorded, ToldRight
  <2>3. results'[command.id] = results[command.id]
    BY <1>1, <2>1, <2>2, ResultsStay DEF IInv, ToldRight, Commands
  <2>4. told'[command] # None
    <3>1. PICK c \in Clients, reply \in Replies : Finish(c, reply)
      BY <1>1, <2>1, StepKinds, TypedReply DEF IInv
    <3>2. told'[command] = reply
      BY <1>1, <2>1, <3>1 DEF Finish, IInv, TypeOK
    <3>3. reply # None
      <4>1. reply \in [outcome : {"accepted", "rejected", "mismatch"}, before : Nat, after : Nat]
        BY <3>1, BoundsAssumption DEF Replies
      <4>2. QED
        BY <4>1, NoneAssumption
    <3>4. QED
      BY <3>2, <3>3
  <2>5. QED
    BY <2>1, <2>2, <2>3, <2>4 DEF ToldRight, Reply
<1>2. IInv /\ IInv' /\ [Next]_vars => [\A command \in Commands : Stays(command)]_told
  BY <1>1
<1>3. QED
  BY <1>2, Invariance, PTL DEF Spec, AnswersNeverChange

(* Trimming keeps the attempt that was just added, and never too many.     *)
LEMMA LatestKeepsTheLast ==
  ASSUME NEW log \in Seq(Prints), NEW print \in Prints
  PROVE  LET kept == Latest(Append(log, print))
         IN 0 < Len(kept) /\ Len(kept) <= MaxAttempts /\ kept[Len(kept)] = print
<1> DEFINE longer == Append(log, print)
           n == Len(longer)
           from == IF n > MaxAttempts THEN n - MaxAttempts + 1 ELSE 1
<1>1. longer \in Seq(Prints) /\ n \in Nat \ {0} /\ longer[n] = print
  OBVIOUS
<1>2. MaxAttempts \in Nat \ {0}
  BY BoundsAssumption
<1>3. from \in 1 .. n /\ n - from + 1 <= MaxAttempts
  BY <1>1, <1>2
<1>4. SubSeq(longer, from, n) = [i \in 1 .. n - from + 1 |-> longer[i + from - 1]]
  BY <1>1, <1>3
<1>5. Len(SubSeq(longer, from, n)) = n - from + 1
  BY <1>1, <1>3
<1>6. SubSeq(longer, from, n)[n - from + 1] = print
  BY <1>1, <1>3, <1>4
<1>7. Latest(longer) = SubSeq(longer, from, n)
  BY DEF Latest
<1>8. QED
  BY <1>1, <1>3, <1>5, <1>6, <1>7

(* Only a foreign body is answered with a mismatch.                        *)
LEMMA OnlyForeignBodies ==
  ASSUME TypeOK, Prepared, [Next]_vars, NEW command \in Commands,
         told'[command] # told[command], told'[command].outcome = "mismatch"
  PROVE  \E c \in Clients : RecordForeignBody(c) /\ tx[c].command = command
<1>1. ASSUME NEW c \in Clients, NEW reply, Finish(c, reply)
      PROVE  tx[c].command = command /\ reply.outcome = "mismatch"
  BY <1>1 DEF Finish, TypeOK
<1>2. ASSUME NEW c \in Clients, Replay(c) PROVE FALSE
  <2> DEFINE stored == results[tx[c].command.id]
  <2>1. stored \in Answers /\ Finish(c, Reply(stored.outcome, stored.before, stored.after))
    BY <1>2, Fields DEF Replay, TypeOK
  <2>2. Reply(stored.outcome, stored.before, stored.after).outcome # "mismatch"
    BY <2>1 DEF Reply, Answers
  <2>3. QED
    BY <1>1, <2>1, <2>2
<1>3. ASSUME NEW c \in Clients, CommitRejection(c) PROVE FALSE
  BY <1>1, <1>3 DEF CommitRejection, Reply
<1>4. ASSUME NEW c \in Clients, CommitAcceptance(c) PROVE FALSE
  <2>1. \E before, after : Finish(c, Reply("accepted", before, after))
    BY <1>4 DEF CommitAcceptance
  <2>2. QED
    BY <1>1, <2>1 DEF Reply
<1>5. PICK c \in Clients : RecordForeignBody(c)
  BY <1>2, <1>3, <1>4, StepKinds
<1>6. tx[c].command = command
  BY <1>1, <1>5 DEF RecordForeignBody
<1>7. QED
  BY <1>5, <1>6

(* Who is told that its body is foreign finds it as the newest attempt.    *)
THEOREM RefusalsLeaveATrace == Spec => AttemptsKeepNewest
<1> DEFINE Traced(command) ==
      told'[command] # told[command] /\ told'[command].outcome = "mismatch" =>
        LET log == attempts'[command.id]
        IN /\ 0 < Len(log) /\ Len(log) <= MaxAttempts
           /\ log[Len(log)] = command.print
           /\ results[command.id].print # command.print
<1>1. ASSUME IInv, [Next]_vars, NEW command \in Commands PROVE Traced(command)
  <2>1. SUFFICES ASSUME told'[command] # told[command], told'[command].outcome = "mismatch"
                 PROVE  LET log == attempts'[command.id]
                        IN /\ 0 < Len(log) /\ Len(log) <= MaxAttempts
                           /\ log[Len(log)] = command.print
                           /\ results[command.id].print # command.print
    OBVIOUS
  <2>2. PICK c \in Clients : RecordForeignBody(c) /\ tx[c].command = command
    BY <1>1, <2>1, OnlyForeignBodies DEF IInv
  <2>3. command.id \in CommandIds /\ command.print \in Prints
    BY DEF Commands
  <2>4. attempts[command.id] \in Seq(Prints)
    BY <1>1, <2>3 DEF IInv, TypeOK
  <2>5. attempts'[command.id] = Latest(Append(attempts[command.id], command.print))
    BY <1>1, <2>2, <2>3 DEF RecordForeignBody, IInv, TypeOK
  <2>6. results[command.id].print # command.print
    BY <2>2 DEF RecordForeignBody
  <2>7. QED
    BY <2>3, <2>4, <2>5, <2>6, LatestKeepsTheLast
<1>2. IInv /\ [Next]_vars => [\A command \in Commands : Traced(command)]_told
  BY <1>1
<1>3. QED
  BY <1>2, Invariance, PTL DEF Spec, AttemptsKeepNewest

(* Only the two commits move the abstract log; each is one step of it.     *)
LEMMA StepRefinesLog ==
  ASSUME IInv, [Next]_vars
  PROVE  [Log!LogNext]_(Log!logVars)
<1> USE DEF IInv
<1>1. CASE UNCHANGED <<journal, results>>
  BY <1>1 DEF Log!logVars
<1>2. ASSUME NEW c \in Clients, CommitRejection(c) PROVE Log!LogNext
  <2> DEFINE t == tx[c]
  <2>1. t.command.id \in CommandIds /\ t.command.print \in Prints
    BY <1>2, Fields DEF CommitRejection
  <2>2. results[t.command.id] = None /\ t.state.version = Len(journal)
    BY <1>2 DEF CommitRejection, Prepared, JournalIsWhole
  <2>3. Log!Reject(t.command.id)
    BY <1>2, <2>1, <2>2 DEF CommitRejection, Log!Reject
  <2>4. QED
    BY <2>1, <2>3 DEF Log!LogNext
<1>3. ASSUME NEW c \in Clients, CommitAcceptance(c) PROVE Log!LogNext
  <2> DEFINE t == tx[c]
             len == Len(journal)
  <2>1. /\ t.command.id \in CommandIds /\ t.command.print \in Prints /\ t.at \in Times
        /\ t.at \in Nat /\ t.events \in Nat \ {0} /\ t.events <= MaxEvents
        /\ Acceptance(t.command, len, t.events, t.at)
    BY <1>3, AcceptanceFacts
  <2>2. t.state.version = len /\ t.state.lastSequence = len
    BY <1>3 DEF CommitAcceptance, Prepared, JournalIsWhole
  <2>3. /\ journal' = journal \o Log!Block(t.command.id, t.at, len, t.events)
        /\ results' = [results EXCEPT ![t.command.id] =
             Log!Accepted(t.command.print, len, t.events)]
    BY <1>3, <2>2 DEF CommitAcceptance
  <2>4. Log!NotBefore(t.at)
    <3>1. SUFFICES ASSUME NEW i \in DOMAIN journal PROVE journal[i].time <= t.at
      BY DEF Log!NotBefore
    <3>2. /\ journal \in Seq(Events) /\ len \in Nat /\ i \in 1 .. len /\ len \in DOMAIN journal
          /\ i <= len /\ journal # <<>>
      BY DEF TypeOK
    <3>3. journal[i].time <= journal[len].time /\ world.time = journal[len].time
      BY <3>2 DEF JournalIsWhole
    <3>4. journal[i] \in Events
      BY <3>2
    <3>5. journal[i].time \in Nat
      BY <3>4, BoundsAssumption DEF Events
    <3>6. QED
      BY <2>1, <3>3, <3>5 DEF Acceptance
  <2>5. results[t.command.id] = None /\ t.events \in 1 .. MaxEvents
    BY <2>1, BoundsAssumption DEF Acceptance
  <2>6. Log!Accept(t.command.id)
    BY <2>1, <2>3, <2>4, <2>5 DEF Log!Accept
  <2>7. QED
    BY <2>1, <2>6 DEF Log!LogNext
<1>4. QED
  BY <1>1, <1>2, <1>3, StepKinds DEF Replay, RecordForeignBody, tables

(* executeCommand, with its transactions, retries and crashes, is nothing  *)
(* but a log in which every identifier is answered at most once.           *)
THEOREM HandlerImplementsLog == Spec => ImplementsLog
<1>1. Init => Log!LogInit
  BY DEF Init, Log!LogInit
<1>2. IInv /\ [Next]_vars => [Log!LogNext]_(Log!logVars)
  BY StepRefinesLog
<1>3. QED
  BY <1>1, <1>2, Invariance, PTL DEF Spec, ImplementsLog, Log!LogSpec

=============================================================================
