----------------------------- MODULE OperatorCli -----------------------------
(***************************************************************************)
(* `world run`: a short-lived process that reads the world, makes a command*)
(* for the version and the moment it read, and hands it to executeCommand, *)
(* next to other clients. An operator who did not get the answer runs the  *)
(* same line again, with the command_id of his first attempt.              *)
(***************************************************************************)
EXTENDS CommandHandler

CONSTANT Operators   (* clients that are runs of `world run`               *)

VARIABLE line        (* what each run has parsed and read so far           *)

cliVars == <<vars, line>>

NoLine == [command |-> None, at |-> 0]

(* loadWorldState and loadObservedWorldTime, outside of any transaction.   *)
(* The moment may be the observed one, which is ahead of world_time, or any*)
(* other, given by --at-world-time.                                        *)
ReadLine(c) ==
  /\ line[c] = NoLine /\ tx[c].step = "idle"
  /\ \E id \in CommandIds, intent \in Intents, at \in Times :
       /\ world.version \in Expectations
       /\ line' = [line EXCEPT ![c] =
            [command |-> [id |-> id, print |-> <<intent, world.version>>], at |-> at]]
  /\ UNCHANGED vars

(* The command made from the line and from what was read goes to           *)
(* executeCommand; the process ends with its answer.                       *)
RunLine(c) ==
  /\ line[c] # NoLine
  /\ tx' = [tx EXCEPT ![c] = Open(line[c].command, line[c].at)]
  /\ line' = [line EXCEPT ![c] = NoLine]
  /\ UNCHANGED <<tables, lock, told>>

CliInit == Init /\ line = [c \in Operators |-> NoLine]

CliNext ==
  \/ \E c \in Operators : ReadLine(c) \/ RunLine(c)
  \/ /\ \E c \in Clients : Work(c) \/ Crash(c) \/ (c \notin Operators /\ Begin(c))
     /\ UNCHANGED line

CliSpec == CliInit /\ [][CliNext]_cliVars

-----------------------------------------------------------------------------
(* The same line with the same command_id is a repetition of that attempt: *)
(* it is never refused as another body under a used identifier.            *)
RepeatIsRecognised ==
  \A command \in Commands :
    told[command] # None /\ told[command].outcome = "mismatch" =>
      results[command.id].print[1] # command.print[1]
=============================================================================
