----------------------------- MODULE CommandLog -----------------------------
(***************************************************************************)
(* What the command handler of a world promises to everybody who sends it  *)
(* a command, without saying how: a command identifier is answered for     *)
(* good at most once, an accepted command appends one unbroken block of    *)
(* events to the journal, and world time never runs backwards.             *)
(*                                                                         *)
(* CommandHandler (transactions, row lock, retries, crashes) implements it.*)
(***************************************************************************)
EXTENDS Integers, Sequences

CONSTANTS
  CommandIds,   (* identifiers a sender may put on a command               *)
  Prints,       (* fingerprints: everything of a body that identifies it   *)
  Times,        (* moments of world time                                   *)
  MaxEvents,    (* the most events one command produces                    *)
  None          (* the identifier has not been answered                    *)

VARIABLES
  journal,      (* the events of the world, in the order of their sequence *)
  results       (* the answer recorded for each identifier, or None        *)

logVars == <<journal, results>>

(* An answer says which body it answers and which events it stands for:    *)
(* those numbered before + 1 .. after. A rejection stands for no event.    *)
Accepted(print, before, n) ==
  [print |-> print, outcome |-> "accepted", before |-> before, after |-> before + n]

Rejected(print, before) ==
  [print |-> print, outcome |-> "rejected", before |-> before, after |-> before]

(* Not the code: the first event gets the number of the last one before it.*)
BlockOffByOne(id, at, before, n) ==
  [k \in 1 .. n |-> [sequence |-> before + k - 1, command |-> id, time |-> at]]

Block(id, at, before, n) ==
  [k \in 1 .. n |-> [sequence |-> before + k, command |-> id, time |-> at]]

NotBefore(at) == \A i \in DOMAIN journal : journal[i].time <= at

LogInit ==
  /\ journal = <<>>
  /\ results = [id \in CommandIds |-> None]

Reject(id) ==
  /\ results[id] = None
  /\ \E print \in Prints :
       results' = [results EXCEPT ![id] = Rejected(print, Len(journal))]
  /\ UNCHANGED journal

Accept(id) ==
  /\ results[id] = None
  /\ \E print \in Prints, n \in 1 .. MaxEvents, at \in Times :
       /\ NotBefore(at)
       /\ journal' = journal \o Block(id, at, Len(journal), n)
       /\ results' = [results EXCEPT ![id] = Accepted(print, Len(journal), n)]

LogNext == \E id \in CommandIds : Reject(id) \/ Accept(id)

LogSpec == LogInit /\ [][LogNext]_logVars
=============================================================================
