-------------------------- MODULE MCCommandHandler --------------------------
(* CommandHandler on small sets for TLC.                                   *)
EXTENDS CommandHandler, TLC

\* Clients, identifiers and intents are interchangeable (safety runs only).
HandlerSymmetry ==
  Permutations(Clients) \cup Permutations(CommandIds) \cup Permutations(Intents)
=============================================================================
