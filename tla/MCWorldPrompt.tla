----------------------------- MODULE MCWorldPrompt -----------------------------
(* The prototype world, served promptly: what WorldPromptProofs asks of a  *)
(* world is true of it.                                                    *)
EXTENDS MCWorldRun

ASSUME PromptAssumption == Prompt /\ Sober /\ Caring
=============================================================================
