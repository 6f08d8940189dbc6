---------------------------- MODULE MCBotScheduler ----------------------------
(***************************************************************************)
(* Instances of BotScheduler for TLC.  Callers are interchangeable.        *)
(***************************************************************************)
EXTENDS BotScheduler, TLC

Symmetry == Permutations(Callers)
AllExclusions == SUBSET Bots
NoExclusions == {{}}
FirstExcluded == {{}, {0}}
=============================================================================
