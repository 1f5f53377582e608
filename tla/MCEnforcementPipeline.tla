----------------------- MODULE MCEnforcementPipeline -----------------------
(* Two messages, which are interchangeable.                                *)
EXTENDS EnforcementPipeline, TLC

MCSymmetry == Permutations(Msg)

(* The process stops, or the windows move on, but not both.                *)
MCBudget == crashes + now <= 1
=============================================================================
