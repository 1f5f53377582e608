--------------------------- MODULE MCConnections ---------------------------
(* Two agents, who are interchangeable.                                    *)
EXTENDS Connections, TLC

MCSymmetry == Permutations(Agent)

(* One disturbance in a behaviour: a process that ends, an envelope that   *)
(* is lost, repeated or overtaken, or a send that fails.                   *)
MCBudget == restarts + faults <= 1
=============================================================================
