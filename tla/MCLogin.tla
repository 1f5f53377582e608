------------------------------ MODULE MCLogin ------------------------------
(* Login for TLC: one agent with one key.                                  *)
EXTENDS Login, TLC

CONSTANTS k, c1

(* The faults of the network and of the relay share one budget with the    *)
(* ticks of the clock.                                                     *)
MCBudget == cuts + stops + sweepFaults + clock <= 3
=============================================================================
