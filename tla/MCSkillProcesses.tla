-------------------------- MODULE MCSkillProcesses --------------------------
(* SkillProcesses for TLC.                                                 *)
EXTENDS SkillProcesses, TLC

CONSTANTS t1, t2, t3

(* A kill or a clock set back is explored on a feed without older rows,    *)
(* and a feed of several entries apart from lost changes and keypairs.     *)
MCBudget ==
  /\ faults = 0 \/ Legacy \notin log
  /\ disturbed \/ keyRaced =>
       \A e \in log \cup UNION {entry[t] : t \in Tool} : e.id <= 1

MCSymmetry == Permutations({t1, t2, t3})
=============================================================================
