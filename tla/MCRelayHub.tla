----------------------------- MODULE MCRelayHub -----------------------------
(* Instances of RelayHub: agents a and c write to agent b, who comes and   *)
(* goes on one or two sessions.                                            *)
EXTENDS RelayHubClaims, RelayHubMailbox, TLC

CONSTANTS a, b, c, sa, sb1, sb2, sc

MCAddrOf == [s \in Session |-> CASE s = sa -> a [] s = sc -> c [] OTHER -> b]
MCTraffic == {p \in Addr \X {b} : p[1] # b}
MCBlockPairs == {<<b, a>>}

(* One disturbance in a behaviour: a crash or shutdown, a failed           *)
(* transaction, or an entry that outlives the TTL.                         *)
MCBudget ==
  crashes + faults
    + Cardinality(UNION {{e \in queue[x] : e.expired} : x \in Addr})
    + Cardinality(UNION {swept[x] : x \in Addr}) <= 1

(* The sessions of b are interchangeable.                                  *)
MCSymmetry == Permutations({sb1, sb2})
=============================================================================
