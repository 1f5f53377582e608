---------------------------- MODULE KeyRegistry ----------------------------
(***************************************************************************)
(* The relay's registry of agent keys: registrations waiting for a human   *)
(* to claim them, the approved keys, the sweep of what nobody claimed, and *)
(* the HTTP handlers that call it. Both buckets live in the bbolt file, so *)
(* they survive a crash of the relay; requests in progress do not.         *)
(*                                                                         *)
(* The clock counts fractions of the sweep interval (minutes, where a      *)
(* request takes seconds): no request outlives a tick, and a due sweep     *)
(* takes place before the clock moves on.                                  *)
(***************************************************************************)
EXTENDS Naturals, FiniteSets

CONSTANTS
  Key,             \* public keys of the agents that register
  Code,            \* claim codes the generator can draw
  LockedMode,      \* Turnstile is configured: keys need an approval
  TTL,             \* pendingKeyTTL
  SweepEvery,      \* pendingSweepInterval
  MaxDraws,        \* maxClaimCodeGenerationAttempts
  MaxClock,        \* bound on the clock
  MaxStops,        \* bound on relay crashes
  MaxSweepFaults   \* bound on sweeps whose transaction fails

ASSUME KeyRegistryAssumption ==
  /\ TTL \in Nat \ {0} /\ SweepEvery \in Nat \ {0} /\ MaxDraws \in Nat \ {0}
  /\ LockedMode \in BOOLEAN
  /\ MaxClock \in Nat /\ MaxStops \in Nat /\ MaxSweepFaults \in Nat

VARIABLES
  running,     \* the relay process is up
  pending,     \* pendingRegistryBucket: each entry with its code, key, date
  approved,    \* keyRegistryBucket
  registering, \* RegisterPending calls: the entry and the codes drawn
  claiming,    \* codes whose claim has passed Turnstile and not yet run
  clock, due,  \* now, and when the sweep's ticker fires next
  stops, sweepFaults

requestVars == <<registering, claiming>>
timeVars    == <<clock, due, stops, sweepFaults>>
regVars     == <<running, pending, approved, requestVars, timeVars>>

-----------------------------------------------------------------------------
CodesOut == {e.code : e \in pending}

RegInit ==
  /\ running = TRUE
  /\ pending = {} /\ approved = {}
  /\ registering = {} /\ claiming = {}
  /\ clock = 0 /\ due = SweepEvery
  /\ stops = 0 /\ sweepFaults = 0

(* registerHandler, up to RegisterPending's loop: the entry is dated       *)
(* before a code is drawn for it.                                          *)
Register(k) ==
  /\ running /\ \A r \in registering : r.key # k
  /\ registering' = registering \cup {[key |-> k, at |-> clock, draws |-> 0]}
  /\ UNCHANGED <<running, pending, approved, claiming, timeVars>>

(* One turn of RegisterPending's loop, a transaction of its own: a code    *)
(* that is taken makes the loop draw again, up to its limit.               *)
DrawCodeBug(r, c) ==
  /\ running
  /\ pending' = {e \in pending : e.code # c}
                  \cup {[code |-> c, key |-> r.key, at |-> r.at]}
  /\ registering' = registering \ {r}
  /\ UNCHANGED <<running, approved, claiming, timeVars>>

DrawCode(r, c) ==
  /\ running
  /\ \/ /\ c \notin CodesOut
        /\ pending' = pending \cup {[code |-> c, key |-> r.key, at |-> r.at]}
        /\ registering' = registering \ {r}
     \/ /\ c \in CodesOut
        /\ registering' = (registering \ {r}) \cup
             {q \in {[r EXCEPT !.draws = @ + 1]} : q.draws < MaxDraws}
        /\ UNCHANGED pending
  /\ UNCHANGED <<running, approved, claiming, timeVars>>

(* claimHandler up to the registry (there is none in open mode): a human   *)
(* enters a code, theirs or not, and Turnstile accepts the token.          *)
Verify(c) ==
  /\ running /\ LockedMode /\ c \notin claiming
  /\ claiming' = claiming \cup {c}
  /\ UNCHANGED <<running, pending, approved, registering, timeVars>>

(* Claim: one transaction moves the entry, whatever its age, from the      *)
(* pending bucket to the approved one; without an entry nothing happens.   *)
Claim(c) ==
  /\ running /\ c \in claiming
  /\ claiming' = claiming \ {c}
  /\ approved' = approved \cup {e.key : e \in {p \in pending : p.code = c}}
  /\ pending' = {e \in pending : e.code # c}
  /\ UNCHANGED <<running, registering, timeVars>>

IsApproved(k) == k \in approved

(* SweepPending: entries of the TTL's age or older go.                     *)
SweptBug == {e \in pending : e.at + TTL >= clock}

Swept == {e \in pending : e.at + TTL > clock}

(* The ticker fires: main only logs a sweep that fails.                    *)
TickerSweep ==
  /\ running /\ clock = due
  /\ due' = clock + SweepEvery
  /\ \/ pending' = Swept /\ UNCHANGED sweepFaults
     \/ /\ sweepFaults < MaxSweepFaults
        /\ sweepFaults' = sweepFaults + 1
        /\ UNCHANGED pending
  /\ UNCHANGED <<running, approved, requestVars, clock, stops>>

(* The relay dies, with the requests in progress.                          *)
StopRegistry ==
  /\ running /\ stops < MaxStops
  /\ running' = FALSE /\ stops' = stops + 1
  /\ registering' = {} /\ claiming' = {}
  /\ UNCHANGED <<pending, approved, clock, due, sweepFaults>>

(* main: a sweep before anything is served, and a new ticker.              *)
BootRegistry ==
  /\ ~running
  /\ running' = TRUE
  /\ pending' = Swept
  /\ due' = clock + SweepEvery
  /\ UNCHANGED <<approved, requestVars, clock, stops, sweepFaults>>

Tick ==
  /\ clock < MaxClock
  /\ running => clock < due
  /\ registering = {} /\ claiming = {}
  /\ clock' = clock + 1
  /\ UNCHANGED <<running, pending, approved, requestVars, due, stops,
                 sweepFaults>>

RegNext ==
  \/ \E k \in Key : Register(k)
  \/ \E r \in registering, c \in Code : DrawCode(r, c)
  \/ \E c \in Code : Verify(c) \/ Claim(c)
  \/ TickerSweep
  \/ Tick

-----------------------------------------------------------------------------
(* A claim code that is out stands for one registration until it is        *)
(* claimed or swept: no later registration, of whatever key, takes it over *)
(* (the collision test inside RegisterPending's transaction).              *)
CodeNotTakenOver ==
  [][\A e \in pending, f \in pending' : e.code = f.code => e = f]_regVars

(* A key gets approved only through an entry that is in the bucket at that *)
(* moment, and that entry is younger than the TTL plus one sweep interval  *)
(* (plus one more for each sweep that failed), however claims, sweeps and  *)
(* crashes of the relay interleave: Claim looks at no date, the sweeps are *)
(* what ends a registration.                                               *)
ClaimedInTime ==
  [][\A k \in approved' \ approved :
       \E e \in pending :
          /\ e.key = k /\ e.code \in claiming
          /\ clock < e.at + TTL + SweepEvery * (1 + sweepFaults)]_regVars
=============================================================================
