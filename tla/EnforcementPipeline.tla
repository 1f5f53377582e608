------------------------ MODULE EnforcementPipeline ------------------------
(***************************************************************************)
(* What an agent's process does with the messages of one connection, from  *)
(* handleIncomingMessage to the delivery confirmation: permissions check,  *)
(* circuit breaker, autonomy routing, auto-respond policy; and what its    *)
(* human may do to the connection meanwhile.                               *)
(*                                                                         *)
(* Messages are handled concurrently: a handler runs alone up to its next  *)
(* await, and every await lets the other handlers and the human's command  *)
(* run. The answers come from an injected PolicyEvaluator. Connections do  *)
(* not share any of this state, so one is enough.                          *)
(***************************************************************************)
EXTENDS Naturals, Sequences, FiniteSets

CONSTANTS
  Msg,             \* messages the peer sends
  Level,           \* autonomy levels in use
  Gates,           \* numbers of LLM checks a manifest may ask for
  Answer,          \* what the PolicyEvaluator may answer; "error" if it throws
  Ops,             \* what the human and the peer do to the connection
  FloodThreshold, FloodWindow,
  ViolationThreshold, ViolationWindow,
  BoundaryProbeThreshold, BoundaryProbeWindow,
  MaxTime,         \* bound: clock
  MaxOps,          \* bound: operations
  MaxCrashes,      \* bound: processes that stop
  File             \* connections.json is followed

ASSUME PipelineAssumption ==
  /\ Level \subseteq {"full_manual", "notify", "auto_respond", "full_auto"}
  /\ Gates \subseteq Nat
  /\ Answer \subseteq {"allow", "deny", "escalate", "error"}
  /\ Ops \subseteq {"autonomy", "mute", "passthrough", "permissions",
                    "approve", "renew", "activate", "revoke"}
  /\ \A n \in {FloodThreshold, FloodWindow, ViolationThreshold, ViolationWindow,
               BoundaryProbeThreshold, BoundaryProbeWindow} : n \in Nat \ {0}
  /\ MaxTime \in Nat /\ MaxOps \in Nat /\ MaxCrashes \in Nat
  /\ File \in BOOLEAN /\ (MaxCrashes > 0 => File)

VARIABLES
  up,        \* the process runs
  conn,      \* the connection, in ConnectionStore.data
  mkdirs,    \* save() calls awaiting mkdir
  snaps,     \* save() calls whose writeFile is under way: what each writes
  disk,      \* the connection, in connections.json
  msg,       \* MessageStore: the state of each message
  pc,        \* where the handler of each message awaits
  left,      \* LLM checks the handler has left, from the manifest it captured
  events,    \* CircuitBreaker.events
  feed,      \* activity feed entries about messages, and trips
  now,       \* Date.now()
  confirmed, \* messages whose delivery confirmation was sent
  approved,  \* messages the human decided with approveMessage
  auto,      \* messages routed to the agent without the human
  ops, crashes

storeVars == <<conn, mkdirs, snaps>>
pastVars  == <<approved, auto>>
vars == <<up, storeVars, disk, msg, pc, left, events, feed, now, confirmed,
          pastVars, ops, crashes>>

(* Definitions whose name ends in Bug are wrong versions of the definition *)
(* they are named after, as in RelayHub.                                   *)

-----------------------------------------------------------------------------
Levels == {"full_manual", "notify", "auto_respond", "full_auto"}

Connection ==
  [state : {"pending", "active", "revoked"}, level : Levels, tripped : BOOLEAN,
   muted : BOOLEAN, passthrough : BOOLEAN, policy : BOOLEAN, gates : Nat]

MessageState == {"delivered", "pending_policy_eval", "read_by_agent",
                 "escalated_to_human", "failed"}

TriggerType == {"message_flood", "permission_violation", "spending_exceeded",
                "boundary_probe"}

(* check() labels every violation it finds "information_boundary". An id   *)
(* is saved once, so a message leaves at most one record in a process.     *)
EventRecord ==
  [type : TriggerType \cup {"information_boundary"}, at : Nat, msg : Msg]

(* Awaiting an answer, the result of check(), or the confirmation's        *)
(* signature; lost when the process stopped first.                         *)
Handler == {"idle", "check", "unknown", "allow", "deny", "escalate", "error",
            "policy", "confirm", "done", "lost"}

Init ==
  /\ up = TRUE
  /\ conn \in [state : {"active"}, level : Level, tripped : {FALSE},
               muted : {FALSE}, passthrough : {FALSE}, policy : BOOLEAN,
               gates : Gates]
  /\ mkdirs = 0 /\ snaps = <<>> /\ disk = conn
  /\ msg = [m \in Msg |-> "none"]
  /\ pc = [m \in Msg |-> "idle"]
  /\ left = [m \in Msg |-> 0]
  /\ events = {} /\ feed = {} /\ now = 0
  /\ confirmed = {} /\ approved = {} /\ auto = {}
  /\ ops = 0 /\ crashes = 0

-----------------------------------------------------------------------------
(* connections.json                                                        *)

(* c becomes the connection in memory; save() is called, and not awaited   *)
(* by the circuit breaker.                                                 *)
Store(c) ==
  /\ conn' = c
  /\ mkdirs' = IF File THEN mkdirs + 1 ELSE mkdirs
  /\ UNCHANGED snaps

SaveBegin ==
  /\ up /\ mkdirs > 0
  /\ mkdirs' = mkdirs - 1
  /\ snaps' = Append(snaps, conn)
  /\ UNCHANGED <<up, conn, disk, msg, pc, left, events, feed, now, confirmed,
                 pastVars, ops, crashes>>

(* Writes that overlap end in any order.                                   *)
SaveEnd ==
  /\ up
  /\ \E i \in DOMAIN snaps :
       /\ disk' = snaps[i]
       /\ snaps' = SubSeq(snaps, 1, i - 1) \o SubSeq(snaps, i + 1, Len(snaps))
  /\ UNCHANGED <<up, conn, mkdirs, msg, pc, left, events, feed, now, confirmed,
                 pastVars, ops, crashes>>

-----------------------------------------------------------------------------
(* The circuit breaker                                                     *)

Longest ==
  CHOOSE w \in {FloodWindow, ViolationWindow, BoundaryProbeWindow} :
    \A v \in {FloodWindow, ViolationWindow, BoundaryProbeWindow} : v <= w

Since(e, window) == e.at + window > now

PruneOldEvents(es) == {e \in es : Since(e, Longest)}

Count(es, type, window) ==
  Cardinality({e \in es : e.type = type /\ Since(e, window)})

CheckBug(es) ==
  \/ Count(es, "message_flood", FloodWindow) > FloodThreshold
  \/ \E t \in {"permission_violation", "spending_exceeded"} :
       Count(es, t, ViolationWindow) > ViolationThreshold
  \/ Count(es, "boundary_probe", BoundaryProbeWindow) > BoundaryProbeThreshold

Check(es) ==
  \/ Count(es, "message_flood", FloodWindow) >= FloodThreshold
  \/ \E t \in {"permission_violation", "spending_exceeded"} :
       Count(es, t, ViolationWindow) >= ViolationThreshold
  \/ Count(es, "boundary_probe", BoundaryProbeWindow) >= BoundaryProbeThreshold

(* addEvent, then checkAndTrip: unless tripped already, a threshold that   *)
(* is reached takes the connection to full manual.                         *)
AddEvent(m, type) ==
  PruneOldEvents(events \cup {[type |-> type, at |-> now, msg |-> m]})

Trips(m, type) == ~conn.tripped /\ Check(AddEvent(m, type))

AfterRecord(m, type) ==
  IF Trips(m, type) THEN [conn EXCEPT !.level = "full_manual", !.tripped = TRUE]
  ELSE conn

(* recordMessage and recordViolation. entries: what else the handler logs. *)
Record(m, type, entries) ==
  /\ events' = AddEvent(m, type)
  /\ IF Trips(m, type) THEN Store(AfterRecord(m, type)) ELSE UNCHANGED storeVars
  /\ feed' = feed \cup entries \cup
       (IF Trips(m, type) THEN {<<"circuit_breaker_tripped", now>>} ELSE {})

-----------------------------------------------------------------------------
(* The handler of a message                                                *)

Await(m, where) == pc' = [pc EXCEPT ![m] = where]

UpdateState(m, st) == msg' = [msg EXCEPT ![m] = st]

(* saveMessage, and process() up to its first await. A muted message is    *)
(* left delivered, one during an intervention goes to the human.           *)
ReceiveMuted(m) ==
  /\ up /\ msg[m] = "none" /\ conn.muted
  /\ UpdateState(m, "delivered") /\ Await(m, "confirm")
  /\ feed' = feed \cup {<<"message_received_muted", m>>}
  /\ UNCHANGED <<up, storeVars, disk, left, events, now, confirmed, pastVars,
                 ops, crashes>>

ReceiveTakenOver(m) ==
  /\ up /\ msg[m] = "none" /\ ~conn.muted /\ conn.passthrough
  /\ UpdateState(m, "escalated_to_human") /\ Await(m, "confirm")
  /\ feed' = feed \cup {<<"message_during_intervention", m>>}
  /\ UNCHANGED <<up, storeVars, disk, left, events, now, confirmed, pastVars,
                 ops, crashes>>

(* check() reads the connection and its manifest before it awaits.         *)
Receive(m) ==
  /\ up /\ msg[m] = "none" /\ ~conn.muted /\ ~conn.passthrough
  /\ UpdateState(m, "delivered")
  /\ Await(m, IF conn.state # "active" THEN "unknown"
              ELSE IF conn.gates = 0 THEN "allow" ELSE "check")
  /\ left' = [left EXCEPT ![m] = conn.gates]
  /\ UNCHANGED <<up, storeVars, disk, events, feed, now, confirmed, pastVars,
                 ops, crashes>>

(* The answer to one of the manifest's checks: all must allow.             *)
CheckAnswered(m) ==
  /\ up /\ pc[m] = "check"
  /\ \E a \in Answer :
       /\ left' = [left EXCEPT ![m] = IF a = "allow" THEN @ - 1 ELSE 0]
       /\ Await(m, IF a = "allow" /\ left[m] > 1 THEN "check" ELSE a)
  /\ UNCHANGED <<up, storeVars, disk, msg, events, feed, now, confirmed,
                 pastVars, ops, crashes>>

(* process() resumes with the verdict of check().                          *)
Refuse(m) ==
  /\ up /\ pc[m] \in {"unknown", "escalate", "error"}
  /\ UpdateState(m, IF pc[m] = "unknown" THEN "failed" ELSE "escalated_to_human")
  /\ Await(m, "confirm")
  /\ UNCHANGED <<up, storeVars, disk, left, events, feed, now, confirmed,
                 pastVars, ops, crashes>>

Deny(m) ==
  /\ up /\ pc[m] = "deny"
  /\ Record(m, "information_boundary", {})
  /\ UpdateState(m, "failed") /\ Await(m, "confirm")
  /\ UNCHANGED <<up, disk, left, now, confirmed, pastVars, ops, crashes>>

RoutedBug(c) ==
  IF c.state # "active" THEN "failed"
  ELSE [full_auto    |-> "read_by_agent",
        notify       |-> "processed_autonomously",
        auto_respond |-> IF c.policy THEN "pending_policy_eval"
                                     ELSE "escalated_to_human",
        full_manual  |-> "escalated_to_human"][c.level]

(* InboundRouter.route, and the start of evaluateAutoRespondPolicy.        *)
Routed(c) ==
  IF c.state # "active" THEN "failed"
  ELSE [full_auto    |-> "read_by_agent",
        notify       |-> "read_by_agent",
        auto_respond |-> IF c.policy THEN "pending_policy_eval"
                                     ELSE "escalated_to_human",
        full_manual  |-> "escalated_to_human"][c.level]

RouteEntries(c, m) ==
  {e \in {<<"message_processed_autonomously", m>>, <<"auto_respond_decision", m>>} :
     /\ c.state = "active"
     /\ e[1] = "message_processed_autonomously" => c.level = "notify"
     /\ e[1] = "auto_respond_decision" => c.level = "auto_respond" /\ ~c.policy}

RouteAs(m, c, where) ==
  /\ up /\ pc[m] = "allow"
  /\ Record(m, "message_flood", RouteEntries(c, m))
  /\ UpdateState(m, Routed(c))
  /\ Await(m, where)
  /\ auto' = IF Routed(c) \in {"pending_policy_eval", "read_by_agent"}
             THEN auto \cup {[msg |-> m, at |-> now, level |-> c.level,
                              boot |-> crashes]}
             ELSE auto
  /\ UNCHANGED <<up, disk, left, now, confirmed, approved, ops, crashes>>

After(c) == IF Routed(c) = "pending_policy_eval" THEN "policy" ELSE "confirm"

RouteBug(m) ==
  LET c == [AfterRecord(m, "message_flood") EXCEPT !.state = "active"]
  IN  RouteAs(m, c, After(c))

RouteEarlyBug(m) == RouteAs(m, AfterRecord(m, "message_flood"), "confirm")

(* The message is counted first, then routed by the level that leaves.     *)
Route(m) ==
  LET c == AfterRecord(m, "message_flood") IN RouteAs(m, c, After(c))

(* The end of evaluateAutoRespondPolicy: every outcome is logged.          *)
Evaluated(a) ==
  [allow |-> "read_by_agent", deny |-> "failed",
   escalate |-> "escalated_to_human", error |-> "escalated_to_human"][a]

PolicyAnsweredHangsBug(m) ==
  /\ up /\ pc[m] = "policy"
  /\ \E a \in Answer \ {"error"} : UpdateState(m, Evaluated(a))
  /\ feed' = feed \cup {<<"auto_respond_decision", m>>}
  /\ UNCHANGED pc
  /\ UNCHANGED <<up, storeVars, disk, left, events, now, confirmed, pastVars,
                 ops, crashes>>

PolicyAnsweredBug(m) ==
  /\ up /\ pc[m] = "policy"
  /\ \E a \in Answer :
       /\ UpdateState(m, Evaluated(a))
       /\ feed' = IF a = "allow" THEN feed
                  ELSE feed \cup {<<"auto_respond_decision", m>>}
  /\ Await(m, "confirm")
  /\ UNCHANGED <<up, storeVars, disk, left, events, now, confirmed, pastVars,
                 ops, crashes>>

PolicyAnswered(m) ==
  /\ up /\ pc[m] = "policy"
  /\ \E a \in Answer : UpdateState(m, Evaluated(a))
  /\ feed' = feed \cup {<<"auto_respond_decision", m>>}
  /\ Await(m, "confirm")
  /\ UNCHANGED <<up, storeVars, disk, left, events, now, confirmed, pastVars,
                 ops, crashes>>

(* sendDeliveryConfirmation.                                               *)
Confirm(m) ==
  /\ up /\ pc[m] = "confirm"
  /\ confirmed' = confirmed \cup {m}
  /\ Await(m, "done")
  /\ UNCHANGED <<up, storeVars, disk, msg, left, events, feed, now, pastVars,
                 ops, crashes>>

-----------------------------------------------------------------------------
(* The process stops, and is started again                                 *)

(* What the handlers and the save() calls were at is lost.                 *)
Die ==
  /\ crashes < MaxCrashes
  /\ crashes' = crashes + 1
  /\ up' = FALSE
  /\ mkdirs' = 0 /\ snaps' = <<>> /\ events' = {}
  /\ pc' = [m \in Msg |-> IF pc[m] \in {"idle", "done"} THEN pc[m] ELSE "lost"]
  /\ left' = [m \in Msg |-> 0]
  /\ UNCHANGED <<conn, disk, msg, feed, now, confirmed, pastVars, ops>>

(* The tool ends or is killed; or sendEnvelope throws because the socket   *)
(* is closed, in a handler nobody awaits.                                  *)
Stop == up /\ Die

RedeliverBug(m) ==
  /\ up /\ msg[m] # "none" /\ crashes < MaxCrashes
  /\ UpdateState(m, "delivered") /\ Await(m, "allow")
  /\ UNCHANGED <<up, storeVars, disk, left, events, feed, now, confirmed,
                 pastVars, ops, crashes>>

(* The relay repeats a message: saveMessage finds its id in the table and  *)
(* throws, in a handler nobody awaits.                                     *)
Redeliver(m) == up /\ msg[m] # "none" /\ Die

(* bootstrap: load, clearPassthroughFlags, and only then connect.          *)
Boot ==
  /\ ~up /\ up' = TRUE
  /\ conn' = [disk EXCEPT !.passthrough = FALSE]
  /\ disk' = conn'
  /\ UNCHANGED <<mkdirs, snaps, msg, pc, left, events, feed, now, confirmed,
                 pastVars, ops, crashes>>

-----------------------------------------------------------------------------
(* The human, and the peer's effect on the connection                      *)

Operation(op) ==
  /\ up /\ op \in Ops /\ ops < MaxOps
  /\ ops' = ops + 1

WithAutonomyBug(c, level) == [c EXCEPT !.level = level]

(* setAutonomy: any level clears the breaker's flag.                       *)
WithAutonomy(c, level) == [c EXCEPT !.level = level, !.tripped = FALSE]

(* pinch-autonomy: the gate before full auto, which without confirmation   *)
(* changes nothing; the level; then the policy.                            *)
SetAutonomy(level, confirm, policy) ==
  /\ Operation("autonomy")
  /\ level = "full_auto" /\ conn.level # "full_auto" => confirm
  /\ Store([WithAutonomy(conn, level) EXCEPT
              !.policy = @ \/ (policy /\ level = "auto_respond")])
  /\ UNCHANGED <<up, disk, msg, pc, left, events, feed, now, confirmed,
                 pastVars, crashes>>

SetMuted(b) ==
  /\ Operation("mute")
  /\ Store([conn EXCEPT !.muted = b])
  /\ UNCHANGED <<up, disk, msg, pc, left, events, feed, now, confirmed,
                 pastVars, crashes>>

(* pinch-intervene --start and --stop.                                     *)
Intervene(b) ==
  /\ Operation("passthrough")
  /\ Store([conn EXCEPT !.passthrough = b])
  /\ UNCHANGED <<up, disk, msg, pc, left, events, feed, now, confirmed,
                 pastVars, crashes>>

SetPermissions(n) ==
  /\ Operation("permissions")
  /\ Store([conn EXCEPT !.gates = n])
  /\ UNCHANGED <<up, disk, msg, pc, left, events, feed, now, confirmed,
                 pastVars, crashes>>

ApproveMessage(m, action) ==
  /\ Operation("approve")
  /\ msg[m] = "escalated_to_human"
  /\ UpdateState(m, IF action = "agent_handle" THEN "read_by_agent"
                                               ELSE "delivered")
  /\ approved' = approved \cup {m}
  /\ UNCHANGED <<up, storeVars, disk, pc, left, events, feed, now, confirmed,
                 auto, crashes>>

(* addConnection, for a request of either side, replaces the whole record. *)
AddConnection ==
  /\ Operation("renew")
  /\ Store([state |-> "pending", level |-> "full_manual", tripped |-> FALSE,
            muted |-> FALSE, passthrough |-> FALSE, policy |-> FALSE,
            gates |-> 0])
  /\ UNCHANGED <<up, disk, msg, pc, left, events, feed, now, confirmed,
                 pastVars, crashes>>

(* The request is approved, or the connection revoked.                     *)
SetState(st, op) ==
  /\ Operation(op)
  /\ op = "activate" => conn.state = "pending"
  /\ Store([conn EXCEPT !.state = st])
  /\ UNCHANGED <<up, disk, msg, pc, left, events, feed, now, confirmed,
                 pastVars, crashes>>

Tick ==
  /\ now < MaxTime /\ now' = now + 1
  /\ UNCHANGED <<up, storeVars, disk, msg, pc, left, events, feed, confirmed,
                 pastVars, ops, crashes>>

-----------------------------------------------------------------------------
Handle(m) ==
  \/ ReceiveMuted(m) \/ ReceiveTakenOver(m) \/ Receive(m)
  \/ CheckAnswered(m) \/ Refuse(m) \/ Deny(m) \/ Route(m) \/ PolicyAnswered(m)
  \/ Confirm(m)

Operate ==
  \/ \E l \in Level, c \in BOOLEAN, p \in BOOLEAN : SetAutonomy(l, c, p)
  \/ \E b \in BOOLEAN : SetMuted(b)
  \/ \E b \in BOOLEAN : Intervene(b)
  \/ \E n \in Gates : SetPermissions(n)
  \/ \E m \in Msg, a \in {"agent_handle", "human_respond"} : ApproveMessage(m, a)
  \/ AddConnection
  \/ SetState("active", "activate")
  \/ SetState("revoked", "revoke")

Next ==
  \/ \E m \in Msg : Handle(m)
  \/ Operate
  \/ SaveBegin \/ SaveEnd
  \/ Stop \/ Boot \/ (\E m \in Msg : Redeliver(m))
  \/ Tick

Spec == Init /\ [][Next]_vars

(* The evaluator answers or throws, and Node resumes what has settled.     *)
Fairness ==
  /\ \A m \in Msg :
       /\ WF_vars(CheckAnswered(m)) /\ WF_vars(PolicyAnswered(m))
       /\ WF_vars(Refuse(m)) /\ WF_vars(Deny(m)) /\ WF_vars(Route(m))
       /\ WF_vars(Confirm(m))
  /\ WF_vars(Boot)

FairSpec == Spec /\ Fairness

-----------------------------------------------------------------------------
(* Properties                                                              *)

(* The variables have the types of the code they stand for.                *)
TypeOK ==
  /\ up \in BOOLEAN
  /\ conn \in Connection /\ disk \in Connection
  /\ mkdirs \in Nat /\ snaps \in Seq(Connection)
  /\ msg \in [Msg -> MessageState \cup {"none"}]
  /\ pc \in [Msg -> Handler]
  /\ left \in [Msg -> Nat]
  /\ events \subseteq EventRecord
  /\ now \in Nat /\ ops \in Nat /\ crashes \in Nat
  /\ confirmed \subseteq Msg /\ approved \subseteq Msg
  /\ auto \subseteq [msg : Msg, at : Nat, level : Levels, boot : Nat]

(* A tripped breaker always goes with full manual: in memory, in every     *)
(* write of connections.json under way and in the file, whatever the order *)
(* of trips, pinch-autonomy, connection requests and overlapping save()s.  *)
TrippedIsManual ==
  \A c \in {conn, disk} \cup {snaps[i] : i \in DOMAIN snaps} :
    c.tripped => c.level = "full_manual"

(* However the handlers interleave, and whatever the human does to the     *)
(* level, fewer messages than floodThreshold reach the agent on its own    *)
(* authority within a flood window of one process: recordMessage comes     *)
(* before route, and events outlive setAutonomy.                           *)
FloodBound ==
  Cardinality({r \in auto : r.boot = crashes /\ Since(r, FloodWindow)})
    < FloodThreshold

(* What the agent read without the human's approval was routed to it, and  *)
(* the activity feed says so unless the level was full auto, even when     *)
(* levels and policies changed while the handler awaited.                  *)
ReadIsLogged ==
  \A m \in Msg : msg[m] = "read_by_agent" /\ m \notin approved =>
    \E r \in auto :
      /\ r.msg = m
      /\ r.level = "notify" => <<"message_processed_autonomously", m>> \in feed
      /\ r.level = "auto_respond" => <<"auto_respond_decision", m>> \in feed

(* A delivery confirmation is sent only for a message whose routing is     *)
(* over, and of which the store keeps the result, restarts included.       *)
ConfirmedIsSettled ==
  \A m \in confirmed : msg[m] \notin {"none", "pending_policy_eval"}

(* A message is routed to the agent by the state and the level the         *)
(* connection has after the breaker counted it, not the ones it had when   *)
(* the message came or when check() awaited: "If the circuit breaker just  *)
(* downgraded it in step 2, the message will be routed as Full Manual".    *)
DowngradeHolds ==
  [][\A m \in Msg :
       pc[m] = "allow" /\ msg'[m] = "read_by_agent" =>
         /\ conn'.state = "active" /\ ~conn'.tripped
         /\ conn'.level \in {"notify", "full_auto"}]_vars

(* Once the human decided about an escalated message, no handler, late or  *)
(* repeated, changes its state.                                            *)
ApprovalStands == [][\A m \in approved : msg'[m] = msg[m]]_vars

(* A message that was received is routed and confirmed, unless the process *)
(* stops.                                                                  *)
HandlingEnds ==
  \A m \in Msg : (msg[m] # "none") ~> (pc[m] \in {"done", "lost"})

=============================================================================
