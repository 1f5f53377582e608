--------------------- MODULE EnforcementPipelineProofs ---------------------
(***************************************************************************)
(* Proofs about the handling of a connection's messages: a tripped breaker *)
(* is manual, floods are bounded, what the agent reads is logged, and what *)
(* is confirmed or approved stands.                                        *)
(***************************************************************************)
EXTENDS EnforcementPipeline, TLAPS

-----------------------------------------------------------------------------
(* The connection, its copies, and the types                               *)

Good == {c \in Connection : c.tripped => c.level = "full_manual"}

StoreInv ==
  /\ conn \in Good /\ disk \in Good /\ snaps \in Seq(Good) /\ mkdirs \in Nat

AutoRecord == [msg : Msg, at : Nat, level : Levels, boot : Nat]

MsgMap  == [Msg -> MessageState \cup {"none"}]
PcMap   == [Msg -> Handler]
LeftMap == [Msg -> Nat]

HandlingType ==
  /\ up \in BOOLEAN
  /\ msg \in MsgMap /\ pc \in PcMap /\ left \in LeftMap
  /\ confirmed \subseteq Msg /\ approved \subseteq Msg

CountsType ==
  /\ events \subseteq EventRecord
  /\ now \in Nat /\ ops \in Nat /\ crashes \in Nat
  /\ auto \subseteq AutoRecord

-----------------------------------------------------------------------------
(* Messages                                                                *)

HandlerInv ==
  \A m \in Msg :
    /\ msg[m] = "none" <=> pc[m] = "idle"
    /\ pc[m] \in {"check", "unknown", "allow", "deny", "escalate", "error"}
         => msg[m] = "delivered"
    /\ pc[m] = "policy" => msg[m] = "pending_policy_eval"
    /\ msg[m] = "pending_policy_eval" => pc[m] \in {"policy", "lost"}
    /\ msg[m] = "escalated_to_human" => pc[m] \in {"confirm", "done", "lost"}
    /\ m \in confirmed => pc[m] = "done"
    /\ m \in approved => /\ pc[m] \in {"confirm", "done", "lost"}
                         /\ msg[m] \in {"read_by_agent", "delivered"}

AutoInv ==
  /\ \A r \in auto : /\ pc[r.msg] \in {"policy", "confirm", "done", "lost"}
                     /\ r.boot <= crashes
  /\ \A r \in auto, s \in auto : r.msg = s.msg => r = s
  /\ \A m \in Msg : pc[m] = "policy" =>
       \E r \in auto : r.msg = m /\ r.level = "auto_respond"

EventInv ==
  /\ IsFiniteSet(events) /\ IsFiniteSet(auto)
  /\ \A r \in auto : r.boot = crashes /\ Since(r, Longest) =>
       \E e \in events : e.type = "message_flood" /\ e.at = r.at /\ e.msg = r.msg

-----------------------------------------------------------------------------
(* The connection is never tripped and not manual                          *)

LEMMA GoodUpdates ==
  ASSUME NEW c \in Good
  PROVE  /\ \A b \in BOOLEAN : [c EXCEPT !.muted = b] \in Good
         /\ \A b \in BOOLEAN : [c EXCEPT !.passthrough = b] \in Good
         /\ \A n \in Nat : [c EXCEPT !.gates = n] \in Good
         /\ \A st \in {"pending", "active", "revoked"} :
              [c EXCEPT !.state = st] \in Good
         /\ [c EXCEPT !.level = "full_manual", !.tripped = TRUE] \in Good
BY Zenon DEF Good, Connection, Levels

LEMMA GoodAutonomy ==
  ASSUME NEW c \in Good, NEW l \in Levels, NEW p \in BOOLEAN
  PROVE  [WithAutonomy(c, l) EXCEPT
            !.policy = @ \/ (p /\ l = "auto_respond")] \in Good
<1> DEFINE d == WithAutonomy(c, l)
<1>1. d \in Connection /\ d.tripped = FALSE
  BY Zenon DEF WithAutonomy, Good, Connection
<1>2. (d.policy \/ (p /\ l = "auto_respond")) \in BOOLEAN
  BY Zenon
<1> DEFINE q == d.policy \/ (p /\ l = "auto_respond")
<1>3. [d EXCEPT !.policy = q] \in Good
  <2> HIDE DEF d, q
  <2> QED BY <1>1, <1>2, SMT DEF Good, Connection, q
<1> QED BY <1>3

LEMMA Stored ==
  ASSUME StoreInv, NEW c \in Good, Store(c), disk' = disk
  PROVE  StoreInv'
<1>1. mkdirs' \in Nat
  BY SMT DEF StoreInv, Store
<1> QED BY <1>1, Zenon DEF StoreInv, Store

LEMMA RecordGood ==
  ASSUME StoreInv, NEW m, NEW type
  PROVE  AfterRecord(m, type) \in Good
<1>1. conn \in Good
  BY DEF StoreInv
<1> QED BY <1>1, GoodUpdates, Zenon DEF AfterRecord

LEMMA Recorded ==
  ASSUME StoreInv, NEW m, NEW type, NEW es, Record(m, type, es), disk' = disk
  PROVE  StoreInv' /\ conn' = AfterRecord(m, type)
<1>1. AfterRecord(m, type) \in Good
  BY RecordGood
<1>2. CASE Trips(m, type)
  <2>1. Store(AfterRecord(m, type))
    BY <1>2 DEF Record
  <2> QED BY <1>1, <2>1, Stored DEF Store
<1>3. CASE ~Trips(m, type)
  <2>1. UNCHANGED storeVars /\ AfterRecord(m, type) = conn
    BY <1>3 DEF Record, AfterRecord
  <2> QED BY <2>1 DEF storeVars, StoreInv
<1> QED BY <1>2, <1>3

LEMMA WriteEnds ==
  ASSUME NEW S, NEW s \in Seq(S), NEW i \in DOMAIN s
  PROVE  SubSeq(s, 1, i - 1) \o SubSeq(s, i + 1, Len(s)) \in Seq(S)
<1>1. SubSeq(s, 1, i - 1) \in Seq(S)
  OBVIOUS
<1>2. SubSeq(s, i + 1, Len(s)) \in Seq(S)
  OBVIOUS
<1> QED BY <1>1, <1>2

LEMMA OperateStore ==
  ASSUME StoreInv, Operate
  PROVE  StoreInv'
<1>0. conn \in Good /\ Level \subseteq Levels /\ Gates \subseteq Nat
  BY PipelineAssumption DEF StoreInv, Levels
<1>1. ASSUME NEW l \in Level, NEW c \in BOOLEAN, NEW p \in BOOLEAN,
             SetAutonomy(l, c, p)
      PROVE  StoreInv'
  <2> DEFINE d == [WithAutonomy(conn, l) EXCEPT
                     !.policy = @ \/ (p /\ l = "auto_respond")]
  <2>1. d \in Good
    BY <1>0, GoodAutonomy, Zenon
  <2>2. Store(d) /\ disk' = disk
    BY <1>1, Zenon DEF SetAutonomy
  <2> HIDE DEF d
  <2> QED BY <2>1, <2>2, Stored, Zenon
<1>2. ASSUME NEW b \in BOOLEAN, SetMuted(b)
      PROVE  StoreInv'
  <2> DEFINE c == [conn EXCEPT !.muted = b]
  <2>1. c \in Good
    BY <1>0, GoodUpdates, Zenon
  <2>2. Store(c) /\ disk' = disk
    BY <1>2, Zenon DEF SetMuted
  <2> HIDE DEF c
  <2> QED BY <2>1, <2>2, Stored, Zenon
<1>3. ASSUME NEW b \in BOOLEAN, Intervene(b)
      PROVE  StoreInv'
  <2> DEFINE c == [conn EXCEPT !.passthrough = b]
  <2>1. c \in Good
    BY <1>0, GoodUpdates, Zenon
  <2>2. Store(c) /\ disk' = disk
    BY <1>3, Zenon DEF Intervene
  <2> HIDE DEF c
  <2> QED BY <2>1, <2>2, Stored, Zenon
<1>4. ASSUME NEW n \in Gates, SetPermissions(n)
      PROVE  StoreInv'
  <2> DEFINE c == [conn EXCEPT !.gates = n]
  <2>1. c \in Good
    BY <1>0, GoodUpdates, Zenon
  <2>2. Store(c) /\ disk' = disk
    BY <1>4, Zenon DEF SetPermissions
  <2> HIDE DEF c
  <2> QED BY <2>1, <2>2, Stored, Zenon
<1>5. ASSUME NEW m \in Msg, NEW a, ApproveMessage(m, a)
      PROVE  StoreInv'
  BY <1>5, Zenon DEF ApproveMessage, storeVars, StoreInv
<1>6. ASSUME AddConnection
      PROVE  StoreInv'
  <2> DEFINE c == [state |-> "pending", level |-> "full_manual",
                   tripped |-> FALSE, muted |-> FALSE, passthrough |-> FALSE,
                   policy |-> FALSE, gates |-> 0]
  <2>1. c \in Good
    BY DEF Good, Connection, Levels
  <2>2. Store(c) /\ disk' = disk
    BY <1>6 DEF AddConnection
  <2> HIDE DEF c
  <2> QED BY <2>1, <2>2, Stored, Zenon
<1>7. ASSUME NEW st \in {"active", "revoked"}, NEW op, SetState(st, op)
      PROVE  StoreInv'
  <2> DEFINE c == [conn EXCEPT !.state = st]
  <2>1. c \in Good
    BY <1>0, GoodUpdates, Zenon
  <2>2. Store(c) /\ disk' = disk
    BY <1>7, Zenon DEF SetState
  <2> HIDE DEF c
  <2> QED BY <2>1, <2>2, Stored, Zenon
<1> QED BY <1>1, <1>2, <1>3, <1>4, <1>5, <1>6, <1>7, Zenon DEF Operate

LEMMA HandleStore ==
  ASSUME StoreInv, NEW m \in Msg, Handle(m)
  PROVE  StoreInv'
<1>1. CASE Deny(m)
  BY <1>1, Recorded, Zenon DEF Deny
<1>2. CASE Route(m)
  BY <1>2, Recorded, Zenon DEF Route, RouteAs
<1>3. CASE \/ ReceiveMuted(m) \/ ReceiveTakenOver(m) \/ Receive(m)
           \/ CheckAnswered(m) \/ Refuse(m) \/ PolicyAnswered(m) \/ Confirm(m)
  BY <1>3, Zenon DEF ReceiveMuted, ReceiveTakenOver, Receive, CheckAnswered,
    Refuse, PolicyAnswered, Confirm, storeVars, StoreInv
<1> QED BY <1>1, <1>2, <1>3, Zenon DEF Handle

LEMMA NextStore ==
  ASSUME StoreInv, [Next]_vars
  PROVE  StoreInv'
<1>1. CASE SaveBegin
  <2>1. mkdirs' \in Nat
    BY <1>1, SMT DEF SaveBegin, StoreInv
  <2>2. snaps' \in Seq(Good)
    BY <1>1, SMT DEF SaveBegin, StoreInv
  <2> QED BY <1>1, <2>1, <2>2, Zenon DEF SaveBegin, StoreInv
<1>2. CASE SaveEnd
  <2>1. PICK i \in DOMAIN snaps :
          /\ disk' = snaps[i]
          /\ snaps' = SubSeq(snaps, 1, i - 1) \o SubSeq(snaps, i + 1, Len(snaps))
    BY <1>2, Zenon DEF SaveEnd
  <2>2. disk' \in Good
    BY <2>1, SMT DEF StoreInv
  <2>3. snaps' \in Seq(Good)
    BY <2>1, WriteEnds, Zenon DEF StoreInv
  <2> QED BY <1>2, <2>2, <2>3, Zenon DEF SaveEnd, StoreInv
<1>3. ASSUME Die
      PROVE  StoreInv'
  <2>1. <<>> \in Seq(Good) /\ 0 \in Nat
    OBVIOUS
  <2> QED BY <1>3, <2>1, Zenon DEF Die, StoreInv
<1>4. CASE Boot
  <2>1. [disk EXCEPT !.passthrough = FALSE] \in Good
    BY GoodUpdates, Zenon DEF StoreInv
  <2> QED BY <1>4, <2>1, Zenon DEF Boot, StoreInv
<1>5. CASE Tick \/ UNCHANGED vars
  BY <1>5, Zenon DEF Tick, vars, storeVars, StoreInv
<1> QED BY <1>1, <1>2, <1>3, <1>4, <1>5, HandleStore, OperateStore, Zenon
  DEF Next, Stop, Redeliver

-----------------------------------------------------------------------------
(* What one step does to a message                                         *)

LEMMA RoutedFacts ==
  ASSUME NEW c \in Good
  PROVE  /\ Routed(c) \in {"read_by_agent", "pending_policy_eval",
                           "escalated_to_human", "failed"}
         /\ Routed(c) = "read_by_agent" =>
              /\ c.state = "active" /\ ~c.tripped
              /\ c.level \in {"notify", "full_auto"}
         /\ Routed(c) = "pending_policy_eval" =>
              c.state = "active" /\ c.level = "auto_respond"
<1>1. c.level \in Levels /\ (c.tripped => c.level = "full_manual")
  BY DEF Good, Connection
<1> DEFINE L == c.level
           S == c.state
           P == c.policy
           T == c.tripped
<1>2. Routed(c) = IF S # "active" THEN "failed"
         ELSE CASE L = "full_auto" -> "read_by_agent"
                [] L = "notify" -> "read_by_agent"
                [] L = "auto_respond" -> (IF P THEN "pending_policy_eval"
                                               ELSE "escalated_to_human")
                [] L = "full_manual" -> "escalated_to_human"
  BY <1>1 DEF Routed, Levels
<1> HIDE DEF L, S, P, T
<1>3. L \in Levels /\ (T => L = "full_manual")
  BY <1>1 DEF L, T
<1> DEFINE R == Routed(c)
<1>4. /\ R \in {"read_by_agent", "pending_policy_eval",
                           "escalated_to_human", "failed"}
      /\ R = "read_by_agent" => S = "active" /\ ~T /\ L \in {"notify", "full_auto"}
      /\ R = "pending_policy_eval" => S = "active" /\ L = "auto_respond"
  <2> HIDE DEF R
  <2> QED BY <1>2, <1>3 DEF R, Levels
<1> QED BY <1>4 DEF L, S, T

LEMMA Updated ==
  ASSUME NEW S, NEW f \in [Msg -> S], NEW m \in Msg, NEW v
  PROVE  /\ [f EXCEPT ![m] = v][m] = v
         /\ \A n \in Msg : n # m => [f EXCEPT ![m] = v][n] = f[n]
OBVIOUS

Entry(m) == [msg |-> m, at |-> now, level |-> conn'.level, boot |-> crashes]

(* The step routes m to the agent, having counted it.                      *)
Reaches(m) ==
  /\ pc[m] = "allow" /\ pc'[m] = After(conn') /\ msg'[m] = Routed(conn')
  /\ Routed(conn') \in {"pending_policy_eval", "read_by_agent"}
  /\ auto' = auto \cup {Entry(m)}
  /\ events' = AddEvent(m, "message_flood")
  /\ ~Trips(m, "message_flood") /\ conn' = conn
  /\ RouteEntries(conn', m) \subseteq feed'
  /\ now' = now /\ crashes' = crashes

(* What else a step does to the breaker's events and the clock.            *)
Counts ==
  /\ auto' = auto
  /\ \/ events' = events /\ now' = now /\ crashes' = crashes
     \/ \E m \in Msg, type \in {"message_flood", "information_boundary"} :
          events' = AddEvent(m, type) /\ now' = now /\ crashes' = crashes
     \/ events' = events /\ now' = now + 1 /\ crashes' = crashes
     \/ events' = {} /\ now' = now /\ crashes' = crashes + 1

LEMMA RouteReaches ==
  ASSUME HandlingType, StoreInv, NEW m \in Msg, Route(m)
  PROVE  /\ Routed(conn') \in {"pending_policy_eval", "read_by_agent"}
              => Reaches(m)
         /\ Reaches(m) \/ Counts
<1> DEFINE c == AfterRecord(m, "message_flood")
<1>1. /\ pc[m] = "allow" /\ Record(m, "message_flood", RouteEntries(c, m))
      /\ UpdateState(m, Routed(c)) /\ Await(m, After(c))
      /\ auto' = IF Routed(c) \in {"pending_policy_eval", "read_by_agent"}
                 THEN auto \cup {[msg |-> m, at |-> now, level |-> c.level,
                                  boot |-> crashes]}
                 ELSE auto
      /\ now' = now /\ crashes' = crashes /\ disk' = disk
  BY Zenon DEF Route, RouteAs
<1> HIDE DEF c
<1>2. conn' = c /\ c \in Good
  BY <1>1, Recorded, Zenon DEF c, StoreInv
<1>3. events' = AddEvent(m, "message_flood") /\ RouteEntries(c, m) \subseteq feed'
  BY <1>1, Zenon DEF Record
<1>4. CASE Routed(c) \in {"pending_policy_eval", "read_by_agent"}
  <2>1. auto' = auto \cup {Entry(m)}
    BY <1>1, <1>2, <1>4, Zenon DEF Entry
  <2>2. pc'[m] = After(c) /\ msg'[m] = Routed(c)
    BY <1>1, Updated, Zenon DEF UpdateState, Await, HandlingType, PcMap, MsgMap
  <2>3. ~Trips(m, "message_flood")
    <3> SUFFICES ASSUME Trips(m, "message_flood") PROVE FALSE
      BY Zenon
    <3>1. c = [conn EXCEPT !.level = "full_manual", !.tripped = TRUE]
      BY Zenon DEF c, AfterRecord
    <3>2. c.level = "full_manual"
      BY <3>1, SMT DEF StoreInv, Good, Connection
    <3> QED BY <1>2, <1>4, <3>2, RoutedFacts, Zenon
  <2>4. c = conn
    BY <2>3, Zenon DEF c, AfterRecord
  <2> QED BY <1>1, <1>2, <1>3, <1>4, <2>1, <2>2, <2>3, <2>4, Zenon DEF Reaches
<1>5. CASE Routed(c) \notin {"pending_policy_eval", "read_by_agent"}
  BY <1>1, <1>2, <1>3, <1>5, Zenon DEF Counts
<1> QED BY <1>2, <1>4, <1>5, Zenon

(* What a step may do to the state and the handler of message m.           *)
Moves(m) ==
  \/ msg'[m] = msg[m] /\ pc'[m] = pc[m]
  \/ /\ msg[m] = "none"
     /\ \/ msg'[m] = "delivered"
           /\ pc'[m] \in {"confirm", "unknown", "allow", "check"}
        \/ msg'[m] = "escalated_to_human" /\ pc'[m] = "confirm"
  \/ /\ pc[m] = "check" /\ msg'[m] = msg[m]
     /\ pc'[m] \in {"check", "allow", "deny", "escalate", "error"}
  \/ /\ pc[m] \in {"unknown", "escalate", "error", "deny"}
     /\ msg'[m] \in {"failed", "escalated_to_human"} /\ pc'[m] = "confirm"
  \/ /\ pc[m] = "allow"
     /\ msg'[m] = Routed(conn') /\ pc'[m] = After(conn')
     /\ Routed(conn') \in {"pending_policy_eval", "read_by_agent"} => Reaches(m)
  \/ /\ pc[m] = "policy" /\ pc'[m] = "confirm"
     /\ msg'[m] \in {"read_by_agent", "failed", "escalated_to_human"}
     /\ <<"auto_respond_decision", m>> \in feed'
  \/ pc[m] = "confirm" /\ msg'[m] = msg[m] /\ pc'[m] = "done"
  \/ /\ msg[m] = "escalated_to_human" /\ m \in approved'
     /\ msg'[m] \in {"read_by_agent", "delivered"} /\ pc'[m] = pc[m]
  \/ pc[m] \notin {"idle", "done"} /\ msg'[m] = msg[m] /\ pc'[m] = "lost"

LEMMA EvaluatedFacts ==
  ASSUME NEW a \in Answer
  PROVE  Evaluated(a) \in {"read_by_agent", "failed", "escalated_to_human"}
BY PipelineAssumption DEF Evaluated

LEMMA HandleMoves ==
  ASSUME HandlingType, StoreInv, NEW m \in Msg, Handle(m)
  PROVE  \A n \in Msg : Moves(n)
<1>0. /\ \A st : UpdateState(m, st) =>
           msg'[m] = st /\ \A n \in Msg : n # m => msg'[n] = msg[n]
      /\ \A w : Await(m, w) =>
           pc'[m] = w /\ \A n \in Msg : n # m => pc'[n] = pc[n]
  BY Updated, Zenon DEF UpdateState, Await, HandlingType, MsgMap, PcMap
<1>1. CASE ReceiveMuted(m) \/ ReceiveTakenOver(m)
  BY <1>0, <1>1, Zenon DEF ReceiveMuted, ReceiveTakenOver, Moves
<1>8. CASE Receive(m)
  <2>1. PICK w \in {"unknown", "allow", "check"} : Await(m, w)
    BY <1>8, Zenon DEF Receive
  <2> QED BY <1>0, <1>8, <2>1, Zenon DEF Receive, Moves
<1>2. CASE CheckAnswered(m)
  <2>1. PICK a \in Answer :
          Await(m, IF a = "allow" /\ left[m] > 1 THEN "check" ELSE a)
    BY <1>2, Zenon DEF CheckAnswered
  <2>2. a \in {"allow", "deny", "escalate", "error"}
    BY PipelineAssumption
  <2>3. pc'[m] \in {"check", "allow", "deny", "escalate", "error"}
    BY <1>0, <2>1, <2>2, Zenon
  <2> QED BY <1>0, <1>2, <2>1, <2>3, Zenon DEF CheckAnswered, Moves
<1>3. CASE Refuse(m)
  BY <1>0, <1>3, Zenon DEF Refuse, Moves
<1>4. CASE Deny(m)
  BY <1>0, <1>4, Zenon DEF Deny, Moves
<1>5. CASE Route(m)
  <2>1. conn' = AfterRecord(m, "message_flood")
    BY <1>5, Recorded, Zenon DEF Route, RouteAs
  <2>2. pc[m] = "allow" /\ UpdateState(m, Routed(conn')) /\ Await(m, After(conn'))
    BY <1>5, <2>1, Zenon DEF Route, RouteAs
  <2> QED BY <1>0, <1>5, <2>2, RouteReaches, Zenon DEF Moves
<1>6. CASE PolicyAnswered(m)
  <2>1. PICK a \in Answer : UpdateState(m, Evaluated(a))
    BY <1>6, Zenon DEF PolicyAnswered
  <2>2. /\ pc[m] = "policy" /\ Await(m, "confirm")
        /\ <<"auto_respond_decision", m>> \in feed'
    BY <1>6, Zenon DEF PolicyAnswered
  <2>3. msg'[m] \in {"read_by_agent", "failed", "escalated_to_human"}
    BY <1>0, <2>1, EvaluatedFacts, Zenon
  <2> QED BY <1>0, <2>1, <2>2, <2>3, Zenon DEF Moves
<1>7. CASE Confirm(m)
  BY <1>0, <1>7, Zenon DEF Confirm, Moves
<1> QED BY <1>1, <1>2, <1>3, <1>4, <1>5, <1>6, <1>7, <1>8, Zenon DEF Handle

LEMMA NextMoves ==
  ASSUME HandlingType, StoreInv, [Next]_vars
  PROVE  \A n \in Msg : Moves(n)
<1>1. ASSUME NEW m \in Msg, NEW a, ApproveMessage(m, a)
      PROVE  \A n \in Msg : Moves(n)
  <2>1. \A st : UpdateState(m, st) =>
           msg'[m] = st /\ \A n \in Msg : n # m => msg'[n] = msg[n]
    BY Updated, Zenon DEF UpdateState, HandlingType, MsgMap
  <2> QED BY <1>1, <2>1, Zenon DEF ApproveMessage, Moves
<1>2. CASE Operate
  BY <1>1, <1>2, Zenon DEF Operate, SetAutonomy, SetMuted, Intervene,
    SetPermissions, AddConnection, SetState, Moves
<1>3. ASSUME Die
      PROVE  \A n \in Msg : Moves(n)
  <2>1. /\ msg' = msg
        /\ pc' = [m \in Msg |-> IF pc[m] \in {"idle", "done"} THEN pc[m] ELSE "lost"]
    BY <1>3, Zenon DEF Die
  <2> QED BY <2>1, Zenon DEF Moves
<1>4. CASE SaveBegin \/ SaveEnd \/ Boot \/ Tick \/ UNCHANGED vars
  BY <1>4, Zenon DEF SaveBegin, SaveEnd, Boot, Tick, vars, Moves
<1> QED BY <1>2, <1>3, <1>4, HandleMoves, Zenon DEF Next, Stop, Redeliver

-----------------------------------------------------------------------------
(* Types                                                                   *)

(* A handler at "check" has a check left, so its count stays natural.      *)
CheckLeft == \A m \in Msg : pc[m] = "check" => left[m] > 0

LEMMA UpdatedType ==
  ASSUME HandlingType, NEW m \in Msg
  PROVE  /\ \A st \in MessageState : UpdateState(m, st) => msg' \in MsgMap
         /\ \A w \in Handler : Await(m, w) => pc' \in PcMap
         /\ \A k \in Nat : [left EXCEPT ![m] = k] \in LeftMap
<1>1. \A st \in MessageState : [msg EXCEPT ![m] = st] \in MsgMap
  BY DEF HandlingType, MsgMap
<1>2. \A w \in Handler : [pc EXCEPT ![m] = w] \in PcMap
  BY DEF HandlingType, PcMap
<1>3. \A k \in Nat : [left EXCEPT ![m] = k] \in LeftMap
  BY DEF HandlingType, LeftMap
<1> QED BY <1>1, <1>2, <1>3, Zenon DEF UpdateState, Await

LEMMA HandleType ==
  ASSUME HandlingType, StoreInv, CheckLeft, NEW m \in Msg, Handle(m)
  PROVE  HandlingType'
<1>0. /\ \A st \in MessageState : UpdateState(m, st) => msg' \in MsgMap
      /\ \A w \in Handler : Await(m, w) => pc' \in PcMap
      /\ \A k \in Nat : [left EXCEPT ![m] = k] \in LeftMap
  BY UpdatedType, Zenon
<1>a. /\ {"delivered", "pending_policy_eval", "read_by_agent",
          "escalated_to_human", "failed"} \subseteq MessageState
      /\ {"check", "unknown", "allow", "deny", "escalate", "error",
          "policy", "confirm", "done"} \subseteq Handler
  BY Zenon DEF MessageState, Handler
<1>1. CASE ReceiveMuted(m) \/ ReceiveTakenOver(m)
  BY <1>0, <1>a, <1>1, Zenon DEF ReceiveMuted, ReceiveTakenOver, HandlingType, pastVars
<1>2. CASE Receive(m)
  <2>1. conn.gates \in Nat
    BY DEF StoreInv, Good, Connection
  <2>2. left' \in LeftMap
    BY <1>0, <1>2, <2>1, Zenon DEF Receive
  <2> QED BY <1>0, <1>a, <1>2, <2>2, Zenon DEF Receive, HandlingType, pastVars
<1>3. CASE CheckAnswered(m)
  <2>1. PICK a \in Answer :
          /\ left' = [left EXCEPT ![m] = IF a = "allow" THEN @ - 1 ELSE 0]
          /\ Await(m, IF a = "allow" /\ left[m] > 1 THEN "check" ELSE a)
    BY <1>3, Zenon DEF CheckAnswered
  <2>2. a \in {"allow", "deny", "escalate", "error"}
    BY PipelineAssumption
  <2>3. (IF a = "allow" THEN left[m] - 1 ELSE 0) \in Nat
    <3>1. left[m] \in Nat
      BY DEF HandlingType, LeftMap
    <3>2. left[m] > 0
      BY <1>3, Zenon DEF CheckAnswered, CheckLeft
    <3> QED BY <3>1, <3>2, SMT
  <2>4. left' \in LeftMap
    BY <1>0, <2>1, <2>3, Zenon
  <2>5. a \in Handler /\ "check" \in Handler
    BY <1>a, <2>2, Zenon
  <2>6. pc' \in PcMap
    BY <1>0, <2>1, <2>5, Zenon
  <2> QED BY <1>3, <2>4, <2>6, Zenon DEF CheckAnswered, HandlingType, pastVars
<1>4. CASE Refuse(m)
  BY <1>0, <1>a, <1>4, Zenon DEF Refuse, HandlingType, pastVars
<1>5. CASE Deny(m)
  BY <1>0, <1>a, <1>5, Zenon DEF Deny, HandlingType, pastVars
<1>6. CASE Route(m)
  <2>1. conn' = AfterRecord(m, "message_flood") /\ conn' \in Good
    BY <1>6, Recorded, Zenon DEF Route, RouteAs, StoreInv
  <2>2. Routed(conn') \in MessageState /\ After(conn') \in Handler
    BY <1>a, <2>1, RoutedFacts, Zenon DEF After
  <2> QED BY <1>0, <1>6, <2>1, <2>2, Zenon DEF Route, RouteAs, HandlingType, pastVars
<1>7. CASE PolicyAnswered(m)
  BY <1>0, <1>a, <1>7, EvaluatedFacts, Zenon DEF PolicyAnswered, HandlingType, pastVars
<1>8. CASE Confirm(m)
  BY <1>0, <1>a, <1>8, Zenon DEF Confirm, HandlingType, pastVars
<1> QED BY <1>1, <1>2, <1>3, <1>4, <1>5, <1>6, <1>7, <1>8, Zenon DEF Handle

LEMMA NextHandling ==
  ASSUME HandlingType, StoreInv, CheckLeft, [Next]_vars
  PROVE  HandlingType'
<1>1. ASSUME NEW m \in Msg, NEW a, ApproveMessage(m, a)
      PROVE  HandlingType'
  <2>1. \A st \in MessageState : UpdateState(m, st) => msg' \in MsgMap
    BY UpdatedType, Zenon
  <2> QED BY <1>1, <2>1, Zenon DEF ApproveMessage, MessageState, HandlingType, pastVars
<1>2. CASE Operate
  BY <1>1, <1>2, Zenon DEF Operate, SetAutonomy, SetMuted, Intervene,
    SetPermissions, AddConnection, SetState, HandlingType, pastVars
<1>3. ASSUME Die
      PROVE  HandlingType'
  <2>1. /\ pc' = [m \in Msg |-> IF pc[m] \in {"idle", "done"} THEN pc[m] ELSE "lost"]
        /\ left' = [m \in Msg |-> 0]
    BY <1>3, Zenon DEF Die
  <2>2. pc' \in PcMap /\ left' \in LeftMap
    BY <2>1 DEF HandlingType, PcMap, LeftMap, Handler
  <2> QED BY <1>3, <2>2, Zenon DEF Die, HandlingType, pastVars
<1>4. CASE SaveBegin \/ SaveEnd \/ Boot \/ Tick \/ UNCHANGED vars
  BY <1>4, Zenon DEF SaveBegin, SaveEnd, Boot, Tick, vars, HandlingType, pastVars
<1> QED BY <1>2, <1>3, <1>4, HandleType, Zenon DEF Next, Stop, Redeliver

LEMMA NextCheckLeft ==
  ASSUME HandlingType, StoreInv, CheckLeft, [Next]_vars
  PROVE  CheckLeft'
<1>1. ASSUME NEW m \in Msg, Receive(m)
      PROVE  CheckLeft'
  <2>1. conn.gates \in Nat
    BY DEF StoreInv, Good, Connection
  <2>2. /\ pc'[m] = "check" => conn.gates # 0
        /\ left'[m] = conn.gates
        /\ \A n \in Msg : n # m => pc'[n] = pc[n] /\ left'[n] = left[n]
    BY <1>1, Updated, Zenon DEF Receive, Await, HandlingType, PcMap, LeftMap
  <2>3. pc'[m] = "check" => left'[m] > 0
    BY <2>1, <2>2, SMT
  <2> QED BY <2>2, <2>3, Zenon DEF CheckLeft
<1>2. ASSUME NEW m \in Msg, CheckAnswered(m)
      PROVE  CheckLeft'
  <2>1. PICK a \in Answer :
          /\ left' = [left EXCEPT ![m] = IF a = "allow" THEN @ - 1 ELSE 0]
          /\ Await(m, IF a = "allow" /\ left[m] > 1 THEN "check" ELSE a)
    BY <1>2, Zenon DEF CheckAnswered
  <2>2. a # "check" /\ left[m] \in Nat
    BY PipelineAssumption DEF HandlingType, LeftMap
  <2>3. /\ pc'[m] = "check" => a = "allow" /\ left[m] > 1
        /\ left'[m] = IF a = "allow" THEN left[m] - 1 ELSE 0
        /\ \A n \in Msg : n # m => pc'[n] = pc[n] /\ left'[n] = left[n]
    BY <2>1, <2>2, Updated, Zenon DEF Await, HandlingType, PcMap, LeftMap
  <2>4. pc'[m] = "check" => left'[m] > 0
    BY <2>2, <2>3, SMT
  <2> QED BY <2>3, <2>4, Zenon DEF CheckLeft
<1>3. ASSUME left' = left, NEW m \in Msg, NEW w, w # "check", Await(m, w)
      PROVE  CheckLeft'
  BY <1>3, Updated, Zenon DEF Await, HandlingType, PcMap, CheckLeft
<1>4. ASSUME NEW m \in Msg, Handle(m)
      PROVE  CheckLeft'
  BY <1>1, <1>2, <1>3, <1>4, Zenon DEF Handle, ReceiveMuted, ReceiveTakenOver,
    Refuse, Deny, Route, RouteAs, After, PolicyAnswered, Confirm
<1>5. CASE Operate \/ SaveBegin \/ SaveEnd \/ Boot \/ Tick \/ UNCHANGED vars
  BY <1>5, Zenon DEF Operate, SetAutonomy, SetMuted, Intervene, SetPermissions,
    ApproveMessage, AddConnection, SetState, SaveBegin, SaveEnd, Boot, Tick,
    vars, CheckLeft
<1>6. ASSUME Die
      PROVE  CheckLeft'
  <2>1. pc' = [m \in Msg |-> IF pc[m] \in {"idle", "done"} THEN pc[m] ELSE "lost"]
    BY <1>6, Zenon DEF Die
  <2> QED BY <2>1, Zenon DEF CheckLeft
<1> QED BY <1>4, <1>5, <1>6, Zenon DEF Next, Stop, Redeliver

-----------------------------------------------------------------------------
(* Where the handler of a message is, and what the store says of it        *)

LEMMA PastSteps ==
  ASSUME HandlingType, [Next]_vars
  PROVE  /\ feed \subseteq feed' /\ approved \subseteq approved'
         /\ \A m \in confirmed' :
              m \in confirmed \/ (pc[m] = "confirm" /\ pc'[m] = "done")
         /\ \A m \in approved' \ approved :
              /\ msg[m] = "escalated_to_human" /\ pc'[m] = pc[m]
              /\ msg'[m] \in {"read_by_agent", "delivered"}
<1>1. ASSUME NEW m \in Msg, Handle(m)
      PROVE  /\ feed \subseteq feed' /\ approved' = approved
             /\ confirmed' = confirmed \/ Confirm(m)
  BY <1>1, Zenon DEF Handle, ReceiveMuted, ReceiveTakenOver, Receive,
    CheckAnswered, Refuse, Deny, Record, Route, RouteAs, PolicyAnswered, Confirm,
    pastVars
<1>2. ASSUME NEW m \in Msg, Confirm(m)
      PROVE  \A n \in confirmed' :
               n \in confirmed \/ (pc[n] = "confirm" /\ pc'[n] = "done")
  <2>1. pc' = [pc EXCEPT ![m] = "done"]
    BY <1>2, Zenon DEF Confirm, Await
  <2>2. pc'[m] = "done"
    BY <2>1, Updated, Zenon DEF HandlingType, PcMap
  <2> QED BY <1>2, <2>2, Zenon DEF Confirm
<1>3. ASSUME NEW m \in Msg, NEW a, ApproveMessage(m, a)
      PROVE  /\ feed' = feed /\ confirmed' = confirmed
             /\ approved \subseteq approved'
             /\ \A n \in approved' \ approved :
                  /\ msg[n] = "escalated_to_human" /\ pc'[n] = pc[n]
                  /\ msg'[n] \in {"read_by_agent", "delivered"}
  <2>1. PICK st \in {"read_by_agent", "delivered"} :
          msg' = [msg EXCEPT ![m] = st]
    BY <1>3, Zenon DEF ApproveMessage, UpdateState
  <2>2. msg'[m] \in {"read_by_agent", "delivered"}
    BY <2>1, Updated, Zenon DEF HandlingType, MsgMap
  <2> QED BY <1>3, <2>2, Zenon DEF ApproveMessage
<1>4. ASSUME \/ Operate \/ SaveBegin \/ SaveEnd \/ Die \/ Boot \/ Tick
             \/ UNCHANGED vars
      PROVE  \/ feed' = feed /\ confirmed' = confirmed /\ approved' = approved
             \/ \E m \in Msg, a \in {"agent_handle", "human_respond"} :
                  ApproveMessage(m, a)
  BY <1>4, Zenon DEF Operate, SetAutonomy, SetMuted, Intervene, SetPermissions,
    AddConnection, SetState, SaveBegin, SaveEnd, Die, Boot, Tick, vars, pastVars
<1> QED BY <1>1, <1>2, <1>3, <1>4, Zenon DEF Next, Stop, Redeliver

LEMMA NextHandler ==
  ASSUME HandlingType, StoreInv, CheckLeft, HandlerInv, [Next]_vars
  PROVE  HandlerInv'
<1> SUFFICES ASSUME NEW m \in Msg
             PROVE  HandlerInv!(m)'
  BY Zenon DEF HandlerInv
<1>1. Moves(m)
  BY NextMoves, Zenon
<1>2. /\ m \in confirmed' => m \in confirmed \/ (pc[m] = "confirm" /\ pc'[m] = "done")
      /\ m \in approved' => \/ m \in approved
                            \/ /\ msg[m] = "escalated_to_human" /\ pc'[m] = pc[m]
                               /\ msg'[m] \in {"read_by_agent", "delivered"}
  BY PastSteps, Zenon
<1>3. conn' \in Good
  BY NextStore, Zenon DEF StoreInv
<1> QED BY <1>1, <1>2, <1>3, RoutedFacts, Zenon DEF HandlerInv, Moves, After

-----------------------------------------------------------------------------
(* The messages that reach the agent on its own authority                  *)

LEMMA AutoSteps ==
  ASSUME HandlingType, StoreInv, [Next]_vars
  PROVE  Counts \/ \E m \in Msg : Reaches(m)
<1>1. ASSUME NEW m \in Msg, Handle(m)
      PROVE  Counts \/ \E n \in Msg : Reaches(n)
  BY <1>1, RouteReaches, Zenon DEF Handle, ReceiveMuted, ReceiveTakenOver,
    Receive, CheckAnswered, Refuse, Deny, Record, PolicyAnswered, Confirm,
    pastVars, Counts
<1>2. CASE Operate \/ SaveBegin \/ SaveEnd \/ Boot \/ Tick \/ UNCHANGED vars
  BY <1>2, Zenon DEF Operate, SetAutonomy, SetMuted, Intervene, SetPermissions,
    ApproveMessage, AddConnection, SetState, SaveBegin, SaveEnd, Boot, Tick,
    vars, pastVars, Counts
<1>3. ASSUME Die
      PROVE  Counts
  BY <1>3, Zenon DEF Die, pastVars, Counts
<1> QED BY <1>1, <1>2, <1>3, Zenon DEF Next, Stop, Redeliver

LEMMA EntryFacts ==
  ASSUME StoreInv', CountsType, NEW m \in Msg
  PROVE  /\ Entry(m) \in AutoRecord /\ Entry(m).msg = m /\ Entry(m).at = now
         /\ Entry(m).level = conn'.level /\ Entry(m).boot = crashes
<1>1. conn'.level \in Levels
  BY DEF StoreInv, Good, Connection
<1>2. now \in Nat /\ crashes \in Nat
  BY DEF CountsType
<1> QED BY <1>1, <1>2 DEF Entry, AutoRecord

LEMMA AddEventFacts ==
  ASSUME CountsType, NEW m \in Msg,
         NEW type \in {"message_flood", "information_boundary"}
  PROVE  AddEvent(m, type) \subseteq EventRecord
<1>1. [type |-> type, at |-> now, msg |-> m] \in EventRecord
  BY DEF CountsType, EventRecord, TriggerType
<1> QED BY <1>1, Zenon DEF CountsType, AddEvent, PruneOldEvents

LEMMA NextCounts ==
  ASSUME HandlingType, StoreInv, CountsType, [Next]_vars
  PROVE  CountsType'
<1>0. now \in Nat /\ ops \in Nat /\ crashes \in Nat
  BY Zenon DEF CountsType
<1>1. /\ now' \in Nat /\ crashes' \in Nat
      /\ events' \subseteq EventRecord /\ auto' \subseteq AutoRecord
  <2>0. now + 1 \in Nat /\ crashes + 1 \in Nat
    BY <1>0, SMT
  <2>1. CASE Counts
    BY <1>0, <2>0, <2>1, AddEventFacts, Zenon DEF Counts, CountsType
  <2>2. ASSUME NEW m \in Msg, Reaches(m)
        PROVE  <1>1
    <3>1. Entry(m) \in AutoRecord
      BY EntryFacts, NextStore, Zenon
    <3>2. /\ auto' = auto \cup {Entry(m)} /\ now' = now /\ crashes' = crashes
          /\ events' = AddEvent(m, "message_flood")
      BY <2>2, Zenon DEF Reaches
    <3> QED BY <1>0, <3>1, <3>2, AddEventFacts, Zenon DEF CountsType
  <2> QED BY <2>1, <2>2, AutoSteps, Zenon
<1>2. ops' = ops \/ ops' = ops + 1
  <2>1. ASSUME NEW m \in Msg, Handle(m)
        PROVE  ops' = ops
    BY <2>1, Zenon DEF Handle, ReceiveMuted, ReceiveTakenOver, Receive,
      CheckAnswered, Refuse, Deny, Route, RouteAs, PolicyAnswered, Confirm
  <2>2. CASE Operate
    BY <2>2, Zenon DEF Operate, SetAutonomy, SetMuted, Intervene,
      SetPermissions, ApproveMessage, AddConnection, SetState, Operation
  <2>3. CASE Die \/ SaveBegin \/ SaveEnd \/ Boot \/ Tick \/ UNCHANGED vars
    BY <2>3, Zenon DEF Die, SaveBegin, SaveEnd, Boot, Tick, vars
  <2> QED BY <2>1, <2>2, <2>3, Zenon DEF Next, Stop, Redeliver
<1>3. ops' \in Nat
  BY <1>0, <1>2, SMT
<1> QED BY <1>1, <1>3, Zenon DEF CountsType

LEMMA NextAuto ==
  ASSUME HandlingType, StoreInv, CountsType, HandlerInv, AutoInv, [Next]_vars
  PROVE  AutoInv'
<1> DEFINE Past == {"policy", "confirm", "done", "lost"}
<1>1. \A m \in Msg : pc[m] \in Past => pc'[m] \in Past
  BY NextMoves, Zenon DEF HandlerInv, Moves
<1>2. \A r \in auto : r.msg \in Msg /\ r.boot \in Nat
  BY DEF CountsType, AutoRecord
<1>3. crashes' = crashes \/ crashes' = crashes + 1
  BY AutoSteps, Zenon DEF Counts, Reaches
<1>4. \A r \in auto : pc'[r.msg] \in Past /\ r.boot <= crashes'
  <2>1. \A r \in auto : r.boot <= crashes'
    BY <1>2, <1>3, SMT DEF AutoInv, CountsType
  <2> QED BY <1>1, <1>2, <2>1, Zenon DEF AutoInv
<1>5. ASSUME NEW m \in Msg, pc'[m] = "policy"
      PROVE  \E r \in auto' : r.msg = m /\ r.level = "auto_respond"
  <2>1. CASE pc[m] = "policy"
    <3>1. auto \subseteq auto'
      BY AutoSteps, Zenon DEF Counts, Reaches
    <3> QED BY <2>1, <3>1, Zenon DEF AutoInv
  <2>2. CASE pc[m] # "policy"
    <3>1. After(conn') = "policy" /\ Reaches(m)
      BY <1>5, <2>2, NextMoves, Zenon DEF HandlerInv, Moves, After
    <3>2. Entry(m) \in auto' /\ Entry(m).msg = m /\ Entry(m).level = conn'.level
      BY <3>1, EntryFacts, NextStore, Zenon DEF Reaches
    <3>3. conn'.level = "auto_respond"
      BY <3>1, RoutedFacts, NextStore, Zenon DEF After, StoreInv
    <3> QED BY <3>2, <3>3, Zenon
  <2> QED BY <2>1, <2>2, Zenon
<1>6. CASE Counts
  <2>1. auto' = auto
    BY <1>6, Zenon DEF Counts
  <2> QED BY <1>4, <1>5, <2>1, Zenon DEF AutoInv
<1>7. ASSUME NEW m \in Msg, Reaches(m)
      PROVE  AutoInv'
  <2>1. /\ auto' = auto \cup {Entry(m)} /\ pc[m] = "allow"
        /\ pc'[m] = After(conn') /\ crashes' = crashes
    BY <1>7, Zenon DEF Reaches
  <2>2. Entry(m).msg = m /\ Entry(m).boot = crashes /\ Entry(m).level = conn'.level
    BY EntryFacts, NextStore, Zenon
  <2>3. \A r \in auto : r.msg # m
    BY <2>1, Zenon DEF AutoInv
  <2>4. pc'[m] \in Past /\ Entry(m).boot <= crashes'
    <3>1. crashes <= crashes
      BY SMT DEF CountsType
    <3> QED BY <2>1, <2>2, <3>1, Zenon DEF After
  <2>5. \A r \in auto' : pc'[r.msg] \in Past /\ r.boot <= crashes'
    BY <1>4, <2>1, <2>2, <2>4, Zenon
  <2>6. ASSUME NEW r \in auto', NEW s \in auto', r.msg = s.msg
        PROVE  r = s
    <3>1. r \in auto \/ r = Entry(m)
      BY <2>1, Zenon
    <3>2. s \in auto \/ s = Entry(m)
      BY <2>1, Zenon
    <3>3. CASE r \in auto /\ s \in auto
      BY <2>6, <3>3, Zenon DEF AutoInv
    <3> QED BY <2>2, <2>3, <2>6, <3>1, <3>2, <3>3, Zenon
  <2> QED BY <1>5, <2>5, <2>6, Zenon DEF AutoInv
<1> QED BY <1>6, <1>7, AutoSteps, Zenon

-----------------------------------------------------------------------------
(* What the agent reads is logged                                          *)

LEMMA NextLogged ==
  ASSUME HandlingType, StoreInv, CountsType, HandlerInv, AutoInv, ReadIsLogged,
         [Next]_vars
  PROVE  ReadIsLogged'
<1> DEFINE Logged(m, r, f) ==
      /\ r.msg = m
      /\ r.level = "notify" => <<"message_processed_autonomously", m>> \in f
      /\ r.level = "auto_respond" => <<"auto_respond_decision", m>> \in f
<1> SUFFICES ASSUME NEW m \in Msg, msg'[m] = "read_by_agent", m \notin approved'
             PROVE  \E r \in auto' : Logged(m, r, feed')
  BY Zenon DEF ReadIsLogged
<1>1. auto \subseteq auto' /\ feed \subseteq feed' /\ approved \subseteq approved'
  BY AutoSteps, PastSteps, Zenon DEF Counts, Reaches
<1>2. Moves(m)
  BY NextMoves, Zenon
<1>3. CASE msg[m] = "read_by_agent"
  <2>1. \E r \in auto : Logged(m, r, feed)
    BY <1>1, <1>3, Zenon DEF ReadIsLogged
  <2> QED BY <1>1, <2>1, Zenon
<1>4. CASE pc[m] = "policy" /\ <<"auto_respond_decision", m>> \in feed'
  BY <1>1, <1>4, Zenon DEF AutoInv
<1>5. CASE Routed(conn') = "read_by_agent" /\ Reaches(m)
  <2>1. /\ Entry(m) \in auto' /\ Entry(m).msg = m /\ Entry(m).level = conn'.level
        /\ RouteEntries(conn', m) \subseteq feed'
    BY <1>5, EntryFacts, NextStore, Zenon DEF Reaches
  <2>2. conn'.state = "active" /\ conn'.level \in {"notify", "full_auto"}
    BY <1>5, RoutedFacts, NextStore, Zenon DEF StoreInv
  <2>3. conn'.level = "notify" =>
          <<"message_processed_autonomously", m>> \in RouteEntries(conn', m)
    BY <2>2, Zenon DEF RouteEntries
  <2> QED BY <2>1, <2>2, <2>3, Zenon
<1> QED BY <1>2, <1>3, <1>4, <1>5, Zenon DEF Moves

-----------------------------------------------------------------------------
(* The breaker counts every message that reached the agent                 *)

LEMMA LongestFacts ==
  Longest \in Nat /\ FloodWindow <= Longest
<1> DEFINE W == {FloodWindow, ViolationWindow, BoundaryProbeWindow}
           Top(w) == \A v \in W : v <= w
<1>1. FloodWindow \in Nat /\ ViolationWindow \in Nat /\ BoundaryProbeWindow \in Nat
  BY PipelineAssumption, Zenon
<1>2. \E w \in W : Top(w)
  BY <1>1, SMT
<1>3. Longest = CHOOSE w \in W : Top(w)
  BY DEF Longest
<1>4. Longest \in W /\ Top(Longest)
  <2> HIDE DEF W, Top
  <2> QED BY <1>2, <1>3, Zenon
<1> QED BY <1>1, <1>4, Zenon

INSTANCE FiniteSetTheorems

LEMMA AddEventFinite ==
  ASSUME IsFiniteSet(events), NEW m, NEW type
  PROVE  IsFiniteSet(AddEvent(m, type))
<1> DEFINE E == events \cup {[type |-> type, at |-> now, msg |-> m]}
<1>1. IsFiniteSet(E)
  BY FS_AddElement
<1>2. AddEvent(m, type) \subseteq E
  BY Zenon DEF AddEvent, PruneOldEvents
<1> HIDE DEF E
<1> QED BY <1>1, <1>2, FS_Subset, Zenon

LEMMA AddEventKeeps ==
  ASSUME NEW m, NEW type
  PROVE  /\ \A e \in events : Since(e, Longest) => e \in AddEvent(m, type)
         /\ Since([type |-> type, at |-> now, msg |-> m], Longest) =>
              [type |-> type, at |-> now, msg |-> m] \in AddEvent(m, type)
BY Zenon DEF AddEvent, PruneOldEvents

Counted(r, es) ==
  \E e \in es : e.type = "message_flood" /\ e.at = r.at /\ e.msg = r.msg

LEMMA AddEventCounted ==
  ASSUME CountsType, NEW m, NEW type, NEW r, Counted(r, events),
         Since(r, Longest)
  PROVE  Counted(r, AddEvent(m, type))
BY AddEventKeeps, Zenon DEF Counted, Since

(* What is within a window after the step was within it before.            *)
LEMMA WindowSteps ==
  ASSUME HandlingType, StoreInv, CountsType, AutoInv, [Next]_vars,
         NEW r \in auto, NEW w \in Nat, r.boot = crashes', r.at + w > now'
  PROVE  r.boot = crashes /\ crashes' # crashes + 1 /\ r.at + w > now
<1> DEFINE at == r.at
           boot == r.boot
<1>1. /\ now \in Nat /\ crashes \in Nat /\ at \in Nat /\ boot \in Nat
      /\ boot <= crashes
  BY DEF CountsType, AutoRecord, AutoInv
<1>2. now' \in {now, now + 1} /\ crashes' \in {crashes, crashes + 1}
  BY AutoSteps, Zenon DEF Counts, Reaches
<1>3. at + w > now' /\ boot = crashes'
  BY Zenon
<1>4. boot = crashes /\ crashes' # crashes + 1 /\ at + w > now
  <2> HIDE DEF at, boot
  <2> QED BY <1>1, <1>2, <1>3, SMT
<1> QED BY <1>4

LEMMA NextEvent ==
  ASSUME HandlingType, StoreInv, CountsType, AutoInv, EventInv, [Next]_vars
  PROVE  EventInv'
<1>0. /\ now \in Nat /\ crashes \in Nat /\ Longest \in Nat
      /\ \A r \in auto : r.at \in Nat /\ r.boot \in Nat
  BY LongestFacts DEF CountsType, AutoRecord
<1>1. IsFiniteSet(events') /\ IsFiniteSet(auto')
  <2>1. IsFiniteSet(events) /\ IsFiniteSet(auto) /\ IsFiniteSet({})
    BY FS_EmptySet, Zenon DEF EventInv
  <2>2. \A m : IsFiniteSet(auto \cup {Entry(m)})
    BY <2>1, FS_AddElement
  <2> QED BY <2>1, <2>2, AutoSteps, AddEventFinite, Zenon DEF Counts, Reaches
<1>2. ASSUME NEW r \in auto, r.boot = crashes', Since(r, Longest)'
      PROVE  Counted(r, events')
  <2>2. Longest' = Longest
    BY DEF Longest
  <2>3. r.boot = crashes /\ crashes' # crashes + 1 /\ Since(r, Longest)
    BY <1>0, <1>2, <2>2, WindowSteps, Zenon DEF Since
  <2>4. Counted(r, events)
    BY <2>3, Zenon DEF EventInv, Counted
  <2> QED BY <2>3, <2>4, AddEventCounted, AutoSteps, Zenon DEF Counts, Reaches
<1>3. ASSUME NEW m \in Msg, Reaches(m)
      PROVE  Counted(Entry(m), events')
  <2> DEFINE e == [type |-> "message_flood", at |-> now, msg |-> m]
  <2>3. e.type = "message_flood" /\ e.at = now /\ e.msg = m
    OBVIOUS
  <2>1. Since(e, Longest)
    <3>1. now + Longest > now
      BY <1>0, LongestFacts, PipelineAssumption, SMT
    <3> HIDE DEF e
    <3> QED BY <2>3, <3>1, Zenon DEF Since
  <2>2. e \in events'
    BY <1>3, <2>1, AddEventKeeps, Zenon DEF Reaches
  <2> HIDE DEF e
  <2> QED BY <2>2, <2>3, EntryFacts, NextStore, Zenon DEF Counted
<1>4. \A r \in auto' : r \in auto \/ \E m \in Msg : Reaches(m) /\ r = Entry(m)
  BY AutoSteps, Zenon DEF Counts, Reaches
<1>5. ASSUME NEW r \in auto', r.boot = crashes', Since(r, Longest)'
      PROVE  Counted(r, events')
  BY <1>2, <1>3, <1>4, <1>5, Zenon
<1> QED BY <1>1, <1>5, Zenon DEF EventInv, Counted

(* The messages that reached the agent within the window.                  *)
Recent == {r \in auto : r.boot = crashes /\ Since(r, FloodWindow)}

LEMMA Counting ==
  ASSUME NEW A, NEW T, IsFiniteSet(T), T \subseteq EventRecord,
         \A r \in A : Counted(r, T),
         \A r \in A, s \in A : r.msg = s.msg => r = s
  PROVE  IsFiniteSet(A) /\ Cardinality(A) <= Cardinality(T)
<1> DEFINE f == [r \in A |-> [type |-> "message_flood", at |-> r.at,
                              msg |-> r.msg]]
<1>1. ASSUME NEW r \in A
      PROVE  f[r] \in T
  <2>1. PICK e \in T : e.type = "message_flood" /\ e.at = r.at /\ e.msg = r.msg
    BY Zenon DEF Counted
  <2>2. e = [type |-> "message_flood", at |-> r.at, msg |-> r.msg]
    BY <2>1 DEF EventRecord
  <2> QED BY <2>1, <2>2
<1>2. ASSUME NEW r \in A, NEW s \in A, f[r] = f[s]
      PROVE  r = s
  <2>1. f[r].msg = r.msg /\ f[s].msg = s.msg
    OBVIOUS
  <2> HIDE DEF f
  <2> QED BY <1>2, <2>1, Zenon
<1>3. f \in [A -> T] /\ DOMAIN f = A
  BY <1>1
<1> HIDE DEF f
<1>4. f \in Injection(A, T)
  BY <1>2, <1>3, SMT DEF Injection, IsInjective
<1> QED BY <1>4, FS_Injection, Zenon

(* The breaker has counted the recent messages.                            *)
LEMMA RecentCounted ==
  ASSUME CountsType, HandlingType, StoreInv, HandlerInv, AutoInv, EventInv,
         [Next]_vars
  PROVE  /\ IsFiniteSet(Recent')
         /\ Count(events, "message_flood", FloodWindow)' \in Nat
         /\ Cardinality(Recent') <= Count(events, "message_flood", FloodWindow)'
<1> DEFINE T == {e \in events' : e.type = "message_flood" /\ Since(e, FloodWindow)'}
           A == Recent'
<1>0. CountsType' /\ AutoInv' /\ EventInv'
  BY NextCounts, NextAuto, NextEvent, Zenon
<1>1. IsFiniteSet(T) /\ T \subseteq EventRecord
  <2>1. T \subseteq events'
    BY Zenon
  <2> HIDE DEF T
  <2> QED BY <1>0, <2>1, FS_Subset, Zenon DEF EventInv, CountsType
<1>2. ASSUME NEW r \in A
      PROVE  Counted(r, T)
  <2>0. r \in auto' /\ r.boot = crashes' /\ Since(r, FloodWindow)'
    BY Zenon DEF Recent
  <2>1. Since(r, Longest)'
    <3>1. r.at \in Nat /\ now' \in Nat /\ FloodWindow \in Nat
      BY <1>0, <2>0, PipelineAssumption DEF CountsType, AutoRecord
    <3>2. r.at + FloodWindow > now'
      BY <2>0, Zenon DEF Since
    <3>3. r.at + Longest > now'
      BY <3>1, <3>2, LongestFacts, SMT
    <3>4. Longest' = Longest
      BY DEF Longest
    <3> QED BY <3>3, <3>4, Zenon DEF Since
  <2>2. PICK e \in events' :
          e.type = "message_flood" /\ e.at = r.at /\ e.msg = r.msg
    BY <1>0, <2>0, <2>1, Zenon DEF EventInv
  <2> QED BY <2>0, <2>2, Zenon DEF Since, Counted
<1>3. \A r \in A, s \in A : r.msg = s.msg => r = s
  BY <1>0, Zenon DEF AutoInv, Recent
<1>4. Count(events, "message_flood", FloodWindow)' = Cardinality(T)
  BY Zenon DEF Count
<1> HIDE DEF A, T
<1>5. /\ IsFiniteSet(A) /\ Cardinality(A) <= Cardinality(T)
      /\ Cardinality(T) \in Nat
  BY <1>1, <1>2, <1>3, Counting, FS_CardinalityType, Zenon
<1> QED BY <1>4, <1>5, Zenon DEF A

LEMMA NextFlood ==
  ASSUME CountsType, HandlingType, StoreInv, HandlerInv, AutoInv, EventInv,
         FloodBound, [Next]_vars
  PROVE  FloodBound'
<1> DEFINE C == Cardinality(Recent)
           D == Cardinality(Recent')
           K == Count(events, "message_flood", FloodWindow)'
<1>0. FloodThreshold \in Nat /\ 0 < FloodThreshold
  BY PipelineAssumption, SMT
<1>1. C < FloodThreshold
  BY Zenon DEF FloodBound, Recent
<1>2. D \in Nat /\ K \in Nat /\ D <= K
  BY RecentCounted, FS_CardinalityType, Zenon
<1>3. CASE Recent' \subseteq Recent
  <2>1. IsFiniteSet(auto) /\ Recent \subseteq auto
    BY Zenon DEF EventInv, Recent
  <2>2. C \in Nat /\ D <= C
    BY <1>3, <2>1, FS_Subset, FS_CardinalityType, Zenon
  <2>3. D < FloodThreshold
    <3> HIDE DEF C, D
    <3> QED BY <1>0, <1>1, <1>2, <2>2, SMT
  <2> QED BY <2>3, Zenon DEF FloodBound, Recent
<1>4. ASSUME NEW m \in Msg, Reaches(m)
      PROVE  FloodBound'
  <2>1. K = Count(AddEvent(m, "message_flood"), "message_flood", FloodWindow)
    BY <1>4, Zenon DEF Reaches, Count, Since
  <2>2. ~(K >= FloodThreshold)
    <3>1. conn \in Good /\ Routed(conn) \in {"pending_policy_eval", "read_by_agent"}
      BY <1>4, Zenon DEF Reaches, StoreInv
    <3>2. ~conn.tripped
      BY <3>1, RoutedFacts, Zenon DEF Good
    <3>3. ~Check(AddEvent(m, "message_flood"))
      BY <1>4, <3>2, Zenon DEF Reaches, Trips
    <3> QED BY <2>1, <3>3, Zenon DEF Check
  <2>3. D < FloodThreshold
    <3> HIDE DEF D, K
    <3> QED BY <1>0, <1>2, <2>2, SMT
  <2> QED BY <2>3, Zenon DEF FloodBound, Recent
<1>5. CASE Counts
  <2>1. ASSUME NEW r \in Recent'
        PROVE  r \in Recent
    <3>1. r \in auto /\ r.boot = crashes' /\ r.at + FloodWindow > now'
      BY <1>5, Zenon DEF Counts, Recent, Since
    <3>2. r.boot = crashes /\ r.at + FloodWindow > now
      BY <3>1, WindowSteps, PipelineAssumption, Zenon
    <3> QED BY <3>1, <3>2, Zenon DEF Recent, Since
  <2> QED BY <1>3, <2>1, Zenon
<1> QED BY <1>4, <1>5, AutoSteps, Zenon

-----------------------------------------------------------------------------
(* The theorems                                                            *)

IInv ==
  /\ StoreInv /\ HandlingType /\ CountsType /\ CheckLeft
  /\ HandlerInv /\ AutoInv /\ ReadIsLogged /\ EventInv /\ FloodBound

LEMMA InitInv == Init => IInv
<1> SUFFICES ASSUME Init PROVE IInv
  OBVIOUS
<1>1. StoreInv
  <2>1. conn \in Good /\ disk = conn
    BY PipelineAssumption, Zenon DEF Init, Good, Connection, Levels
  <2> QED BY <2>1 DEF Init, StoreInv
<1>2. /\ msg = [m \in Msg |-> "none"] /\ pc = [m \in Msg |-> "idle"]
      /\ left = [m \in Msg |-> 0] /\ up = TRUE
      /\ confirmed = {} /\ approved = {} /\ auto = {} /\ events = {}
      /\ now = 0 /\ ops = 0 /\ crashes = 0
  BY Zenon DEF Init
<1>3. HandlingType /\ CountsType
  BY <1>2 DEF HandlingType, CountsType, MsgMap, PcMap, LeftMap, Handler
<1>4. HandlerInv /\ AutoInv /\ CheckLeft /\ ReadIsLogged
  BY <1>2, Zenon DEF HandlerInv, AutoInv, CheckLeft, ReadIsLogged
<1>5. EventInv
  BY <1>2, FS_EmptySet, Zenon DEF EventInv
<1>6. FloodBound
  <2>1. {r \in auto : r.boot = crashes /\ Since(r, FloodWindow)} = {}
    BY <1>2, Zenon
  <2>2. FloodThreshold \in Nat \ {0}
    BY PipelineAssumption
  <2> QED BY <2>1, <2>2, FS_EmptySet DEF FloodBound
<1> QED BY <1>1, <1>3, <1>4, <1>5, <1>6, Zenon DEF IInv

LEMMA NextInv == IInv /\ [Next]_vars => IInv'
BY NextStore, NextHandling, NextCounts, NextCheckLeft, NextHandler, NextAuto,
  NextLogged, NextEvent, NextFlood, Zenon DEF IInv

LEMMA Inductive == Spec => []IInv
BY InitInv, NextInv, PTL DEF Spec

(* TypeOK holds for any number of messages, levels, thresholds, windows    *)
(* and crashes: no handler, command, save() or restart writes a value of   *)
(* another type, and the checks left to a handler never go below zero.     *)
THEOREM PipelineTypes == Spec => []TypeOK
<1>1. IInv => TypeOK
  <2> SUFFICES ASSUME IInv PROVE TypeOK
    OBVIOUS
  <2>1. conn \in Connection /\ disk \in Connection /\ snaps \in Seq(Connection)
    BY DEF IInv, StoreInv, Good
  <2> QED BY <2>1, Zenon DEF IInv, StoreInv, HandlingType, CountsType, MsgMap,
    PcMap, LeftMap, AutoRecord, TypeOK
<1> QED BY <1>1, Inductive, PTL

(* checkAndTrip, setAutonomy, addConnection and the overlapping save()s    *)
(* keep TrippedIsManual, in memory, in every write and in the file.        *)
THEOREM TrippedStaysManual == Spec => []TrippedIsManual
<1>1. IInv => TrippedIsManual
  <2> SUFFICES ASSUME IInv PROVE TrippedIsManual
    OBVIOUS
  <2>1. \A i \in DOMAIN snaps : snaps[i] \in Good
    BY DEF IInv, StoreInv
  <2> QED BY <2>1, Zenon DEF IInv, StoreInv, Good, TrippedIsManual
<1> QED BY <1>1, Inductive, PTL

(* However many handlers interleave, recordMessage before route keeps the  *)
(* messages that reach the agent within a flood window below the           *)
(* threshold: every one of them is among the events the breaker counts.    *)
THEOREM FloodIsBounded == Spec => []FloodBound
BY Inductive, PTL DEF IInv

(* What route and evaluateAutoRespondPolicy hand to the agent is in the    *)
(* activity feed, whatever the human changes while the handler awaits.     *)
THEOREM ReadsAreLogged == Spec => []ReadIsLogged
BY Inductive, PTL DEF IInv

(* sendDeliveryConfirmation comes after the message's last updateState by  *)
(* its handler, and no restart undoes that.                                *)
THEOREM ConfirmedAreSettled == Spec => []ConfirmedIsSettled
<1>1. IInv => ConfirmedIsSettled
  BY Zenon DEF IInv, HandlingType, HandlerInv, ConfirmedIsSettled
<1> QED BY <1>1, Inductive, PTL

(* route reads the connection after the breaker did: a message it hands to *)
(* the agent finds the connection active, untripped and at a level that    *)
(* allows it in the same step.                                             *)
THEOREM DowngradeIsRespected == Spec => DowngradeHolds
<1> DEFINE Respects ==
      \A m \in Msg : pc[m] = "allow" /\ msg'[m] = "read_by_agent" =>
        /\ conn'.state = "active" /\ ~conn'.tripped
        /\ conn'.level \in {"notify", "full_auto"}
<1>1. IInv /\ [Next]_vars => [Respects]_vars
  <2> SUFFICES ASSUME IInv, [Next]_vars, NEW m \in Msg, pc[m] = "allow",
                      msg'[m] = "read_by_agent"
               PROVE  /\ conn'.state = "active" /\ ~conn'.tripped
                      /\ conn'.level \in {"notify", "full_auto"}
    BY Zenon
  <2>1. Moves(m) /\ conn' \in Good /\ msg[m] = "delivered"
    BY NextMoves, NextStore, Zenon DEF IInv, HandlerInv, StoreInv
  <2>2. Routed(conn') = "read_by_agent"
    BY <2>1, Zenon DEF Moves
  <2> QED BY <2>1, <2>2, RoutedFacts, Zenon
<1> QED BY <1>1, Inductive, PTL DEF Spec, DowngradeHolds

(* No handler is left that could write the state of a message the human    *)
(* decided with approveMessage, and a repeated message is not saved again. *)
THEOREM ApprovalIsFinal == Spec => ApprovalStands
<1> DEFINE Stands == \A m \in approved : msg'[m] = msg[m]
<1>1. IInv /\ [Next]_vars => [Stands]_vars
  <2> SUFFICES ASSUME IInv, [Next]_vars, NEW m \in approved
               PROVE  msg'[m] = msg[m]
    BY Zenon
  <2>1. m \in Msg /\ Moves(m)
    BY NextMoves, Zenon DEF IInv, HandlingType
  <2>2. /\ pc[m] \in {"confirm", "done", "lost"}
        /\ msg[m] \in {"read_by_agent", "delivered"}
    BY <2>1, Zenon DEF IInv, HandlerInv
  <2> QED BY <2>1, <2>2, Zenon DEF Moves
<1> QED BY <1>1, Inductive, PTL DEF Spec, ApprovalStands
=============================================================================
