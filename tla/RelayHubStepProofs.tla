------------------------ MODULE RelayHubStepProofs --------------------------
(***************************************************************************)
(* What a step of RelayHub does to the tables, to the goroutines and to    *)
(* the messages, what becomes of an entry of the queue, and the order in   *)
(* which a flush sends, for any sets of addresses and sessions and any     *)
(* bounds. That a bucket is finite, so that counting it gives a number,    *)
(* and that FlushBatch returns the oldest entries, which rests on that,    *)
(* are assumed here and shown in RelayHubProofs.                           *)
(***************************************************************************)
EXTENDS RelayHub, TLAPS

USE DEF procVars, hubVars, readVars, chanVars, flushVars, storeVars, logVars,
        histVars, vars, Live, Routing

(* Counting a bucket gives a number.                                       *)
CountsNat == \A a \in Addr : Count(a) \in Nat

-----------------------------------------------------------------------------
(* The arithmetic and the sequences, apart from the rest.                  *)

LEMMA FullBucket == Burst \in 0..Burst
BY RelayHubAssumption

LEMMA TakeTokenType ==
  ASSUME TypeOK, NEW a \in Addr, ~Limited(a), TakeToken(a)
  PROVE  tokens' \in [Addr -> 0..Burst]
BY RelayHubAssumption DEF Limited, TakeToken, TypeOK, StoreTypeOK

LEMMA FaultType ==
  ASSUME TypeOK, Fault \/ UNCHANGED faults PROVE faults' \in Nat
BY DEF Fault, TypeOK, HistTypeOK

(* Client.Send keeps a buffer a sequence of frames.                        *)
LEMMA PushType ==
  ASSUME TypeOK, NEW s \in Session, NEW item \in Item, Push(s, item)
  PROVE  send' \in [Session -> Seq(Item)]
<1>1. send \in [Session -> Seq(Item)] /\ Append(send[s], item) \in Seq(Item)
  BY DEF TypeOK, ChanTypeOK
<1> QED
  BY <1>1, Zenon DEF Push

LEMMA ControlItems ==
  /\ \A n \in Nat : QueueStatus(n) \in Item
  /\ \A a \in Addr : QueueFull(a) \in Item
  /\ RateLimited \in Item
BY Zenon DEF Item, Control, QueueStatus, QueueFull, RateLimited

(* A frame of a buffer that is not a control frame is a message.           *)
LEMMA MessageItem ==
  ASSUME NEW x \in Item, x.kind = "msg" PROVE x \in Message
BY Zenon DEF Item, Control, Message

-----------------------------------------------------------------------------
LEMMA InitType == Init => TypeOK
<1> SUFFICES ASSUME Init PROVE TypeOK
  OBVIOUS
<1>1. ReadTypeOK /\ ChanTypeOK
  BY DEF Init, ReadTypeOK, ChanTypeOK
<1>2. StoreTypeOK /\ HistTypeOK
  BY FullBucket DEF Init, StoreTypeOK, HistTypeOK
<1>3. ProcTypeOK /\ HubTypeOK
  BY Zenon DEF Init, ProcTypeOK, HubTypeOK
<1> QED
  BY <1>1, <1>2, <1>3, Zenon DEF TypeOK

LEMMA DieType ==
  ASSUME TypeOK, NEW who \in {"no", "route", "flush"}, Die(who),
         crashes' \in Nat
  PROVE  TypeOK'
<1>1. ReadTypeOK' /\ ChanTypeOK'
  BY DEF Die, ReadTypeOK, ChanTypeOK
<1> QED
  BY <1>1, FullBucket, Zenon
  DEF Die, TypeOK, ProcTypeOK, HubTypeOK, StoreTypeOK, HistTypeOK

(* RouteMessage answers or forwards the frame and returns.                 *)
LEMMA AnswerType ==
  ASSUME TypeOK, NEW s \in Session, NEW r \in Session, NEW item \in Item,
         Push(r, item), Return(s),
         UNCHANGED <<procVars, hubVars, closed, flushVars, conn, writer,
                     tokens, storeVars, histVars>>
  PROVE  TypeOK'
<1>1. send' \in [Session -> Seq(Item)]
  BY PushType, Zenon
<1> QED
  BY <1>1, Zenon DEF Return, TypeOK, ProcTypeOK, HubTypeOK, ReadTypeOK,
       ChanTypeOK, StoreTypeOK, HistTypeOK

LEMMA HubStepsType ==
  ASSUME TypeOK, CountsNat, HubSteps PROVE TypeOK'
<1>1. CASE HubCount
  <2>1. hubsess \in Session /\ faults' \in Nat
    BY <1>1, FaultType, Zenon DEF HubCount, TypeOK, HubTypeOK
  <2>2. Count(AddrOf[hubsess]) \in Nat
    BY RelayHubAssumption, <2>1, Zenon DEF CountsNat
  <2> QED
    BY <1>1, <2>1, <2>2, Zenon DEF HubCount, TypeOK, ProcTypeOK, HubTypeOK, ReadTypeOK,
       ChanTypeOK, StoreTypeOK, HistTypeOK
<1>2. CASE HubSendStatus
  <2>1. send' \in [Session -> Seq(Item)]
    BY <1>2, ControlItems, PushType, Zenon DEF HubSendStatus, TypeOK, HubTypeOK
  <2> QED
    BY <1>2, <2>1, Zenon DEF HubSendStatus, TypeOK, ProcTypeOK, HubTypeOK, ReadTypeOK,
       ChanTypeOK, StoreTypeOK, HistTypeOK
<1>3. CASE HubStartFlush
  BY <1>3, Zenon DEF HubStartFlush, TypeOK, ProcTypeOK, HubTypeOK, ReadTypeOK,
       ChanTypeOK, StoreTypeOK, HistTypeOK
<1>4. CASE HubStop
  <2>1. ReadTypeOK' /\ ChanTypeOK'
    BY <1>4 DEF HubStop, CloseAll, TypeOK, ReadTypeOK, ChanTypeOK
  <2> QED
    BY <1>4, <2>1, Zenon
    DEF HubStop, TypeOK, ProcTypeOK, HubTypeOK, StoreTypeOK, HistTypeOK
<1> QED
  BY <1>1, <1>2, <1>3, <1>4, Zenon DEF HubSteps

LEMMA HubSessionType ==
  ASSUME TypeOK, NEW s \in Session, HubSession(s) PROVE TypeOK'
<1>1. CASE HubReject(s)
  BY <1>1, Zenon DEF HubReject, TypeOK, ProcTypeOK, HubTypeOK, ReadTypeOK,
       ChanTypeOK, StoreTypeOK, HistTypeOK
<1>2. CASE HubAccept(s)
  BY <1>2, Zenon DEF HubAccept, TypeOK, ProcTypeOK, HubTypeOK, ReadTypeOK,
       ChanTypeOK, StoreTypeOK, HistTypeOK
<1>3. CASE HubUnregister(s)
  <2>1. /\ conn' \in [Session -> BOOLEAN] /\ closed' \in [Session -> BOOLEAN]
        /\ send' \in [Session -> Seq(Item)]
        /\ writer' \in [Session -> {"off", "on", "done"}]
    <3>1. UNCHANGED <<chanVars, writer, conn>> \/ CloseAll({s})
      BY <1>3, Zenon DEF HubUnregister
    <3>2. CASE UNCHANGED <<chanVars, writer, conn>>
      BY <3>2, Zenon DEF TypeOK, ReadTypeOK, ChanTypeOK
    <3>3. CASE CloseAll({s})
      <4>1. conn' \in [Session -> BOOLEAN]
        BY <3>3, Zenon DEF CloseAll, TypeOK, ReadTypeOK
      <4> QED
        BY <3>3, <4>1 DEF CloseAll, TypeOK, ChanTypeOK
    <3> QED
      BY <3>1, <3>2, <3>3, Zenon
  <2>2. /\ clients' \in [Addr -> Session \cup {NoSession}]
        /\ UNCHANGED <<procVars, hubpc, hubsess, hubcount, cur, rcpt,
                       flushVars, storeVars, histVars>>
        /\ tokens' = [tokens EXCEPT ![AddrOf[s]] = Burst]
        /\ spc' = [spc EXCEPT ![s] = "closed"]
    BY <1>3, Zenon DEF HubUnregister, TypeOK, HubTypeOK
  <2> QED
    BY <2>1, <2>2, FullBucket, Zenon DEF TypeOK, ProcTypeOK, HubTypeOK, ReadTypeOK,
       ChanTypeOK, StoreTypeOK, HistTypeOK
<1> QED
  BY <1>1, <1>2, <1>3, Zenon DEF HubSession

LEMMA HandlerType ==
  ASSUME TypeOK, NEW s \in Session,
         \/ Connect(s) \/ ConnDrop(s) \/ AuthResult(s) \/ AuthResultFails(s)
         \/ ReadFails(s) \/ ReadFrame(s)
  PROVE  TypeOK'
<1>1. CASE Connect(s)
  BY <1>1, Zenon DEF Connect, TypeOK, ProcTypeOK, HubTypeOK, ReadTypeOK,
       ChanTypeOK, StoreTypeOK, HistTypeOK
<1>2. CASE ConnDrop(s)
  BY <1>2, Zenon DEF ConnDrop, TypeOK, ProcTypeOK, HubTypeOK, ReadTypeOK,
       ChanTypeOK, StoreTypeOK, HistTypeOK
<1>3. CASE AuthResult(s)
  BY <1>3, Zenon DEF AuthResult, TypeOK, ProcTypeOK, HubTypeOK, ReadTypeOK,
       ChanTypeOK, StoreTypeOK, HistTypeOK
<1>4. CASE AuthResultFails(s)
  BY <1>4, Zenon DEF AuthResultFails, TypeOK, ProcTypeOK, HubTypeOK, ReadTypeOK,
       ChanTypeOK, StoreTypeOK, HistTypeOK
<1>5. CASE ReadFails(s)
  BY <1>5, Zenon DEF ReadFails, TypeOK, ProcTypeOK, HubTypeOK, ReadTypeOK,
       ChanTypeOK, StoreTypeOK, HistTypeOK
<1>6. CASE ReadFrame(s)
  <2>1. sent[AddrOf[s]] + 1 \in Nat
    BY RelayHubAssumption DEF TypeOK, HistTypeOK
  <2>2. Frames(AddrOf[s]) \subseteq Frame
    BY RelayHubAssumption, <2>1, Zenon DEF Frames, Frame
  <2>3. HistTypeOK'
    BY <1>6, <2>1, Zenon DEF ReadFrame, TypeOK, HistTypeOK
  <2>4. ReadTypeOK'
    BY <1>6, <2>2 DEF ReadFrame, TypeOK, ReadTypeOK
  <2> QED
    BY <1>6, <2>3, <2>4, Zenon
    DEF ReadFrame, TypeOK, ProcTypeOK, HubTypeOK, ChanTypeOK, StoreTypeOK
<1> QED
  BY <1>1, <1>2, <1>3, <1>4, <1>5, <1>6, Zenon

LEMMA EnvelopeType ==
  ASSUME TypeOK, NEW s \in Session,
         RouteLimited(s) \/ RouteJunk(s) \/ RouteBlock(s) \/ RouteMessage(s)
  PROVE  TypeOK'
<1> AddrOf[s] \in Addr
  BY RelayHubAssumption, Zenon
<1>1. CASE RouteLimited(s)
  BY <1>1, DieType, AnswerType, ControlItems, Zenon
  DEF RouteLimited, TypeOK, ProcTypeOK
<1>2. CASE RouteJunk(s)
  <2>1. tokens' \in [Addr -> 0..Burst]
    BY <1>2, TakeTokenType, Zenon DEF RouteJunk
  <2> QED
    BY <1>2, <2>1, Zenon DEF RouteJunk, Return, TypeOK, ProcTypeOK, HubTypeOK, ReadTypeOK,
       ChanTypeOK, StoreTypeOK, HistTypeOK
<1>3. CASE RouteBlock(s)
  <2>1. tokens' \in [Addr -> 0..Burst] /\ faults' \in Nat
    BY <1>3, TakeTokenType, FaultType, Zenon DEF RouteBlock
  <2>2. cur[s].to \in Addr
    BY <1>3, Zenon DEF RouteBlock, TypeOK, ReadTypeOK, Frame
  <2>3. blocked' \in SUBSET (Addr \X Addr)
    BY <1>3, <2>2 DEF RouteBlock, TypeOK, StoreTypeOK
  <2>4. /\ Return(s)
        /\ UNCHANGED <<procVars, hubVars, chanVars, flushVars, conn, writer,
                       queue, lastKey, logVars>>
    BY <1>3, Zenon DEF RouteBlock
  <2> QED
    BY <2>1, <2>3, <2>4, Zenon DEF Return, TypeOK, ProcTypeOK, HubTypeOK, ReadTypeOK,
       ChanTypeOK, StoreTypeOK, HistTypeOK
<1>4. CASE RouteMessage(s)
  <2>1. tokens' \in [Addr -> 0..Burst] /\ faults' \in Nat
    BY <1>4, TakeTokenType, FaultType, Zenon DEF RouteMessage
  <2>2. ReadTypeOK'
    BY <1>4 DEF RouteMessage, Return, Message, TypeOK, ReadTypeOK
  <2> QED
    BY <1>4, <2>1, <2>2, Zenon
    DEF RouteMessage, TypeOK, ProcTypeOK, HubTypeOK, ChanTypeOK, StoreTypeOK,
        HistTypeOK
<1> QED
  BY <1>1, <1>2, <1>3, <1>4, Zenon

LEMMA LookupType ==
  ASSUME TypeOK, NEW s \in Session,
         LookupClient(s) \/ RouteIsFlushing(s) \/ RouteSend(s)
  PROVE  TypeOK'
<1>1. CASE LookupClient(s)
  <2>1. ReadTypeOK'
    BY <1>1 DEF LookupClient, Message, Frame, TypeOK, ReadTypeOK, HubTypeOK
  <2> QED
    BY <1>1, <2>1, Zenon
    DEF LookupClient, TypeOK, ProcTypeOK, HubTypeOK, ChanTypeOK, StoreTypeOK,
        HistTypeOK
<1>2. CASE RouteIsFlushing(s)
  BY <1>2, Zenon DEF RouteIsFlushing, TypeOK, ProcTypeOK, HubTypeOK, ReadTypeOK,
       ChanTypeOK, StoreTypeOK, HistTypeOK
<1>3. CASE RouteSend(s)
  <2>1. rcpt[s] \in Session /\ cur[s] \in Item
    BY <1>3, Zenon DEF RouteSend, TypeOK, ReadTypeOK, Item
  <2> QED
    BY <1>3, <2>1, DieType, AnswerType, Zenon DEF RouteSend, TypeOK, ProcTypeOK
<1> QED
  BY <1>1, <1>2, <1>3, Zenon

LEMMA EnqueueType ==
  ASSUME TypeOK, NEW s \in Session,
         RouteEnqueue(s) \/ RouteQueueFull(s) \/ RouteEnqueueFails(s)
  PROVE  TypeOK'
<1>1. cur[s] \in Message /\ cur[s].to \in Addr
  BY Zenon DEF RouteEnqueue, RouteQueueFull, RouteEnqueueFails, TypeOK, ReadTypeOK,
         Message, Frame
<1>2. CASE RouteEnqueue(s)
  <2> DEFINE a == cur[s].to
             new == [key |-> lastKey[a] + 1, msg |-> cur[s], expired |-> FALSE]
  <2>1. new \in Entry /\ lastKey[a] + 1 \in Nat
    BY <1>1 DEF TypeOK, StoreTypeOK, Entry
  <2>2. /\ queue' = [queue EXCEPT ![a] = @ \cup {new}]
        /\ lastKey' = [lastKey EXCEPT ![a] = lastKey[a] + 1]
    BY <1>2, Zenon DEF RouteEnqueue, Enqueue
  <2> HIDE DEF new
  <2>3. queue' \in [Addr -> SUBSET Entry] /\ lastKey' \in [Addr -> Nat]
    BY <1>1, <2>1, <2>2, Zenon DEF TypeOK, StoreTypeOK
  <2>4. /\ Return(s)
        /\ UNCHANGED <<procVars, hubVars, chanVars, flushVars, conn, writer,
                       tokens, blocked, histVars>>
    BY <1>2, Zenon DEF RouteEnqueue
  <2> QED
    BY <2>3, <2>4, Zenon DEF Return, TypeOK, ProcTypeOK, HubTypeOK, ReadTypeOK,
       ChanTypeOK, StoreTypeOK, HistTypeOK
<1>3. CASE RouteQueueFull(s)
  BY <1>1, <1>3, DieType, AnswerType, ControlItems, Zenon
  DEF RouteQueueFull, TypeOK, ProcTypeOK
<1>4. CASE RouteEnqueueFails(s)
  <2>1. faults' \in Nat
    BY <1>4, FaultType, Zenon DEF RouteEnqueueFails
  <2> QED
    BY <1>4, <2>1, Zenon DEF RouteEnqueueFails, Return, TypeOK, ProcTypeOK, HubTypeOK, ReadTypeOK,
       ChanTypeOK, StoreTypeOK, HistTypeOK
<1> QED
  BY <1>2, <1>3, <1>4, Zenon

LEMMA FlushStepsType ==
  ASSUME TypeOK, NEW s \in Session, FlushSteps(s) PROVE TypeOK'
<1>1. CASE FlushCheck(s)
  BY <1>1, Zenon DEF FlushCheck, TypeOK, ProcTypeOK, HubTypeOK, ReadTypeOK,
       ChanTypeOK, StoreTypeOK, HistTypeOK
<1>2. CASE FlushRead(s)
  <2>1. FlushBatch(AddrOf[s]) \in SUBSET Entry
    BY RelayHubAssumption, Zenon DEF FlushBatch, TypeOK, StoreTypeOK
  <2>2. faults' \in Nat
    BY <1>2, FaultType, Zenon DEF FlushRead
  <2>3. /\ batch' = batch \/ batch' = [batch EXCEPT ![s] = FlushBatch(AddrOf[s])]
        /\ \/ fpc' = [fpc EXCEPT ![s] = "exit"]
           \/ fpc' = [fpc EXCEPT ![s] = "send"]
        /\ UNCHANGED <<procVars, hubVars, readVars, chanVars, flushing, conn,
                       writer, tokens, storeVars, logVars>>
    BY <1>2, Zenon DEF FlushRead
  <2>4. ChanTypeOK'
    BY <2>1, <2>3, Zenon DEF TypeOK, ChanTypeOK
  <2> QED
    BY <2>2, <2>3, <2>4, Zenon
    DEF TypeOK, ProcTypeOK, HubTypeOK, ReadTypeOK, StoreTypeOK, HistTypeOK
<1>3. CASE FlushSend(s)
  <2>1. ASSUME ~closed[s] PROVE TypeOK'
    <3>1. PICK e \in batch[s] :
            /\ Push(s, e.msg)
            /\ handed' = [handed EXCEPT ![s] = @ \cup {e.key}]
            /\ fpc' = [fpc EXCEPT ![s] = "remove"]
            /\ UNCHANGED <<procVars, hubVars, readVars, closed, flushing,
                           batch, conn, writer, tokens, storeVars, sent,
                           inbox, swept, faults>>
      BY <1>3, <2>1, Zenon DEF FlushSend
    <3>2. e.key \in Nat /\ e.msg \in Item
      BY DEF TypeOK, ChanTypeOK, Entry, Item
    <3>3. send' \in [Session -> Seq(Item)]
      BY <3>1, <3>2, PushType, Zenon
    <3>4. handed' \in [Session -> SUBSET Nat]
      BY <3>1, <3>2, Zenon DEF TypeOK, HistTypeOK
    <3> QED
      BY <3>1, <3>3, <3>4, Zenon DEF TypeOK, ProcTypeOK, HubTypeOK, ReadTypeOK,
       ChanTypeOK, StoreTypeOK, HistTypeOK
  <2> QED
    BY <1>3, <2>1, DieType, Zenon DEF FlushSend, TypeOK, ProcTypeOK
<1>4. CASE FlushRemove(s)
  <2>1. PICK e \in batch[s] :
          /\ Remove(AddrOf[s], e.key) \/ UNCHANGED queue
          /\ Fault \/ UNCHANGED faults
          /\ batch' = [batch EXCEPT ![s] = @ \ {e}]
          /\ fpc' = [fpc EXCEPT ![s] = IF batch[s] = {e} THEN "check" ELSE "send"]
    BY <1>4, Zenon DEF FlushRemove
  <2>2. ChanTypeOK'
    BY <1>4, <2>1, Zenon DEF FlushRemove, TypeOK, ChanTypeOK
  <2>3. queue' \in [Addr -> SUBSET Entry]
    BY <2>1, Zenon DEF Remove, TypeOK, StoreTypeOK
  <2>4. faults' \in Nat
    BY <2>1, FaultType, Zenon
  <2> QED
    BY <1>4, <2>2, <2>3, <2>4, Zenon
    DEF FlushRemove, TypeOK, ProcTypeOK, HubTypeOK, ReadTypeOK, StoreTypeOK,
        HistTypeOK
<1>5. CASE FlushExit(s)
  BY <1>5, Zenon DEF FlushExit, TypeOK, ProcTypeOK, HubTypeOK, ReadTypeOK,
       ChanTypeOK, StoreTypeOK, HistTypeOK
<1> QED
  BY <1>1, <1>2, <1>3, <1>4, <1>5, Zenon DEF FlushSteps

LEMMA WriteStepsType ==
  ASSUME TypeOK, NEW s \in Session, WriteSteps(s) PROVE TypeOK'
<1>1. ASSUME send[s] # <<>>
      PROVE  Head(send[s]) \in Item /\ Tail(send[s]) \in Seq(Item)
  BY <1>1 DEF TypeOK, ChanTypeOK
<1>2. CASE WriteMessage(s)
  <2>1. inbox' \in [Addr -> Seq(Receipt)]
    <3> DEFINE r == [sess |-> s, msg |-> Head(send[s])]
    <3>1. Head(send[s]).kind = "msg" => r \in Receipt
      BY <1>1, <1>2, MessageItem, Zenon DEF WriteMessage, Receipt
    <3> HIDE DEF r
    <3>2. Head(send[s]).kind = "msg" =>
            Append(inbox[AddrOf[s]], r) \in Seq(Receipt)
      BY RelayHubAssumption, <3>1 DEF TypeOK, HistTypeOK
    <3>3. \/ inbox' = inbox
          \/ /\ Head(send[s]).kind = "msg"
             /\ inbox' = [inbox EXCEPT ![AddrOf[s]] = Append(@, r)]
      BY <1>2, Zenon DEF WriteMessage, r
    <3> QED
      BY <3>2, <3>3, Zenon DEF TypeOK, HistTypeOK
  <2>2. ChanTypeOK'
    BY <1>1, <1>2, Zenon DEF WriteMessage, TypeOK, ChanTypeOK
  <2> QED
    BY <1>2, <2>1, <2>2, Zenon
    DEF WriteMessage, TypeOK, ProcTypeOK, HubTypeOK, ReadTypeOK, StoreTypeOK,
        HistTypeOK
<1>3. CASE WriteLost(s)
  <2>1. ChanTypeOK'
    BY <1>1, <1>3, Zenon DEF WriteLost, TypeOK, ChanTypeOK
  <2> QED
    BY <1>3, <2>1, Zenon
    DEF WriteLost, TypeOK, ProcTypeOK, HubTypeOK, ReadTypeOK, StoreTypeOK,
        HistTypeOK
<1>4. CASE WriterExit(s)
  BY <1>4, Zenon DEF WriterExit, TypeOK, ProcTypeOK, HubTypeOK, ReadTypeOK,
       ChanTypeOK, StoreTypeOK, HistTypeOK
<1> QED
  BY <1>2, <1>3, <1>4 DEF WriteSteps

LEMMA ClockType ==
  ASSUME TypeOK, NEW a \in Addr, Refill(a) \/ Expire(a) PROVE TypeOK'
<1>1. CASE Refill(a)
  <2>1. tokens' \in [Addr -> 0..Burst]
    BY RelayHubAssumption, <1>1 DEF Refill, TypeOK, StoreTypeOK
  <2> QED
    BY <1>1, <2>1, Zenon DEF Refill, TypeOK, ProcTypeOK, HubTypeOK, ReadTypeOK,
       ChanTypeOK, StoreTypeOK, HistTypeOK
<1>2. CASE Expire(a)
  <2>1. PICK e \in queue[a] :
          queue' = [queue EXCEPT
                      ![a] = (@ \ {e}) \cup {[e EXCEPT !.expired = TRUE]}]
    BY <1>2, Zenon DEF Expire
  <2>2. [e EXCEPT !.expired = TRUE] \in Entry
    <3>1. e \in Entry
      BY Zenon DEF TypeOK, StoreTypeOK
    <3> QED
      BY <3>1, Zenon DEF Entry
  <2>3. queue' \in [Addr -> SUBSET Entry]
    BY <2>1, <2>2, Zenon DEF TypeOK, StoreTypeOK
  <2> QED
    BY <1>2, <2>3, Zenon DEF Expire, TypeOK, ProcTypeOK, HubTypeOK, ReadTypeOK,
       ChanTypeOK, StoreTypeOK, HistTypeOK
<1> QED
  BY <1>1, <1>2, Zenon

LEMMA ProcessType ==
  ASSUME TypeOK, Sweep \/ Shutdown \/ Exit \/ Kill \/ Restart PROVE TypeOK'
<1>1. CASE Sweep
  <2>1. queue' \in [Addr -> SUBSET Entry]
    BY <1>1, Zenon DEF Sweep, TypeOK, StoreTypeOK
  <2> DEFINE Late(a) == {e.key : e \in {d \in queue[a] : d.expired}}
  <2>2. \A a \in Addr : Late(a) \subseteq Nat
    BY DEF TypeOK, StoreTypeOK, Entry
  <2>3. swept' = [a \in Addr |-> swept[a] \cup Late(a)]
    BY <1>1, Zenon DEF Sweep
  <2> HIDE DEF Late
  <2>4. swept' \in [Addr -> SUBSET Nat]
    BY <2>2, <2>3, Zenon DEF TypeOK, HistTypeOK
  <2> QED
    BY <1>1, <2>1, <2>4, Zenon DEF Sweep, TypeOK, ProcTypeOK, HubTypeOK, ReadTypeOK,
       ChanTypeOK, StoreTypeOK, HistTypeOK
<1>2. CASE Shutdown
  <2>1. crashes' \in Nat
    BY <1>2 DEF Shutdown, TypeOK, ProcTypeOK
  <2> QED
    BY <1>2, <2>1, Zenon DEF Shutdown, TypeOK, ProcTypeOK, HubTypeOK, ReadTypeOK,
       ChanTypeOK, StoreTypeOK, HistTypeOK
<1>3. CASE Exit
  BY <1>3, DieType, Zenon DEF Exit, TypeOK, ProcTypeOK
<1>4. CASE Kill
  BY <1>4, DieType DEF Kill, TypeOK, ProcTypeOK
<1>5. CASE Restart
  BY <1>5, Zenon DEF Restart, TypeOK, ProcTypeOK, HubTypeOK, ReadTypeOK,
       ChanTypeOK, StoreTypeOK, HistTypeOK
<1> QED
  BY <1>1, <1>2, <1>3, <1>4, <1>5, Zenon

(* Every step keeps the types.                                             *)
LEMMA NextType == ASSUME TypeOK, CountsNat, [Next]_vars PROVE TypeOK'
<1>1. CASE UNCHANGED vars
  BY <1>1, Zenon DEF TypeOK, ProcTypeOK, HubTypeOK, ReadTypeOK,
       ChanTypeOK, StoreTypeOK, HistTypeOK
<1>2. CASE HubSteps
  BY <1>2, HubStepsType, Zenon
<1>3. ASSUME NEW s \in Session,
             \/ HubSession(s) \/ FlushSteps(s) \/ WriteSteps(s)
             \/ HandlerSteps(s) \/ Connect(s) \/ ConnDrop(s) \/ ReadFrame(s)
      PROVE  TypeOK'
  BY <1>3, HubSessionType, HandlerType, EnvelopeType, LookupType, EnqueueType,
     FlushStepsType, WriteStepsType, Zenon DEF HandlerSteps, RouteSteps
<1>4. ASSUME NEW a \in Addr, Refill(a) \/ Expire(a) PROVE TypeOK'
  BY <1>4, ClockType, Zenon
<1>5. CASE Sweep \/ Shutdown \/ Exit \/ Kill \/ Restart
  BY <1>5, ProcessType, Zenon
<1> QED
  BY <1>1, <1>2, <1>3, <1>4, <1>5, Zenon DEF Next

-----------------------------------------------------------------------------
(* The routing table                                                       *)

(* TableExact needs to know that a session the hub has not accepted yet    *)
(* has an open channel.                                                    *)
TableInv ==
  /\ TableExact
  /\ \A s \in Session : spc[s] \in {"idle", "registering"} => ~closed[s]

LEMMA DieTable ==
  ASSUME TypeOK, NEW who, Die(who) PROVE TableInv'
BY RelayHubAssumption, Zenon DEF Die, TableInv, TableExact, TypeOK, ReadTypeOK

(* A step that accepts, unregisters and closes nobody.                     *)
LEMMA TableFrame ==
  ASSUME TypeOK, TableInv, UNCHANGED <<clients, closed>>,
         hubpc' = "stopped" <=> hubpc = "stopped",
         \/ UNCHANGED spc
         \/ \E s \in Session : \E pc \in Live :
              spc[s] \in Live /\ spc' = [spc EXCEPT ![s] = pc]
         \/ \E s \in Session :
              spc[s] = "idle" /\ spc' = [spc EXCEPT ![s] = "registering"]
  PROVE  TableInv'
<1> spc \in [Session -> Live \cup {"idle", "registering", "closed"}]
  BY Zenon DEF TypeOK, ReadTypeOK
<1>1. \A s \in Session :
        /\ spc'[s] \in Live <=> spc[s] \in Live
        /\ spc'[s] \in {"idle", "registering"}
             => spc[s] \in {"idle", "registering"}
  OBVIOUS
<1> QED
  BY <1>1, Zenon DEF TableInv, TableExact

LEMMA HubTable ==
  ASSUME TypeOK, TableInv,
         HubSteps \/ \E s \in Session : HubSession(s)
  PROVE  TableInv'
<1>1. CASE HubCount \/ HubSendStatus \/ HubStartFlush
  BY <1>1, TableFrame, Zenon DEF HubCount, HubSendStatus, HubStartFlush
<1>2. CASE HubStop
  BY <1>2, Zenon DEF HubStop, CloseAll, TableInv, TableExact
<1>3. ASSUME NEW s \in Session, HubReject(s) PROVE TableInv'
  <2>1. /\ spc' = [spc EXCEPT ![s] = "closed"] /\ spc[s] = "registering"
        /\ UNCHANGED <<clients, closed, hubpc>>
    BY <1>3, Zenon DEF HubReject
  <2> QED
    BY <2>1, Zenon DEF TableInv, TableExact, TypeOK, ReadTypeOK
<1>4. ASSUME NEW s \in Session, HubAccept(s) PROVE TableInv'
  <2>1. /\ spc' = [spc EXCEPT ![s] = "accepted"] /\ spc[s] = "registering"
        /\ clients' = [clients EXCEPT ![AddrOf[s]] = s]
        /\ hubpc = "select" /\ closed' = closed /\ ~closed[s]
    BY <1>4, Zenon DEF HubAccept, TableInv
  <2>2. clients[AddrOf[s]] = NoSession
    BY <1>4, <2>1, Zenon DEF HubAccept, InUse, TableInv, TableExact
  <2>3. ASSUME NEW r \in Session
        PROVE  /\ spc'[r] \in Live <=> clients'[AddrOf[r]] = r
               /\ spc'[r] \in Live => ~closed'[r]
               /\ spc'[r] \in {"idle", "registering"} => ~closed'[r]
    BY RelayHubAssumption, <2>1, <2>2
    DEF TableInv, TableExact, TypeOK, ReadTypeOK, HubTypeOK
  <2> QED
    BY <2>3, Zenon DEF TableInv, TableExact
<1>5. ASSUME NEW s \in Session, HubUnregister(s) PROVE TableInv'
  <2>1. /\ spc' = [spc EXCEPT ![s] = "closed"] /\ spc[s] = "unregistering"
        /\ hubpc = "select" /\ clients[AddrOf[s]] = s
        /\ clients' = [clients EXCEPT ![AddrOf[s]] = NoSession]
        /\ closed' = [r \in Session |-> closed[r] \/ r \in {s}]
    BY <1>5, Zenon DEF HubUnregister, CloseAll, TableInv, TableExact
  <2>2. ASSUME NEW r \in Session
        PROVE  /\ spc'[r] \in Live <=> clients'[AddrOf[r]] = r
               /\ spc'[r] \in Live => ~closed'[r]
               /\ spc'[r] \in {"idle", "registering"} => ~closed'[r]
    <3>1. CASE r = s
      BY RelayHubAssumption, <2>1, <3>1 DEF TypeOK, ReadTypeOK, HubTypeOK
    <3>2. CASE r # s
      <4>1. closed'[r] = closed[r] /\ spc'[r] = spc[r]
        BY <2>1, <3>2, Zenon DEF TypeOK, ReadTypeOK, ChanTypeOK
      <4>2. clients'[AddrOf[r]] = r <=> clients[AddrOf[r]] = r
        BY RelayHubAssumption, <2>1, <3>2, Zenon DEF TypeOK, HubTypeOK
      <4> QED
        BY <2>1, <4>1, <4>2, Zenon DEF TableInv, TableExact
    <3> QED
      BY <3>1, <3>2, Zenon
  <2> QED
    BY <2>2 DEF TableInv, TableExact
<1> QED
  BY <1>1, <1>2, <1>3, <1>4, <1>5, Zenon DEF HubSteps, HubSession

(* Every other step of a session either keeps it where it is, moves it     *)
(* along its life, or ends the process.                                    *)
LEMMA SessionSteps ==
  ASSUME NEW s \in Session,
         \/ HandlerSteps(s) \/ FlushSteps(s) \/ WriteSteps(s)
         \/ Connect(s) \/ ConnDrop(s) \/ ReadFrame(s)
  PROVE  \/ \E who : Die(who)
         \/ /\ UNCHANGED <<clients, closed, hubpc, hubsess>>
            /\ \/ UNCHANGED spc
               \/ \E pc \in Live :
                    spc[s] \in Live /\ spc' = [spc EXCEPT ![s] = pc]
               \/ spc[s] = "idle" /\ spc' = [spc EXCEPT ![s] = "registering"]
<1>1. CASE HandlerSteps(s)
  BY <1>1, Zenon
  DEF HandlerSteps, RouteSteps, RouteLimited, RouteJunk, RouteBlock,
      RouteMessage, LookupClient, RouteIsFlushing, RouteSend, RouteEnqueue,
      RouteQueueFull, RouteEnqueueFails, AuthResult, AuthResultFails,
      ReadFails, Return
<1>2. CASE FlushSteps(s)
  BY <1>2, Zenon
  DEF FlushSteps, FlushCheck, FlushRead, FlushSend, FlushRemove, FlushExit
<1>3. CASE WriteSteps(s)
  BY <1>3, Zenon DEF WriteSteps, WriteMessage, WriteLost, WriterExit
<1>4. CASE Connect(s) \/ ConnDrop(s) \/ ReadFrame(s)
  BY <1>4, Zenon DEF Connect, ConnDrop, ReadFrame
<1> QED
  BY <1>1, <1>2, <1>3, <1>4, Zenon

LEMMA NextTable == ASSUME TypeOK, TableInv, [Next]_vars PROVE TableInv'
<1>1. CASE UNCHANGED vars
  BY <1>1, TableFrame, Zenon
<1>2. CASE HubSteps \/ \E s \in Session : HubSession(s)
  BY <1>2, HubTable, Zenon
<1>3. ASSUME NEW s \in Session,
             \/ HandlerSteps(s) \/ FlushSteps(s) \/ WriteSteps(s)
             \/ Connect(s) \/ ConnDrop(s) \/ ReadFrame(s)
      PROVE  TableInv'
  BY <1>3, SessionSteps, TableFrame, DieTable, Zenon
<1>4. ASSUME NEW a \in Addr, Refill(a) \/ Expire(a) PROVE TableInv'
  BY <1>4, TableFrame, Zenon DEF Refill, Expire
<1>5. CASE Sweep \/ Shutdown \/ Restart
  BY <1>5, TableFrame, Zenon DEF Sweep, Shutdown, Restart
<1>6. CASE Exit \/ Kill
  BY <1>6, DieTable, Zenon DEF Exit, Kill
<1> QED
  BY <1>1, <1>2, <1>3, <1>4, <1>5, <1>6, Zenon DEF Next

-----------------------------------------------------------------------------
(* What a session that routes relies on                                    *)

(* A session is in the table under its own address only; a session that    *)
(* does not route holds no frame; and the recipient that was looked up is  *)
(* a session of the addressee, closed or not.                              *)
RouteInv ==
  /\ \A a \in Addr : clients[a] # NoSession => AddrOf[clients[a]] = a
  /\ \A s \in Session : spc[s] \notin Routing => cur[s] = NoFrame
  /\ \A s \in Session :
       spc[s] \in {"isflushing", "send"} => AddrOf[rcpt[s]] = cur[s].to

(* Nothing routes in a process that has ended.                             *)
LEMMA DieRoute ==
  ASSUME NEW who, Die(who) PROVE RouteInv'
BY Zenon DEF Die, RouteInv

(* The hub registers a session under its own address.                      *)
LEMMA HubRoute ==
  ASSUME TypeOK, RouteInv,
         HubSteps \/ \E s \in Session : HubSession(s)
  PROVE  RouteInv'
<1> /\ spc \in [Session -> Live \cup {"idle", "registering", "closed"}]
    /\ clients \in [Addr -> Session \cup {NoSession}]
  BY Zenon DEF TypeOK, ReadTypeOK, HubTypeOK
<1>1. /\ UNCHANGED <<cur, rcpt>>
      /\ \/ UNCHANGED <<clients, spc>>
         \/ clients' = [a \in Addr |-> NoSession] /\ UNCHANGED spc
         \/ \E s \in Session : \E pc \in {"accepted", "closed"} :
              /\ spc[s] \in {"registering", "unregistering"}
              /\ spc' = [spc EXCEPT ![s] = pc]
              /\ \/ UNCHANGED clients
                 \/ clients' = [clients EXCEPT ![AddrOf[s]] = s]
                 \/ clients' = [clients EXCEPT ![AddrOf[s]] = NoSession]
  BY Zenon DEF HubSteps, HubSession, HubCount, HubSendStatus, HubStartFlush,
               HubStop, HubReject, HubAccept, HubUnregister
<1>2. \A a \in Addr : clients'[a] # NoSession => AddrOf[clients'[a]] = a
  BY <1>1 DEF RouteInv
<1>3. \A s \in Session :
        spc'[s] = spc[s] \/ (spc[s] \notin Routing /\ spc'[s] \notin Routing)
  BY <1>1, Zenon
<1> QED
  BY <1>1, <1>2, <1>3, Zenon DEF RouteInv

(* RouteMessage looks the addressee up and keeps what it found; every      *)
(* other step of a session keeps or drops it, or starts with a new frame.  *)
LEMMA SessionRoute ==
  ASSUME TypeOK, RouteInv, NEW s \in Session,
         \/ HandlerSteps(s) \/ FlushSteps(s) \/ WriteSteps(s)
         \/ Connect(s) \/ ConnDrop(s) \/ ReadFrame(s)
  PROVE  RouteInv'
<1> /\ spc \in [Session -> Live \cup {"idle", "registering", "closed"}]
    /\ cur \in [Session -> Frame \cup {NoFrame}]
    /\ rcpt \in [Session -> Session \cup {NoSession}]
  BY Zenon DEF TypeOK, ReadTypeOK
<1> DEFINE Dies == \E who : Die(who)
           Returns == Return(s) /\ UNCHANGED clients
           GoesOn ==
             /\ UNCHANGED <<clients, cur, rcpt>>
             /\ spc[s] \in {"route", "isflushing"}
             /\ \E pc \in Routing \ {"isflushing"} :
                  /\ spc' = [spc EXCEPT ![s] = pc]
                  /\ spc[s] = "route" => pc = "lookup"
           Apart ==
             /\ UNCHANGED <<clients, cur, rcpt>>
             /\ \/ UNCHANGED spc
                \/ /\ spc[s] \notin Routing
                   /\ \E pc \in Live \cup {"registering"} :
                        pc \notin Routing /\ spc' = [spc EXCEPT ![s] = pc]
           Some == \/ Dies \/ Returns \/ GoesOn \/ Apart
                   \/ LookupClient(s) \/ ReadFrame(s)
<1>1. Some
  <2>1. RouteSteps(s) => Some
    BY Zenon
    DEF RouteSteps, RouteLimited, RouteJunk, RouteBlock, RouteMessage,
        RouteIsFlushing, RouteSend, RouteEnqueue, RouteQueueFull,
        RouteEnqueueFails
  <2>2. AuthResult(s) \/ AuthResultFails(s) \/ ReadFails(s) => Some
    BY Zenon DEF AuthResult, AuthResultFails, ReadFails
  <2>3. FlushSteps(s) \/ WriteSteps(s) => Some
    BY Zenon
    DEF FlushSteps, FlushCheck, FlushRead, FlushSend, FlushRemove, FlushExit,
        WriteSteps, WriteMessage, WriteLost, WriterExit
  <2>4. Connect(s) \/ ConnDrop(s) => Some
    BY Zenon DEF Connect, ConnDrop
  <2> HIDE DEF Dies, Returns, GoesOn, Apart
  <2> QED
    BY <2>1, <2>2, <2>3, <2>4, Zenon DEF HandlerSteps
<1>2. CASE Dies
  BY <1>2, DieRoute, Zenon
<1>3. CASE Returns
  BY <1>3, Zenon DEF Return, RouteInv
<1>4. CASE GoesOn
  BY <1>4, Zenon DEF RouteInv
<1>5. CASE Apart
  <2>1. \A r \in Session :
          spc'[r] = spc[r] \/ (spc[r] \notin Routing /\ spc'[r] \notin Routing)
    BY <1>5, Zenon
  <2> QED
    BY <1>5, <2>1, Zenon DEF RouteInv
<1>6. CASE LookupClient(s)
  <2>1. /\ UNCHANGED <<clients, cur>> /\ spc[s] = "lookup"
        /\ rcpt' = [rcpt EXCEPT ![s] = clients[cur[s].to]]
        /\ spc' = [spc EXCEPT ![s] = IF clients[cur[s].to] = NoSession
                                     THEN "enqueue" ELSE "isflushing"]
    BY <1>6, Zenon DEF LookupClient
  <2>2. cur[s].to \in Addr
    <3>1. cur[s] \in Frame
      BY <2>1, Zenon DEF TypeOK, ReadTypeOK, Message
    <3> QED
      BY <3>1, Zenon DEF Frame
  <2>3. clients[cur[s].to] # NoSession => AddrOf[clients[cur[s].to]] = cur[s].to
    BY <2>2, Zenon DEF RouteInv
  <2> QED
    BY <2>1, <2>3, Zenon DEF RouteInv
<1>7. CASE ReadFrame(s)
  <2>1. PICK f : /\ UNCHANGED <<clients, rcpt>> /\ spc[s] = "running"
                 /\ spc' = [spc EXCEPT ![s] = "route"]
                 /\ cur' = [cur EXCEPT ![s] = f]
    BY <1>7, Zenon DEF ReadFrame
  <2> QED
    BY <2>1, Zenon DEF RouteInv
<1> HIDE DEF Dies, Returns, GoesOn, Apart
<1> QED
  BY <1>1, <1>2, <1>3, <1>4, <1>5, <1>6, <1>7, Zenon

(* Every step keeps it.                                                    *)
LEMMA NextRoute == ASSUME TypeOK, RouteInv, [Next]_vars PROVE RouteInv'
<1>1. CASE UNCHANGED <<clients, cur, rcpt, spc>>
  BY <1>1, Zenon DEF RouteInv
<1>2. (\E a \in Addr : Refill(a) \/ Expire(a)) \/ Sweep \/ Shutdown \/ Restart
        => UNCHANGED <<clients, cur, rcpt, spc>>
  BY Zenon DEF Refill, Expire, Sweep, Shutdown, Restart
<1>3. Exit \/ Kill => RouteInv'
  BY DieRoute, Zenon DEF Exit, Kill
<1> QED
  BY <1>1, <1>2, <1>3, HubRoute, SessionRoute, Zenon DEF Next

-----------------------------------------------------------------------------
(* The block records                                                       *)

(* RouteBlock alone writes them.                                           *)
LEMMA BlockSteps ==
  ASSUME [Next]_vars
  PROVE  UNCHANGED blocked \/ \E s \in Session : RouteBlock(s)
<1>1. UNCHANGED vars \/ HubSteps => UNCHANGED blocked
  BY Zenon DEF HubSteps, HubCount, HubSendStatus, HubStartFlush, HubStop
<1>2. ASSUME NEW s \in Session,
             HubSession(s) \/ Connect(s) \/ ConnDrop(s) \/ ReadFrame(s)
      PROVE  UNCHANGED blocked
  BY <1>2, Zenon DEF HubSession, HubReject, HubAccept, HubUnregister, Connect,
                     ConnDrop, ReadFrame
<1>3. ASSUME NEW s \in Session, HandlerSteps(s)
      PROVE  UNCHANGED blocked \/ RouteBlock(s)
  <2>1. /\ RouteLimited(s) \/ RouteSend(s) => UNCHANGED blocked
        /\ RouteQueueFull(s) => UNCHANGED blocked
    BY Zenon DEF RouteLimited, RouteSend, RouteQueueFull, Die
  <2>2. /\ AuthResult(s) \/ AuthResultFails(s) => UNCHANGED blocked
        /\ ReadFails(s) \/ RouteJunk(s) \/ RouteMessage(s) => UNCHANGED blocked
        /\ LookupClient(s) \/ RouteIsFlushing(s) => UNCHANGED blocked
        /\ RouteEnqueue(s) \/ RouteEnqueueFails(s) => UNCHANGED blocked
    BY Zenon DEF AuthResult, AuthResultFails, ReadFails, RouteJunk,
                 RouteMessage, LookupClient, RouteIsFlushing, RouteEnqueue,
                 RouteEnqueueFails
  <2> QED
    BY <1>3, <2>1, <2>2, Zenon DEF HandlerSteps, RouteSteps
<1>4. ASSUME NEW s \in Session, FlushSteps(s) \/ WriteSteps(s)
      PROVE  UNCHANGED blocked
  BY <1>4, Zenon
  DEF FlushSteps, FlushCheck, FlushRead, FlushSend, FlushRemove, FlushExit,
      WriteSteps, WriteMessage, WriteLost, WriterExit, Die
<1>5. /\ Sweep \/ Shutdown \/ Exit \/ Kill \/ Restart => UNCHANGED blocked
      /\ (\E a \in Addr : Refill(a) \/ Expire(a)) => UNCHANGED blocked
  BY Zenon DEF Sweep, Shutdown, Exit, Kill, Restart, Die, Refill, Expire
<1> QED
  BY <1>1, <1>2, <1>3, <1>4, <1>5, Zenon DEF Next

-----------------------------------------------------------------------------
(* The queue                                                               *)

(* What a step does to the messages: most leave them alone, the rest are   *)
(* few.                                                                    *)
Idle == UNCHANGED <<cur, sent, send, inbox, queue, lastKey, swept, batch,
                    handed, fpc>>
Dies == \E who : Die(who)
Closes(S) ==
  /\ CloseAll(S)
  /\ UNCHANGED <<cur, sent, inbox, queue, lastKey, swept, batch, handed, fpc>>
Notice(s) ==
  /\ \E x \in Control : Push(s, x)
  /\ Return(s) \/ UNCHANGED cur
  /\ UNCHANGED <<sent, inbox, queue, lastKey, swept, batch, handed, fpc>>
Drop(s) ==
  /\ Return(s)
  /\ UNCHANGED <<sent, send, inbox, queue, lastKey, swept, batch, handed, fpc>>

HubWork ==
  HubStartFlush \/ Sweep \/ (\E S \in SUBSET Session : Closes(S))
ReadWork(s) ==
  \/ ReadFrame(s) \/ Notice(s) \/ Drop(s) \/ RouteEnqueue(s)
  \/ RouteSend(s) /\ ~closed[rcpt[s]]
FlushWork(s) ==
  \/ FlushCheck(s) \/ FlushRead(s) \/ FlushRemove(s) \/ FlushExit(s)
  \/ FlushSend(s) /\ ~closed[s]
Work ==
  \/ Idle \/ Dies \/ HubWork
  \/ \E s \in Session :
       ReadWork(s) \/ FlushWork(s) \/ WriteMessage(s) \/ WriteLost(s)
  \/ \E a \in Addr : Expire(a)

LEMMA Steps ==
  ASSUME TypeOK, [Next]_vars PROVE Work /\ (Fault \/ UNCHANGED faults)
<1> DEFINE Some == Work /\ (Fault \/ UNCHANGED faults)
<1>1. UNCHANGED vars \/ HubCount \/ HubStartFlush \/ HubStop => Some
  BY Zenon DEF HubCount, HubStartFlush, HubStop, Work, Idle, HubWork, Closes
<1>2. ASSUME HubSendStatus PROVE Some
  <2>1. QueueStatus(hubcount) \in Control /\ hubsess \in Session
    BY <1>2, Zenon DEF HubSendStatus, TypeOK, HubTypeOK, QueueStatus, Control
  <2> QED
    BY <1>2, <2>1, Zenon DEF HubSendStatus, Work, ReadWork, Notice
<1>3. ASSUME NEW s \in Session, HubSession(s) PROVE Some
  BY <1>3, Zenon DEF HubSession, HubReject, HubAccept, HubUnregister, Work,
                     Idle, HubWork, Closes
<1>4. ASSUME NEW s \in Session, RouteLimited(s) \/ RouteQueueFull(s) PROVE Some
  <2>1. RateLimited \in Control /\ QueueFull(cur[s].to) \in Control
    BY <1>4, Zenon DEF RateLimited, QueueFull, Control, RouteLimited, RouteQueueFull,
                TypeOK, ReadTypeOK, Message, Frame
  <2> QED
    BY <1>4, <2>1, Zenon
    DEF RouteLimited, RouteQueueFull, Work, ReadWork, Notice, Dies, Die
<1>5. ASSUME NEW s \in Session,
             \/ RouteJunk(s) \/ RouteBlock(s) \/ RouteMessage(s)
             \/ LookupClient(s) \/ RouteIsFlushing(s) \/ RouteSend(s)
             \/ RouteEnqueue(s) \/ RouteEnqueueFails(s)
      PROVE  Some
  BY <1>5, Zenon
  DEF RouteJunk, RouteBlock, RouteMessage, LookupClient, RouteIsFlushing,
      RouteSend, RouteEnqueue, RouteEnqueueFails, Work, Idle, Dies, Die,
      ReadWork, Drop
<1>6. ASSUME NEW s \in Session,
             \/ AuthResult(s) \/ AuthResultFails(s) \/ ReadFails(s)
             \/ Connect(s) \/ ConnDrop(s) \/ ReadFrame(s) \/ WriteSteps(s)
      PROVE  Some
  BY <1>6, Zenon
  DEF AuthResult, AuthResultFails, ReadFails, Connect, ConnDrop, ReadFrame,
      WriteSteps, WriteMessage, WriteLost, WriterExit, Work, Idle, ReadWork
<1>7. ASSUME NEW s \in Session, FlushSteps(s) PROVE Some
  BY <1>7, Zenon
  DEF FlushSteps, FlushCheck, FlushRead, FlushSend, FlushRemove, FlushExit,
      Work, Idle, Dies, Die, FlushWork
<1>8. ASSUME NEW a \in Addr, Refill(a) \/ Expire(a) PROVE Some
  BY <1>8, Zenon DEF Refill, Expire, Work, Idle
<1>9. Sweep \/ Shutdown \/ Exit \/ Kill \/ Restart => Some
  BY Zenon DEF Sweep, Shutdown, Exit, Kill, Restart, Die, Work, Idle, Dies,
               HubWork
<1> HIDE DEF Some
<1>10. Some
  BY <1>1, <1>2, <1>3, <1>4, <1>5, <1>6, <1>7, <1>8, <1>9, Zenon
  DEF Next, HubSteps, HandlerSteps, RouteSteps
<1> QED
  BY <1>10, Zenon DEF Some

(* The steps that write a bucket, and those that move a flush.             *)
LEMMA QueueWriters ==
  ASSUME TypeOK, [Next]_vars
  PROVE  \/ UNCHANGED <<queue, lastKey, swept>>
         \/ \E s \in Session : RouteEnqueue(s) \/ FlushRemove(s)
         \/ \E a \in Addr : Expire(a)
         \/ Sweep
<1> DEFINE Same == UNCHANGED <<queue, lastKey, swept>>
<1>1. Idle \/ Dies \/ HubStartFlush \/ (\E S \in SUBSET Session : Closes(S))
        => Same
  BY Zenon DEF Idle, Dies, Die, HubStartFlush, Closes
<1>2. ASSUME NEW s \in Session
      PROVE  /\ ReadWork(s) => Same \/ RouteEnqueue(s)
             /\ FlushWork(s) => Same \/ FlushRemove(s)
             /\ WriteMessage(s) \/ WriteLost(s) => Same
  BY Zenon
  DEF ReadWork, ReadFrame, Notice, Drop, RouteSend, FlushWork, FlushCheck,
      FlushRead, FlushExit, FlushSend, WriteMessage, WriteLost
<1> QED
  BY <1>1, <1>2, Steps, Zenon DEF Work, HubWork

LEMMA FlushWriters ==
  ASSUME TypeOK, [Next]_vars
  PROVE  \/ UNCHANGED <<fpc, batch, handed>>
         \/ HubStartFlush
         \/ \E s \in Session : FlushSteps(s)
         \/ \E who : Die(who)
<1> DEFINE Same == UNCHANGED <<fpc, batch, handed>>
<1>1. /\ Idle \/ Sweep \/ (\E a \in Addr : Expire(a)) => Same
      /\ (\E S \in SUBSET Session : Closes(S)) => Same
  BY Zenon DEF Idle, Sweep, Expire, Closes
<1>2. ASSUME NEW s \in Session
      PROVE  /\ ReadWork(s) \/ WriteMessage(s) \/ WriteLost(s) => Same
             /\ FlushWork(s) => FlushSteps(s)
  BY Zenon
  DEF ReadWork, ReadFrame, Notice, Drop, RouteEnqueue, RouteSend, FlushWork,
      FlushSteps, WriteMessage, WriteLost
<1> QED
  BY <1>1, <1>2, Steps, Zenon DEF Work, HubWork, Dies

LEMMA NoFault == ASSUME TypeOK, [Next]_vars, faults' = 0 PROVE faults = 0
<1>1. faults \in Nat
  BY Zenon DEF TypeOK, HistTypeOK
<1>2. Fault => faults' = faults + 1
  BY Zenon DEF Fault
<1> QED
  BY <1>1, <1>2, Steps

(* What a step does to one bucket: Enqueue adds an entry with the next     *)
(* key, Remove and Sweep take entries away, the clock makes one late.      *)
Grows(a) ==
  /\ lastKey'[a] = lastKey[a] + 1
  /\ \E s \in Session : \E new :
       /\ RouteEnqueue(s) /\ cur[s].to = a
       /\ new.key = lastKey[a] + 1 /\ new.msg = cur[s] /\ ~new.expired
       /\ queue'[a] = queue[a] \cup {new}
Shrinks(a) == lastKey'[a] = lastKey[a] /\ queue'[a] \subseteq queue[a]
Ages(a) ==
  /\ lastKey'[a] = lastKey[a]
  /\ \E e \in queue[a] : \E late :
       /\ late.key = e.key /\ late.msg = e.msg /\ late.expired
       /\ queue'[a] = (queue[a] \ {e}) \cup {late}

LEMMA LateEntry ==
  ASSUME NEW K, NEW M, NEW e \in [key : K, msg : M, expired : BOOLEAN]
  PROVE  /\ [e EXCEPT !.expired = TRUE].key = e.key
         /\ [e EXCEPT !.expired = TRUE].msg = e.msg
         /\ [e EXCEPT !.expired = TRUE].expired
OBVIOUS

LEMMA BucketSteps ==
  ASSUME TypeOK, [Next]_vars, NEW a \in Addr
  PROVE  Grows(a) \/ Shrinks(a) \/ Ages(a)
<1>0. queue \in [Addr -> SUBSET Entry] /\ lastKey \in [Addr -> Nat]
  BY Zenon DEF TypeOK, StoreTypeOK
<1>1. CASE UNCHANGED <<queue, lastKey, swept>>
  BY <1>1, Zenon DEF Shrinks
<1>2. ASSUME NEW s \in Session, RouteEnqueue(s) PROVE Grows(a) \/ Shrinks(a)
  <2>1. spc[s] = "enqueue" /\ Enqueue(cur[s].to, cur[s])
    BY <1>2, Zenon DEF RouteEnqueue
  <2> DEFINE b == cur[s].to
             new == [key |-> lastKey[b] + 1, msg |-> cur[s], expired |-> FALSE]
  <2>2. new.key = lastKey[b] + 1 /\ new.msg = cur[s] /\ ~new.expired
    OBVIOUS
  <2>3. /\ lastKey' = [lastKey EXCEPT ![b] = lastKey[b] + 1]
        /\ queue' = [queue EXCEPT ![b] = queue[b] \cup {new}]
    BY <2>1, Zenon DEF Enqueue
  <2> HIDE DEF new
  <2>4. CASE b = a
    BY <1>0, <1>2, <2>1, <2>2, <2>3, <2>4, Zenon DEF Grows
  <2>5. CASE b # a
    BY <1>0, <2>3, <2>5, Zenon DEF Shrinks
  <2> QED
    BY <2>4, <2>5, Zenon
<1>3. ASSUME NEW s \in Session, FlushRemove(s) PROVE Shrinks(a)
  BY <1>0, <1>3 DEF FlushRemove, Remove, Shrinks
<1>4. ASSUME NEW b \in Addr, Expire(b) PROVE Shrinks(a) \/ Ages(a)
  <2>1. PICK e \in queue[b] :
          /\ queue' = [queue EXCEPT
                         ![b] = (@ \ {e}) \cup {[e EXCEPT !.expired = TRUE]}]
          /\ lastKey' = lastKey
    BY <1>4, Zenon DEF Expire
  <2>2. e \in Entry
    BY <1>0, Zenon
  <2> DEFINE late == [e EXCEPT !.expired = TRUE]
  <2>3. late.key = e.key /\ late.msg = e.msg /\ late.expired
    BY <2>2, LateEntry, Zenon DEF Entry
  <2> QED
    BY <1>0, <2>1, <2>3, Zenon DEF Ages, Shrinks
<1>5. CASE Sweep
  BY <1>5, Zenon DEF Sweep, Shrinks
<1> QED
  BY <1>1, <1>2, <1>3, <1>4, <1>5, QueueWriters, Zenon

(* Enqueue gives every entry a key above those in the bucket.              *)
KeysBelow == \A a \in Addr : \A e \in queue[a] : e.key <= lastKey[a]

LEMMA NextKeysBelow == ASSUME TypeOK, KeysBelow, [Next]_vars PROVE KeysBelow'
<1> SUFFICES ASSUME NEW a \in Addr
             PROVE  \A e \in queue'[a] : e.key <= lastKey'[a]
  BY Zenon DEF KeysBelow
<1>1. /\ lastKey[a] \in Nat
      /\ \A e \in queue[a] : e.key \in Nat /\ e.key <= lastKey[a]
  BY DEF TypeOK, StoreTypeOK, Entry, KeysBelow
<1>2. CASE Grows(a)
  BY <1>1, <1>2 DEF Grows
<1>3. CASE Shrinks(a)
  BY <1>1, <1>3, Zenon DEF Shrinks
<1>4. CASE Ages(a)
  BY <1>1, <1>4, Zenon DEF Ages
<1> QED
  BY <1>2, <1>3, <1>4, BucketSteps, Zenon

(* QueueDurable needs to know that a flush deletes only what it has just   *)
(* passed to Client.Send.                                                  *)
HeadHanded ==
  \A s \in Session : fpc[s] = "remove" =>
    \A e \in batch[s] : AtHead(s, e) => e.key \in handed[s]

LEMMA NextHeadHanded ==
  ASSUME TypeOK, HeadHanded, [Next]_vars
  PROVE  /\ HeadHanded'
         /\ \A s \in Session : handed[s] \subseteq handed'[s]
<1> /\ fpc \in [Session -> {"none", "check", "read", "send", "remove", "exit"}]
    /\ handed \in [Session -> SUBSET Nat]
    /\ batch \in [Session -> SUBSET Entry]
  BY Zenon DEF TypeOK, ChanTypeOK, HistTypeOK
<1>1. CASE UNCHANGED <<fpc, batch, handed>>
  BY <1>1, Zenon DEF HeadHanded, AtHead
<1>2. CASE HubStartFlush
  BY <1>2, Zenon DEF HubStartFlush, HeadHanded, AtHead
<1>3. CASE \E who : Die(who)
  BY <1>3, Zenon DEF Die, HeadHanded
<1>4. ASSUME NEW s \in Session, FlushSteps(s), ~\E who : Die(who)
      PROVE  /\ HeadHanded'
             /\ \A r \in Session : handed[r] \subseteq handed'[r]
  <2>1. CASE FlushCheck(s) \/ FlushExit(s)
    BY <2>1, Zenon DEF FlushCheck, FlushExit, HeadHanded, AtHead
  <2>2. CASE FlushRead(s)
    BY SMTT(30), <2>2 DEF FlushRead, HeadHanded, AtHead
  <2>3. CASE FlushRemove(s)
    BY <2>3, Zenon DEF FlushRemove, HeadHanded, AtHead
  <2>4. CASE FlushSend(s)
    <3>1. PICK e \in batch[s] :
            /\ AtHead(s, e)
            /\ handed' = [handed EXCEPT ![s] = @ \cup {e.key}]
            /\ fpc' = [fpc EXCEPT ![s] = "remove"]
            /\ batch' = batch
      BY <1>4, <2>4, Zenon DEF FlushSend
    <3>2. \A d \in batch[s] : AtHead(s, d) => d.key = e.key
      <4>1. \A d \in batch[s] : d.key \in Nat
        BY SMTT(30) DEF Entry
      <4> QED
        BY <3>1, <4>1 DEF AtHead
    <3> QED
      BY <3>1, <3>2, Zenon DEF HeadHanded, AtHead
  <2> QED
    BY SMTT(30), <1>4, <2>1, <2>2, <2>3, <2>4 DEF FlushSteps
<1> QED
  BY <1>1, <1>2, <1>3, <1>4, FlushWriters, Zenon

LEMMA NextDurable ==
  ASSUME TypeOK, HeadHanded, QueueDurable, [Next]_vars PROVE QueueDurable'
<1> /\ queue \in [Addr -> SUBSET Entry]
    /\ lastKey \in [Addr -> Nat]
    /\ \A s \in Session : handed[s] \subseteq handed'[s]
  BY NextHeadHanded, Zenon DEF TypeOK, StoreTypeOK
<1> DEFINE Kept(a, k) ==
      \/ \E e \in queue'[a] : e.key = k
      \/ k \in swept'[a]
      \/ \E s \in Session : AddrOf[s] = a /\ k \in handed'[s]
<1>1. SUFFICES ASSUME NEW a \in Addr, NEW k \in 1..lastKey'[a]
               PROVE  Kept(a, k)
  BY DEF QueueDurable, Keys
<1>2. k \in 1..lastKey[a] =>
        \/ \E e \in queue[a] : e.key = k
        \/ k \in swept[a]
        \/ \E s \in Session : AddrOf[s] = a /\ k \in handed[s]
  BY SMTT(30) DEF QueueDurable, Keys
<1>3. CASE UNCHANGED <<queue, lastKey, swept>>
  BY SMTT(30), <1>2, <1>3
<1>4. ASSUME NEW s \in Session, RouteEnqueue(s) PROVE Kept(a, k)
  <2> DEFINE b == cur[s].to
             new == [key |-> lastKey[b] + 1, msg |-> cur[s], expired |-> FALSE]
  <2>1. /\ lastKey' = [lastKey EXCEPT ![b] = lastKey[b] + 1]
        /\ queue' = [queue EXCEPT ![b] = queue[b] \cup {new}]
        /\ swept' = swept /\ new.key = lastKey[b] + 1
    BY SMTT(30), <1>4 DEF RouteEnqueue, Enqueue
  <2> HIDE DEF new
  <2>2. k \in 1..lastKey[a] \/ (b = a /\ k = lastKey[a] + 1)
    BY SMTT(30), <2>1
  <2>3. queue[a] \subseteq queue'[a] /\ (b = a => new \in queue'[a])
    BY <2>1, Zenon
  <2> QED
    BY SMTT(30), <1>2, <2>1, <2>2, <2>3
<1>5. ASSUME NEW s \in Session, FlushRemove(s) PROVE Kept(a, k)
  <2>1. PICK e \in batch[s] : AtHead(s, e) /\ (Remove(AddrOf[s], e.key) \/ UNCHANGED queue)
    BY Zenon, <1>5 DEF FlushRemove
  <2>2. e.key \in handed'[s]
    BY Zenon, <1>5, <2>1 DEF FlushRemove, HeadHanded
  <2>3. \A d \in queue[a] : d \in queue'[a] \/ (AddrOf[s] = a /\ d.key = e.key)
    BY SMTT(30), <2>1 DEF Remove
  <2>4. lastKey' = lastKey /\ swept' = swept
    BY Zenon, <1>5 DEF FlushRemove
  <2> QED
    BY SMTT(30), <1>2, <2>2, <2>3, <2>4
<1>6. ASSUME NEW b \in Addr, Expire(b) PROVE Kept(a, k)
  <2>1. PICK e \in queue[b] :
          queue' = [queue EXCEPT
                      ![b] = (@ \ {e}) \cup {[e EXCEPT !.expired = TRUE]}]
    BY <1>6, Zenon DEF Expire
  <2> DEFINE late == [e EXCEPT !.expired = TRUE]
  <2>2. late.key = e.key
    BY DEF Entry
  <2>3. queue' = [queue EXCEPT ![b] = (@ \ {e}) \cup {late}]
    BY SMTT(30), <2>1
  <2> HIDE DEF late
  <2>4. \A d \in queue[a] : \E x \in queue'[a] : x.key = d.key
    BY <2>2, <2>3, Zenon
  <2>5. lastKey' = lastKey /\ swept' = swept
    BY SMTT(30), <1>6 DEF Expire
  <2> QED
    BY <1>2, <2>4, <2>5, Zenon
<1>7. CASE Sweep
  <2>1. \A d \in queue[a] : d \in queue'[a] \/ d.key \in swept'[a]
    BY <1>7, Zenon DEF Sweep
  <2>2. lastKey' = lastKey /\ swept[a] \subseteq swept'[a]
    BY <1>7, Zenon DEF Sweep
  <2> QED
    BY <1>2, <2>1, <2>2, Zenon
<1> QED
  BY <1>3, <1>4, <1>5, <1>6, <1>7, QueueWriters, Zenon

-----------------------------------------------------------------------------
(* The order of a flush                                                    *)

(* Enqueue gives no key twice.                                             *)
KeysUnique == \A a \in Addr : \A d, e \in queue[a] : d.key = e.key => d = e

LEMMA NextKeysUnique ==
  ASSUME TypeOK, KeysBelow, KeysUnique, [Next]_vars PROVE KeysUnique'
<1> SUFFICES ASSUME NEW a \in Addr
             PROVE  \A d, e \in queue'[a] : d.key = e.key => d = e
  BY Zenon DEF KeysUnique
<1>1. /\ lastKey[a] \in Nat
      /\ \A e \in queue[a] : e.key \in Nat /\ e.key <= lastKey[a]
      /\ \A d, e \in queue[a] : d.key = e.key => d = e
  BY DEF TypeOK, StoreTypeOK, Entry, KeysBelow, KeysUnique
<1>2. CASE Grows(a)
  BY <1>1, <1>2 DEF Grows
<1>3. CASE Shrinks(a)
  BY <1>1, <1>3, Zenon DEF Shrinks
<1>4. CASE Ages(a)
  <2>1. PICK e \in queue[a] : \E late :
          late.key = e.key /\ queue'[a] = (queue[a] \ {e}) \cup {late}
    BY <1>4, Zenon DEF Ages
  <2> QED
    BY <1>1, <2>1, Zenon
<1> QED
  BY <1>2, <1>3, <1>4, BucketSteps, Zenon

(* The entries a flush may still send. Every new one has a new key.        *)
Fresh(a) == {e \in queue[a] : ~e.expired}

LEMMA FreshSteps ==
  ASSUME TypeOK, [Next]_vars, NEW a \in Addr
  PROVE  /\ \A d \in Fresh(a)' : d \in Fresh(a) \/ d.key = lastKey[a] + 1
         /\ lastKey'[a] \in {lastKey[a], lastKey[a] + 1}
<1>1. CASE Grows(a)
  BY <1>1, Zenon DEF Grows, Fresh
<1>2. CASE Shrinks(a)
  BY <1>2, Zenon DEF Shrinks, Fresh
<1>3. CASE Ages(a)
  BY <1>3, Zenon DEF Ages, Fresh
<1> QED
  BY <1>1, <1>2, <1>3, BucketSteps, Zenon

(* No flush of the session has started yet: the hub has not accepted it,   *)
(* or is still counting its backlog.                                       *)
Unstarted(s) ==
  \/ spc[s] \in {"idle", "registering"}
  \/ hubpc \in {"count", "status", "flush"} /\ hubsess = s

(* A session is flushed once.                                              *)
FlushedOnce ==
  /\ \A s \in Session : Unstarted(s) => handed[s] = {} /\ fpc[s] = "none"
  /\ hubpc \in {"count", "status", "flush"} =>
       spc[hubsess] \notin {"idle", "registering"}

LEMMA NextFlushedOnce ==
  ASSUME TypeOK, FlushedOnce, [Next]_vars PROVE FlushedOnce'
<1>0. /\ spc \in [Session -> Live \cup {"idle", "registering", "closed"}]
      /\ fpc \in [Session -> {"none", "check", "read", "send", "remove", "exit"}]
      /\ handed \in [Session -> SUBSET Nat]
      /\ hubpc \in {"count", "status", "flush"} => hubsess \in Session
  BY Zenon DEF TypeOK, ReadTypeOK, ChanTypeOK, HistTypeOK, HubTypeOK
<1>1. CASE \E who : Die(who)
  BY <1>1, Zenon DEF Die, FlushedOnce, Unstarted
<1>2. CASE HubStartFlush
  BY <1>0, <1>2, Zenon DEF HubStartFlush, FlushedOnce, Unstarted
<1>3. CASE /\ UNCHANGED <<spc, fpc, handed>>
           /\ \/ UNCHANGED <<hubpc, hubsess>>
              \/ hubpc' \in {"select", "stopped"}
              \/ hubsess' = hubsess /\ hubpc \in {"count", "status"}
  BY <1>3, Zenon DEF FlushedOnce, Unstarted
<1>4. ASSUME NEW s \in Session, HubSession(s) PROVE FlushedOnce'
  <2>1. /\ UNCHANGED <<fpc, handed>> /\ hubpc = "select"
        /\ \/ /\ spc' = [spc EXCEPT ![s] = "closed"]
              /\ UNCHANGED <<hubpc, hubsess>>
           \/ /\ spc[s] = "registering" /\ spc' = [spc EXCEPT ![s] = "accepted"]
              /\ hubsess' = s
    BY <1>4, Zenon DEF HubSession, HubReject, HubAccept, HubUnregister
  <2> QED
    BY <1>0, <2>1, Zenon DEF FlushedOnce, Unstarted
<1>5. ASSUME NEW s \in Session, UNCHANGED <<hubpc, hubsess>>,
             \/ UNCHANGED spc
             \/ \E pc \in Live :
                  spc[s] \in Live /\ spc' = [spc EXCEPT ![s] = pc]
             \/ spc[s] = "idle" /\ spc' = [spc EXCEPT ![s] = "registering"],
             \A r \in Session : fpc[r] = "none" =>
               fpc'[r] = fpc[r] /\ handed'[r] = handed[r]
      PROVE  FlushedOnce'
  <2>1. \A r \in Session : spc'[r] \in {"idle", "registering"}
          => spc[r] \in {"idle", "registering"}
    BY <1>0, <1>5, Zenon
  <2>2. hubpc \in {"count", "status", "flush"} =>
          spc'[hubsess] \notin {"idle", "registering"}
    BY <1>0, <1>5, Zenon DEF FlushedOnce
  <2> QED
    BY <1>5, <2>1, <2>2, Zenon DEF FlushedOnce, Unstarted
<1>6. ASSUME NEW s \in Session, FlushSteps(s), ~\E who : Die(who)
      PROVE  \A r \in Session : fpc[r] = "none" =>
               fpc'[r] = fpc[r] /\ handed'[r] = handed[r]
  <2>1. /\ fpc[s] # "none" /\ \E pc : fpc' = [fpc EXCEPT ![s] = pc]
        /\ UNCHANGED handed \/ \E k : handed' = [handed EXCEPT ![s] = k]
    BY <1>6, Zenon
    DEF FlushSteps, FlushCheck, FlushRead, FlushSend, FlushRemove, FlushExit
  <2> QED
    BY <1>0, <2>1, Zenon
<1>7. CASE HubCount \/ HubSendStatus \/ HubStop \/ UNCHANGED vars
  <2>1. /\ UNCHANGED <<spc, fpc, handed>>
        /\ \/ UNCHANGED <<hubpc, hubsess>>
           \/ hubpc' \in {"select", "stopped"}
           \/ hubsess' = hubsess /\ hubpc \in {"count", "status"}
    BY <1>7, Zenon DEF HubCount, HubSendStatus, HubStop
  <2> QED
    BY <1>3, <2>1, Zenon
<1>8. (\E a \in Addr : Refill(a) \/ Expire(a)) \/ Sweep \/ Shutdown \/ Restart
        => UNCHANGED <<spc, fpc, handed, hubpc, hubsess>>
  BY Zenon DEF Refill, Expire, Sweep, Shutdown, Restart
<1>9. ASSUME NEW s \in Session,
             \/ HandlerSteps(s) \/ FlushSteps(s) \/ WriteSteps(s)
             \/ Connect(s) \/ ConnDrop(s) \/ ReadFrame(s)
      PROVE  FlushedOnce'
  <2>1. CASE \A r \in Session : fpc[r] = "none" =>
               fpc'[r] = fpc[r] /\ handed'[r] = handed[r]
    <3>1. \/ \E who : Die(who)
          \/ /\ UNCHANGED <<hubpc, hubsess>>
             /\ \/ UNCHANGED spc
                \/ \E pc \in Live :
                     spc[s] \in Live /\ spc' = [spc EXCEPT ![s] = pc]
                \/ spc[s] = "idle" /\ spc' = [spc EXCEPT ![s] = "registering"]
      BY <1>9, SessionSteps, Zenon
    <3> QED
      BY <1>1, <1>5, <2>1, <3>1, Zenon
  <2> QED
    BY <1>1, <1>2, <1>6, <2>1, FlushWriters, Zenon
<1> QED
  BY <1>1, <1>2, <1>3, <1>4, <1>7, <1>8, <1>9, Zenon
  DEF Next, HubSteps, Exit, Kill

(* What a flush has fetched and sent has been given a key, and no key      *)
(* twice.                                                                  *)
BatchKeys ==
  \A s \in Session :
    /\ \A e \in batch[s] : e.key <= lastKey[AddrOf[s]]
    /\ \A k \in handed[s] : k <= lastKey[AddrOf[s]]
    /\ \A d, e \in batch[s] : d.key = e.key => d = e

(* A flush fetches entries of the bucket and sends what it has fetched.    *)
LEMMA BatchSteps ==
  ASSUME TypeOK, [Next]_vars, NEW s \in Session
  PROVE  /\ batch'[s] \subseteq batch[s] \/ batch'[s] \subseteq queue[AddrOf[s]]
         /\ \A k \in handed'[s] :
              k \in handed[s] \/ \E e \in batch[s] : e.key = k
<1>0. batch \in [Session -> SUBSET Entry] /\ handed \in [Session -> SUBSET Nat]
  BY Zenon DEF TypeOK, ChanTypeOK, HistTypeOK
<1>1. CASE UNCHANGED <<batch, handed>>
  BY <1>1, Zenon
<1>2. CASE \E who : Die(who)
  BY <1>2, Zenon DEF Die
<1>3. ASSUME NEW r \in Session, FlushRead(r)
      PROVE  /\ batch'[s] \subseteq batch[s] \/ batch'[s] \subseteq queue[AddrOf[s]]
             /\ UNCHANGED handed
  <2>1. FlushBatch(AddrOf[r]) \subseteq queue[AddrOf[r]]
    BY Zenon DEF FlushBatch
  <2> QED
    BY <1>0, <1>3, <2>1, Zenon DEF FlushRead
<1>4. ASSUME NEW r \in Session, FlushSend(r), ~\E who : Die(who)
      PROVE  /\ UNCHANGED batch
             /\ \A k \in handed'[s] :
                  k \in handed[s] \/ \E e \in batch[s] : e.key = k
  <2>1. PICK e \in batch[r] :
          handed' = [handed EXCEPT ![r] = @ \cup {e.key}] /\ UNCHANGED batch
    BY <1>4, Zenon DEF FlushSend
  <2> QED
    BY <1>0, <2>1, Zenon
<1>5. ASSUME NEW r \in Session, FlushRemove(r)
      PROVE  batch'[s] \subseteq batch[s] /\ UNCHANGED handed
  BY <1>0, <1>5, Zenon DEF FlushRemove
<1>6. HubStartFlush \/ (\E r \in Session : FlushCheck(r) \/ FlushExit(r))
        => UNCHANGED <<batch, handed>>
  BY Zenon DEF HubStartFlush, FlushCheck, FlushExit
<1> QED
  BY <1>1, <1>2, <1>3, <1>4, <1>5, <1>6, FlushWriters, Zenon DEF FlushSteps

LEMMA NextBatchKeys ==
  ASSUME TypeOK, KeysBelow, KeysUnique, BatchKeys, [Next]_vars
  PROVE  BatchKeys'
<1> SUFFICES ASSUME NEW s \in Session
             PROVE  /\ \A e \in batch'[s] : e.key <= lastKey'[AddrOf[s]]
                    /\ \A k \in handed'[s] : k <= lastKey'[AddrOf[s]]
                    /\ \A d, e \in batch'[s] : d.key = e.key => d = e
  BY Zenon DEF BatchKeys
<1> DEFINE a == AddrOf[s]
<1>0. /\ a \in Addr /\ lastKey[a] \in Nat
      /\ \A e \in batch[s] \cup queue[a] : e.key \in Nat /\ e.key <= lastKey[a]
      /\ \A k \in handed[s] : k \in Nat /\ k <= lastKey[a]
      /\ \A d, e \in batch[s] : d.key = e.key => d = e
      /\ \A d, e \in queue[a] : d.key = e.key => d = e
  BY RelayHubAssumption
  DEF TypeOK, StoreTypeOK, ChanTypeOK, HistTypeOK, Entry, KeysBelow, BatchKeys,
      KeysUnique
<1>1. lastKey'[a] \in {lastKey[a], lastKey[a] + 1}
  BY <1>0, FreshSteps, Zenon
<1>2. /\ batch'[s] \subseteq batch[s] \/ batch'[s] \subseteq queue[a]
      /\ \A k \in handed'[s] : k \in handed[s] \/ \E e \in batch[s] : e.key = k
  BY BatchSteps, Zenon
<1> HIDE DEF a
<1>3. /\ \A e \in batch'[s] : e.key <= lastKey'[a]
      /\ \A k \in handed'[s] : k <= lastKey'[a]
  BY <1>0, <1>1, <1>2
<1>4. \A d, e \in batch'[s] : d.key = e.key => d = e
  BY <1>0, <1>2, Zenon
<1> QED
  BY <1>3, <1>4, Zenon DEF a

(* FlushBatch returns the oldest entries.                                  *)
BatchFirst ==
  \A a \in Addr : \A e \in FlushBatch(a) : \A d \in Fresh(a) :
    d.key < e.key => d \in FlushBatch(a)

(* As long as no transaction has failed, what is still to be sent is newer *)
(* than what has been sent, and the batch holds the oldest of it.          *)
Ordered(s) ==
  /\ fpc[s] \in {"check", "read", "send"} =>
       \A k \in handed[s] : \A d \in Fresh(AddrOf[s]) : k < d.key
  /\ fpc[s] = "send" => \A k \in handed[s] : \A e \in batch[s] : k < e.key
  /\ fpc[s] = "remove" =>
       \A k \in handed[s] : \A d \in Fresh(AddrOf[s]) \cup batch[s] : k <= d.key
  /\ fpc[s] \in {"send", "remove"} =>
       \A e \in batch[s] : \A d \in Fresh(AddrOf[s]) :
         d.key < e.key => \E b \in batch[s] : b.key = d.key

OrderInv == faults = 0 => \A s \in Session : Ordered(s)

(* A step that is not one of this flush.                                   *)
LEMMA OrderFrame ==
  ASSUME TypeOK, BatchKeys, NEW s \in Session, Ordered(s), [Next]_vars,
         fpc'[s] \in {fpc[s], "none"}, batch'[s] = batch[s],
         handed'[s] = handed[s]
  PROVE  Ordered(s)'
<1> DEFINE a == AddrOf[s]
<1>1. /\ a \in Addr /\ lastKey[a] \in Nat
      /\ \A e \in batch[s] : e.key \in Nat /\ e.key <= lastKey[a]
      /\ \A d \in Fresh(a) : d.key \in Nat
      /\ \A k \in handed[s] : k \in Nat /\ k <= lastKey[a]
  BY RelayHubAssumption
  DEF TypeOK, StoreTypeOK, ChanTypeOK, HistTypeOK, Entry, BatchKeys, Fresh
<1>2. \A d \in Fresh(a)' : d \in Fresh(a) \/ d.key = lastKey[a] + 1
  BY <1>1, FreshSteps, Zenon
<1> QED
  BY <1>1, <1>2 DEF Ordered

LEMMA FlushOrder ==
  ASSUME TypeOK, BatchKeys, BatchFirst, NEW s \in Session, Ordered(s),
         [Next]_vars, FlushSteps(s), ~\E who : Die(who), UNCHANGED faults
  PROVE  Ordered(s)'
<1> DEFINE a == AddrOf[s]
<1>0. /\ a \in Addr
      /\ batch \in [Session -> SUBSET Entry] /\ handed \in [Session -> SUBSET Nat]
      /\ queue \in [Addr -> SUBSET Entry]
      /\ fpc \in [Session -> {"none", "check", "read", "send", "remove", "exit"}]
  BY RelayHubAssumption, Zenon DEF TypeOK, ChanTypeOK, HistTypeOK, StoreTypeOK
<1>1. CASE FlushCheck(s) \/ FlushExit(s)
  BY <1>0, <1>1, Zenon DEF FlushCheck, FlushExit, Ordered, Fresh
<1>2. CASE FlushRead(s)
  <2>1. /\ fpc[s] = "read" /\ UNCHANGED <<queue, handed>>
        /\ fpc'[s] \in {"exit", "send"} /\ batch'[s] = FlushBatch(a)
    BY <1>0, <1>2 DEF FlushRead, Fault, TypeOK, HistTypeOK
  <2>2. FlushBatch(a) \subseteq Fresh(a) /\ Fresh(a)' = Fresh(a)
    BY <2>1, Zenon DEF FlushBatch, Fresh
  <2> QED
    BY <1>0, <2>1, <2>2 DEF Ordered, BatchFirst
<1>3. CASE FlushSend(s)
  <2>1. PICK e \in batch[s] :
          /\ AtHead(s, e) /\ fpc[s] = "send" /\ fpc'[s] = "remove"
          /\ handed'[s] = handed[s] \cup {e.key}
          /\ UNCHANGED <<batch, queue>>
    BY <1>0, <1>3, Zenon DEF FlushSend
  <2>2. Fresh(a)' = Fresh(a)
    BY <2>1, Zenon DEF Fresh
  <2>3. \A d \in Fresh(a) \cup batch[s] : d.key \in Nat
    BY <1>0 DEF Fresh, Entry
  <2>4. \A k \in handed[s] : k \in Nat
    BY <1>0, Zenon
  <2>5. \A d \in Fresh(a) \cup batch[s] : e.key <= d.key
    BY <2>1, <2>3 DEF Ordered, AtHead
  <2> QED
    BY <2>1, <2>2, <2>3, <2>4, <2>5 DEF Ordered
<1>4. CASE FlushRemove(s)
  <2>1. PICK e \in batch[s] :
          /\ AtHead(s, e) /\ fpc[s] = "remove" /\ fpc'[s] \in {"check", "send"}
          /\ batch'[s] = batch[s] \ {e} /\ UNCHANGED handed
          /\ Remove(a, e.key)
    BY <1>0, <1>4 DEF FlushRemove, Fault, TypeOK, HistTypeOK
  <2>2. Fresh(a)' = {d \in Fresh(a) : d.key # e.key}
    <3>1. queue'[a] = {d \in queue[a] : d.key # e.key}
      BY <1>0, <2>1, Zenon DEF Remove
    <3> QED
      BY <3>1, Zenon DEF Fresh
  <2>3. \A d \in Fresh(a) \cup batch[s] : d.key \in Nat
    BY <1>0 DEF Fresh, Entry
  <2>4. \A k \in handed[s] : k \in Nat
    BY <1>0, Zenon
  <2>5. /\ \A k \in handed[s] : \A d \in Fresh(a) \cup batch[s] : k <= d.key
        /\ \A b \in batch[s] : e.key <= b.key
        /\ \A b \in batch[s] : \A d \in Fresh(a) :
             d.key < b.key => \E c \in batch[s] : c.key = d.key
        /\ \A b \in batch[s] : b.key = e.key => b = e
    BY <2>1, Zenon DEF Ordered, AtHead, BatchKeys
  <2>6. ASSUME NEW d \in Fresh(a)' \cup batch'[s] PROVE e.key < d.key
    <3>1. /\ d \in Fresh(a) \cup batch[s] /\ d.key # e.key
          /\ d \in Fresh(a) \/ e.key <= d.key
      BY <2>1, <2>2, <2>5, Zenon
    <3>2. d.key \in Nat /\ e.key \in Nat
      BY <2>3, <3>1, Zenon
    <3> QED
      BY <2>5, <3>1, <3>2
  <2>7. \A k \in handed[s] : k <= e.key
    BY <2>5, Zenon
  <2>8. \A d \in batch'[s], c \in Fresh(a)' :
          c.key < d.key => \E b \in batch'[s] : b.key = c.key
    BY <2>1, <2>2, <2>5, Zenon
  <2>9. \A k \in handed[s] : \A d \in Fresh(a)' \cup batch'[s] : k < d.key
    <3> SUFFICES ASSUME NEW k \in handed[s], NEW d \in Fresh(a)' \cup batch'[s]
                 PROVE  k < d.key
      OBVIOUS
    <3>1. e.key < d.key /\ k <= e.key /\ k \in Nat
      BY <2>4, <2>6, <2>7, Zenon
    <3>2. d.key \in Nat /\ e.key \in Nat
      BY <2>1, <2>2, <2>3, Zenon
    <3> QED
      BY <3>1, <3>2
  <2> QED
    BY <2>1, <2>8, <2>9, Zenon DEF Ordered
<1> QED
  BY <1>1, <1>2, <1>3, <1>4, Zenon DEF FlushSteps

LEMMA NextOrder ==
  ASSUME TypeOK, BatchKeys, BatchFirst, FlushedOnce, OrderInv, [Next]_vars
  PROVE  OrderInv'
<1> SUFFICES ASSUME faults' = 0, NEW s \in Session PROVE Ordered(s)'
  BY Zenon DEF OrderInv
<1>0. /\ fpc \in [Session -> {"none", "check", "read", "send", "remove", "exit"}]
      /\ batch \in [Session -> SUBSET Entry] /\ handed \in [Session -> SUBSET Nat]
  BY Zenon DEF TypeOK, ChanTypeOK, HistTypeOK
<1>1. faults = 0 /\ Ordered(s)
  BY NoFault, Zenon DEF OrderInv
<1>2. CASE \E who : Die(who)
  <2>1. fpc' = [r \in Session |-> "none"]
    BY <1>2, Zenon DEF Die
  <2>2. fpc'[s] = "none"
    BY <2>1, Zenon
  <2> QED
    BY <2>2, Zenon DEF Ordered
<1>3. CASE HubStartFlush
  <2>1. /\ UNCHANGED <<batch, handed>> /\ fpc' = [fpc EXCEPT ![hubsess] = "check"]
        /\ hubpc = "flush"
    BY <1>3, Zenon DEF HubStartFlush
  <2>2. CASE s = hubsess
    <3>1. handed'[s] = {} /\ fpc'[s] = "check"
      BY <1>0, <2>1, <2>2, Zenon DEF FlushedOnce, Unstarted
    <3> QED
      BY <3>1, Zenon DEF Ordered
  <2>3. CASE s # hubsess
    BY <1>0, <1>1, <2>1, <2>3, OrderFrame, Zenon
  <2> QED
    BY <2>2, <2>3, Zenon
<1>4. ASSUME NEW r \in Session, FlushSteps(r), ~\E who : Die(who)
      PROVE  Ordered(s)'
  <2>1. CASE s = r
    BY <1>1, <1>4, <2>1, FlushOrder, Zenon
  <2>2. CASE s # r
    <3>1. fpc'[s] = fpc[s] /\ batch'[s] = batch[s] /\ handed'[s] = handed[s]
      <4>1. /\ \E pc : fpc' = [fpc EXCEPT ![r] = pc]
            /\ UNCHANGED handed \/ \E k : handed' = [handed EXCEPT ![r] = k]
            /\ UNCHANGED batch \/ \E b : batch' = [batch EXCEPT ![r] = b]
        BY <1>4, Zenon
        DEF FlushSteps, FlushCheck, FlushRead, FlushSend, FlushRemove, FlushExit
      <4> QED
        BY <1>0, <2>2, <4>1, Zenon
    <3> QED
      BY <1>1, <3>1, OrderFrame, Zenon
  <2> QED
    BY <2>1, <2>2, Zenon
<1>5. CASE UNCHANGED <<fpc, batch, handed>>
  BY <1>1, <1>5, OrderFrame, Zenon
<1> QED
  BY <1>2, <1>3, <1>4, <1>5, FlushWriters, Zenon

=============================================================================
