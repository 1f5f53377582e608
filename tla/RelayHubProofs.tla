--------------------------- MODULE RelayHubProofs ---------------------------
(***************************************************************************)
(* What RelayHub guarantees, for any sets of addresses and sessions and    *)
(* any bounds: its invariants, and that it implements Mailbox.             *)
(***************************************************************************)
EXTENDS RelayHubOnceProofs, RelayHubMailbox

USE DEF procVars, hubVars, readVars, chanVars, flushVars, storeVars, logVars,
        histVars, vars, Live, Routing

-----------------------------------------------------------------------------
(* The refinement mapping                                                  *)

(* The strengthening under which every step of RelayHub is one of Mailbox. *)
MailInv == RouteInv /\ KeysBelow /\ HeadHanded

MailStep == M!Next \/ UNCHANGED M!mailVars

(* A step that leaves the mapped variables alone.                          *)
LEMMA MailFrame ==
  /\ UNCHANGED cur => UNCHANGED Taken
  /\ UNCHANGED send => UNCHANGED Buffered
  /\ UNCHANGED <<cur, queue, batch, handed, send, inbox>> => MailStep
BY Zenon DEF Taken, Buffered, MailStep, M!mailVars

LEMMA MessagesOf == \A q : Messages(q) = {m \in Elems(q) : m.kind = "msg"}
BY Zenon DEF Messages, Elems

(* Client.Send of a notice buffers no message, Client.Send of a message    *)
(* buffers it unless the channel is full.                                  *)
LEMMA PushBuffered ==
  ASSUME TypeOK, NEW s \in Session, NEW x \in Item, Push(s, x)
  PROVE  \/ Buffered' = Buffered
         \/ x.kind = "msg" /\ Buffered' = [Buffered EXCEPT ![s] = @ \cup {x}]
<1>0. send \in [Session -> Seq(Item)]
  BY Zenon DEF TypeOK, ChanTypeOK
<1>1. CASE send' = send
  BY <1>1, MailFrame, Zenon
<1>2. CASE send' = [send EXCEPT ![s] = Append(@, x)]
  <2>1. \A r \in Session \ {s} : send'[r] = send[r]
    BY <1>0, <1>2, Zenon
  <2>2. Elems(send'[s]) = Elems(send[s]) \cup {x}
    BY <1>0, <1>2, AppendElems
  <2>3. Messages(send'[s]) = IF x.kind = "msg" THEN Messages(send[s]) \cup {x}
                             ELSE Messages(send[s])
    BY <2>2, MessagesOf, Zenon
  <2> QED
    BY <2>1, <2>3, Zenon DEF Buffered
<1> QED
  BY <1>0, <1>1, <1>2, Zenon DEF Push

(* When RouteMessage returns, nothing is left to be disposed of.           *)
LEMMA ReturnTaken ==
  ASSUME TypeOK, NEW s \in Session, Return(s)
  PROVE  Taken' = [Taken EXCEPT ![s] = {}]
<1>1. cur' = [cur EXCEPT ![s] = NoFrame] /\ cur \in [Session -> Frame \cup {NoFrame}]
  BY Zenon DEF Return, TypeOK, ReadTypeOK
<1>2. NoFrame.kind # "msg"
  BY Zenon DEF NoFrame
<1> QED
  BY <1>1, <1>2, Zenon DEF Taken

-----------------------------------------------------------------------------
(* Every step of the relay is one of the mailbox, or none                  *)

(* A panic, a kill and an exit are crashes of the mailbox.                 *)
LEMMA DieMail == ASSUME Dies PROVE MailStep
<1>1. /\ cur' = [s \in Session |-> NoFrame]
      /\ batch' = [s \in Session |-> {}]
      /\ send' = [s \in Session |-> <<>>]
      /\ UNCHANGED <<queue, handed, inbox>>
  BY Zenon DEF Dies, Die
<1>2. Taken' = [s \in Session |-> {}]
  BY <1>1, Zenon DEF Taken, NoFrame
<1>3. Messages(<<>>) = {}
  BY DEF Messages
<1>4. Buffered' = [s \in Session |-> {}]
  BY <1>1, <1>3, Zenon DEF Buffered
<1>5. M!Crash
  BY <1>1, <1>2, <1>4, Zenon DEF M!Crash
<1> QED
  BY <1>5, Zenon DEF MailStep, M!Next

(* Closing the channels of some sessions empties their buffers.            *)
LEMMA CloseMail == ASSUME NEW S \in SUBSET Session, Closes(S) PROVE MailStep
<1>1. Messages(<<>>) = {}
  BY DEF Messages
<1>2. Buffered' = [s \in Session |-> IF s \in S THEN {} ELSE Buffered[s]]
  BY <1>1, Zenon DEF Buffered, Closes, CloseAll
<1>3. M!Close(S)
  BY <1>2, MailFrame, Zenon DEF M!Close, Closes
<1> QED
  BY <1>3, Zenon DEF MailStep, M!Next

(* RouteMessage returns without having stored or passed on the message.    *)
LEMMA GiveUpMail ==
  ASSUME TypeOK, NEW s \in Session, Return(s), Buffered' = Buffered,
         UNCHANGED <<queue, batch, handed, inbox>>
  PROVE  MailStep
<1>1. M!GiveUp(s)
  BY ReturnTaken, Zenon DEF M!GiveUp
<1> QED
  BY <1>1, Zenon DEF MailStep, M!Next

(* A notice to an agent is none of the mailbox's messages.                 *)
LEMMA NoticeMail ==
  ASSUME TypeOK, NEW s \in Session, Notice(s) PROVE MailStep
<1>1. PICK x \in Control : Push(s, x)
  BY Zenon DEF Notice
<1>2. x \in Item /\ x.kind # "msg"
  BY Zenon DEF Item, Control
<1>3. Buffered' = Buffered
  BY <1>1, <1>2, PushBuffered, Zenon
<1>4. /\ Return(s) \/ UNCHANGED cur
      /\ UNCHANGED <<queue, batch, handed, inbox>>
  BY Zenon DEF Notice
<1>5. CASE UNCHANGED cur
  BY <1>3, <1>4, <1>5, MailFrame, Zenon DEF MailStep, M!mailVars
<1> QED
  BY <1>3, <1>4, <1>5, GiveUpMail, Zenon

(* ReadPump takes a message, or a frame that is none.                      *)
LEMMA ReadMail ==
  ASSUME TypeOK, MailInv, NEW s \in Session, ReadFrame(s) PROVE MailStep
<1>1. /\ spc[s] = "running" /\ UNCHANGED <<queue, batch, handed, send, inbox>>
      /\ \E f \in Frames(AddrOf[s]) : cur' = [cur EXCEPT ![s] = f]
  BY Zenon DEF ReadFrame
<1>2. PICK f \in Frames(AddrOf[s]) : cur' = [cur EXCEPT ![s] = f]
  BY <1>1, Zenon
<1>3. f \in Frame /\ f.from = AddrOf[s]
  <2>1. AddrOf[s] \in Addr /\ sent[AddrOf[s]] + 1 \in Nat
    BY RelayHubAssumption DEF TypeOK, HistTypeOK
  <2>2. FrameKinds \subseteq {"msg", "junk"}
    BY RelayHubAssumption, Zenon
  <2>3. f \in [kind : FrameKinds \cup {"block", "unblock"}, from : {AddrOf[s]},
               to : Addr, n : {sent[AddrOf[s]] + 1}]
    BY <1>2, Zenon DEF Frames
  <2> QED
    BY <2>1, <2>2, <2>3, Zenon DEF Frame
<1>4. cur \in [Session -> Frame \cup {NoFrame}] /\ cur[s] = NoFrame
  BY <1>1, Zenon DEF TypeOK, ReadTypeOK, MailInv, RouteInv
<1>5. Taken[s] = {} /\ Taken \in [Session -> SUBSET Frame]
  BY <1>4 DEF Taken, NoFrame
<1>6. CASE f.kind = "msg"
  <2>1. Taken' = [Taken EXCEPT ![s] = {f}] /\ f \in Taken'[s]
    BY <1>2, <1>4, <1>6, Zenon DEF Taken
  <2>2. M!Take(s)
    BY <1>1, <1>3, <1>5, <1>6, <2>1, MailFrame, Zenon DEF M!Take, Message
  <2> QED
    BY <2>2, Zenon DEF MailStep, M!Next
<1>7. CASE f.kind # "msg"
  <2>1. Taken' = Taken
    BY <1>2, <1>4, <1>5, <1>7, Zenon DEF Taken
  <2> QED
    BY <1>1, <2>1, MailFrame, Zenon DEF MailStep, M!mailVars
<1> QED
  BY <1>6, <1>7, Zenon

(* RouteMessage stores the message it has.                                 *)
LEMMA EnqueueMail ==
  ASSUME TypeOK, MailInv, NEW s \in Session, RouteEnqueue(s) PROVE MailStep
<1> DEFINE m == cur[s]
           new == [key |-> lastKey[m.to] + 1, msg |-> m, expired |-> FALSE]
<1>1. m \in Message /\ m.to \in Addr /\ m.kind = "msg"
  BY Zenon DEF RouteEnqueue, TypeOK, ReadTypeOK, Message, Frame
<1>2. /\ queue' = [queue EXCEPT ![m.to] = @ \cup {new}]
      /\ Return(s) /\ UNCHANGED <<batch, handed, send, inbox>>
  BY Zenon DEF RouteEnqueue, Enqueue
<1>3. \A d \in queue[m.to] : d.key < new.key
  <2>1. \A d \in queue[m.to] : d.key <= lastKey[m.to] /\ d.key \in Nat
    BY <1>1 DEF MailInv, KeysBelow, TypeOK, StoreTypeOK, Entry
  <2>2. lastKey[m.to] \in Nat /\ new.key = lastKey[m.to] + 1
    BY <1>1, Zenon DEF TypeOK, StoreTypeOK
  <2> QED
    BY <2>1, <2>2
<1>4. new.msg = m /\ ~new.expired
  OBVIOUS
<1>5. m \in Taken[s]
  BY <1>1, Zenon DEF Taken
<1> HIDE DEF new, m
<1>6. new \in queue'[m.to]
  BY <1>1, <1>2, Zenon DEF TypeOK, StoreTypeOK
<1>7. M!Keep(s)
  BY <1>2, <1>3, <1>4, <1>5, <1>6, MailFrame, ReturnTaken, Zenon DEF M!Keep
<1> QED
  BY <1>7, Zenon DEF MailStep, M!Next

(* RouteMessage passes it on to the addressee's session.                   *)
LEMMA PassMail ==
  ASSUME TypeOK, MailInv, NEW s \in Session, RouteSend(s), ~closed[rcpt[s]]
  PROVE  MailStep
<1>1. /\ spc[s] = "send" /\ Push(rcpt[s], cur[s]) /\ Return(s)
      /\ UNCHANGED <<queue, batch, handed, inbox>>
  BY Zenon DEF RouteSend
<1>2. cur[s] \in Message /\ rcpt[s] \in Session
  BY <1>1, Zenon DEF TypeOK, ReadTypeOK
<1>3. AddrOf[rcpt[s]] = cur[s].to
  BY <1>1, <1>2, RelayHubAssumption, Zenon DEF MailInv, RouteInv
<1>4. cur[s] \in Item /\ cur[s] \in Taken[s]
  BY <1>2, Zenon DEF Taken, Message, Item
<1>5. CASE Buffered' = Buffered
  BY <1>1, <1>5, GiveUpMail, Zenon
<1>6. CASE Buffered' = [Buffered EXCEPT ![rcpt[s]] = @ \cup {cur[s]}]
  <2>1. M!Pass(s)
    BY <1>1, <1>2, <1>3, <1>4, <1>6, ReturnTaken, Zenon DEF M!Pass
  <2> QED
    BY <2>1, Zenon DEF MailStep, M!Next
<1> QED
  BY <1>1, <1>2, <1>4, <1>5, <1>6, PushBuffered, Zenon

(* A flush fetches, offers and discards.                                   *)
LEMMA FlushMail ==
  ASSUME TypeOK, MailInv, NEW s \in Session, FlushWork(s) PROVE MailStep
<1>1. CASE FlushCheck(s) \/ FlushExit(s)
  BY <1>1, MailFrame, Zenon DEF FlushCheck, FlushExit
<1>2. CASE FlushRead(s)
  <2>1. /\ UNCHANGED <<cur, queue, handed, send, inbox>>
        /\ \/ batch' = [batch EXCEPT ![s] = FlushBatch(AddrOf[s])]
           \/ batch' = batch
    BY <1>2, Zenon DEF FlushRead
  <2>2. FlushBatch(AddrOf[s]) \in SUBSET {e \in queue[AddrOf[s]] : ~e.expired}
    BY Zenon DEF FlushBatch
  <2>3. CASE batch' = [batch EXCEPT ![s] = FlushBatch(AddrOf[s])]
    <3>1. M!Fetch(s)
      BY <2>1, <2>2, <2>3, MailFrame, Zenon DEF M!Fetch
    <3> QED
      BY <3>1, Zenon DEF MailStep, M!Next
  <2> QED
    BY <2>1, <2>3, MailFrame, Zenon
<1>3. CASE FlushSend(s) /\ ~closed[s]
  <2>1. PICK e \in batch[s] :
          /\ Push(s, e.msg)
          /\ handed' = [handed EXCEPT ![s] = @ \cup {e.key}]
          /\ UNCHANGED <<cur, queue, batch, inbox>>
    BY <1>3, Zenon DEF FlushSend
  <2>2. e.msg \in Item
    BY <2>1 DEF TypeOK, ChanTypeOK, Entry, Item
  <2>3. \/ Buffered' = Buffered
        \/ Buffered' = [Buffered EXCEPT ![s] = @ \cup {e.msg}]
    BY <2>1, <2>2, PushBuffered, Zenon
  <2>4. M!Offer(s)
    BY <2>1, <2>3, MailFrame, Zenon DEF M!Offer
  <2> QED
    BY <2>4, Zenon DEF MailStep, M!Next
<1>4. CASE FlushRemove(s)
  <2>1. PICK e \in batch[s] :
          /\ AtHead(s, e)
          /\ Remove(AddrOf[s], e.key) \/ UNCHANGED queue
          /\ batch' = [batch EXCEPT ![s] = @ \ {e}]
          /\ UNCHANGED <<cur, handed, send, inbox>>
          /\ fpc[s] = "remove"
    BY <1>4, Zenon DEF FlushRemove
  <2>2. e.key \in handed[s]
    BY <2>1, Zenon DEF MailInv, HeadHanded
  <2>3. M!Discard(s)
    BY <2>1, <2>2, MailFrame, Zenon DEF M!Discard, Remove
  <2> QED
    BY <2>3, Zenon DEF MailStep, M!Next
<1> QED
  BY <1>1, <1>2, <1>3, <1>4, Zenon DEF FlushWork

(* WritePump delivers or loses what is buffered.                           *)
LEMMA WriteMail ==
  ASSUME TypeOK, NEW s \in Session, WriteMessage(s) \/ WriteLost(s)
  PROVE  MailStep
<1> DEFINE m == Head(send[s])
<1>0. send \in [Session -> Seq(Item)]
  BY Zenon DEF TypeOK, ChanTypeOK
<1>1. /\ send' = [send EXCEPT ![s] = Tail(@)] /\ send[s] # <<>>
      /\ UNCHANGED <<cur, queue, batch, handed>>
      /\ \/ inbox' = inbox
         \/ /\ m.kind = "msg"
            /\ inbox' = [inbox EXCEPT
                 ![AddrOf[s]] = Append(@, [sess |-> s, msg |-> m])]
  BY Zenon DEF WriteMessage, WriteLost
<1>2. \A r \in Session \ {s} : send'[r] = send[r]
  BY <1>0, <1>1, Zenon
<1>3. Elems(send[s]) = Elems(send'[s]) \cup {m}
  BY <1>0, <1>1, TailElems, Zenon
<1>4. Messages(send[s]) = IF m.kind = "msg" THEN Messages(send'[s]) \cup {m}
                          ELSE Messages(send'[s])
  BY <1>3, MessagesOf, Zenon
<1>5. CASE m.kind # "msg"
  <2>1. Buffered' = Buffered
    BY <1>2, <1>4, <1>5, Zenon DEF Buffered
  <2> QED
    BY <1>1, <1>5, <2>1, MailFrame, Zenon DEF MailStep, M!mailVars
<1>6. CASE m.kind = "msg"
  <2>1. /\ m \in Buffered[s]
        /\ \/ Buffered' = [Buffered EXCEPT ![s] = @ \ {m}]
           \/ Buffered' = Buffered
    BY <1>2, <1>4, <1>6, Zenon DEF Buffered
  <2> HIDE DEF m
  <2>2. CASE inbox' = inbox
    <3>1. M!Lose(s) \/ UNCHANGED M!mailVars
      BY <1>1, <2>1, <2>2, MailFrame, Zenon DEF M!Lose, M!mailVars
    <3> QED
      BY <3>1, Zenon DEF MailStep, M!Next
  <2>3. CASE inbox' # inbox
    <3>1. M!Deliver(s)
      BY <1>1, <2>1, <2>3, MailFrame, Zenon DEF M!Deliver
    <3> QED
      BY <3>1, Zenon DEF MailStep, M!Next
  <2> QED
    BY <2>2, <2>3, Zenon
<1> QED
  BY <1>5, <1>6, Zenon

LEMMA NextMail == ASSUME TypeOK, MailInv, [Next]_vars PROVE MailStep
<1>1. Idle \/ HubStartFlush => MailStep
  BY MailFrame, Zenon DEF Idle, HubStartFlush
<1>2. ASSUME NEW s \in Session, Drop(s) PROVE MailStep
  BY <1>2, GiveUpMail, MailFrame, Zenon DEF Drop
<1>3. ASSUME NEW a \in Addr, Expire(a) PROVE MailStep
  <2>1. M!Age(a)
    BY <1>3, MailFrame, Zenon DEF Expire, M!Age
  <2> QED
    BY <2>1, Zenon DEF MailStep, M!Next
<1>4. ASSUME Sweep PROVE MailStep
  <2>1. M!Expunge
    BY <1>4, MailFrame, Zenon DEF Sweep, M!Expunge
  <2> QED
    BY <2>1, Zenon DEF MailStep, M!Next
<1> QED
  BY <1>1, <1>2, <1>3, <1>4, DieMail, CloseMail, NoticeMail, ReadMail,
     EnqueueMail, PassMail, FlushMail, WriteMail, Steps, Zenon
  DEF Work, HubWork, ReadWork

-----------------------------------------------------------------------------
(* A block is the blocker's                                                *)

(* A block or unblock changes the relay's records only for the pair of the *)
(* agent that asked for it and the one it named, whatever sessions, other  *)
(* requests, crashes and failed transactions come in between.              *)
THEOREM BlockIsTheBlockers == Spec => BlockerDecides
<1> DEFINE Asked(p) == \E s \in Session :
             /\ AddrOf[s] = p[1] /\ spc[s] = "route"
             /\ cur[s].kind \in {"block", "unblock"} /\ cur[s].to = p[2]
<1>1. ASSUME NEW s \in Session, RouteBlock(s),
             NEW p \in (blocked \ blocked') \cup (blocked' \ blocked)
      PROVE  Asked(p)
  <2>1. /\ spc[s] = "route" /\ cur[s].kind \in {"block", "unblock"}
        /\ \/ blocked' = blocked \cup {<<AddrOf[s], cur[s].to>>}
           \/ blocked' = blocked \ {<<AddrOf[s], cur[s].to>>}
           \/ blocked' = blocked
    BY <1>1, Zenon DEF RouteBlock
  <2>2. p = <<AddrOf[s], cur[s].to>>
    BY <1>1, <2>1, Zenon
  <2>3. AddrOf[s] = p[1] /\ cur[s].to = p[2]
    BY <2>2, Zenon
  <2> QED
    BY <2>1, <2>3, Zenon
<1>2. [Next]_vars =>
        [\A p \in (blocked \ blocked') \cup (blocked' \ blocked) : Asked(p)]_vars
  BY <1>1, BlockSteps, Zenon
<1> QED
  BY <1>2, PTL DEF Spec, BlockerDecides

-----------------------------------------------------------------------------
(* Counting a bucket                                                       *)

INSTANCE FiniteSetTheorems

FiniteQueue == \A a \in Addr : IsFiniteSet(queue[a])

LEMMA CountFacts ==
  ASSUME TypeOK, FiniteQueue PROVE CountsNat /\ BatchFirst
<1>1. CountsNat
  BY FS_CardinalityType, Zenon DEF FiniteQueue, CountsNat, Count
<1>2. ASSUME NEW a \in Addr, NEW e \in FlushBatch(a), NEW d \in Fresh(a),
             d.key < e.key
      PROVE  d \in FlushBatch(a)
  <2> DEFINE Older(x) == {c \in Fresh(a) : c.key < x.key}
  <2>1. IsFiniteSet(Fresh(a))
    BY FS_Subset, Zenon DEF FiniteQueue, Fresh
  <2>2. IsFiniteSet(Older(e)) /\ Cardinality(Older(e)) < FlushBatchSize
    BY <2>1, FS_Subset, Zenon DEF FlushBatch, Fresh
  <2>3. Older(d) \subseteq Older(e)
    <3>1. e \in Fresh(a) /\ \A c \in Fresh(a) : c.key \in Nat
      BY DEF FlushBatch, Fresh, TypeOK, StoreTypeOK, Entry
    <3> QED
      BY <1>2, <3>1
  <2> HIDE DEF Older
  <2>4. /\ Cardinality(Older(d)) <= Cardinality(Older(e))
        /\ Cardinality(Older(d)) \in Nat /\ Cardinality(Older(e)) \in Nat
    BY <2>2, <2>3, FS_Subset, FS_CardinalityType, Zenon
  <2>5. Cardinality(Older(d)) < FlushBatchSize
    BY <2>2, <2>4, RelayHubAssumption
  <2> QED
    BY <2>5, Zenon DEF FlushBatch, Fresh, Older
<1> QED
  BY <1>1, <1>2, Zenon DEF BatchFirst

LEMMA AddOne ==
  ASSUME NEW S, IsFiniteSet(S), NEW x, NEW R, R = S \cup {x}
  PROVE  /\ IsFiniteSet(R)
         /\ Cardinality(R) = Cardinality(S) \/ Cardinality(R) = Cardinality(S) + 1
BY FS_AddElement, Zenon

LEMMA ReplaceOne ==
  ASSUME NEW S, IsFiniteSet(S), NEW e \in S, NEW x, NEW R, R = (S \ {e}) \cup {x}
  PROVE  /\ IsFiniteSet(R)
         /\ Cardinality(R) = Cardinality(S) - 1 \/ Cardinality(R) = Cardinality(S)
<1> DEFINE T == S \ {e}
<1>1. IsFiniteSet(T) /\ Cardinality(T) = Cardinality(S) - 1
  BY FS_RemoveElement, Zenon
<1>2. Cardinality(S) \in Nat
  BY FS_CardinalityType, Zenon
<1>3. R = T \cup {x}
  OBVIOUS
<1> HIDE DEF T
<1>4. /\ IsFiniteSet(R)
      /\ Cardinality(R) = Cardinality(T) \/ Cardinality(R) = Cardinality(T) + 1
  BY <1>1, <1>3, AddOne, Zenon
<1> QED
  BY <1>1, <1>2, <1>4

(* A step adds at most one entry to a bucket, and none to a full one.      *)
LEMMA NextCount ==
  ASSUME TypeOK, FiniteQueue, [Next]_vars
  PROVE  FiniteQueue' /\ (QueueBounded => QueueBounded')
<1> SUFFICES ASSUME NEW a \in Addr
             PROVE  /\ IsFiniteSet(queue'[a])
                    /\ Cardinality(queue[a]) <= MaxPerAgent =>
                         Cardinality(queue'[a]) <= MaxPerAgent
  BY Zenon DEF FiniteQueue, QueueBounded, Count
<1>1. IsFiniteSet(queue[a]) /\ Cardinality(queue[a]) \in Nat
  BY FS_CardinalityType, Zenon DEF FiniteQueue
<1>2. MaxPerAgent \in Nat
  BY RelayHubAssumption, Zenon
<1>3. CASE Grows(a)
  <2>1. PICK s \in Session : \E new :
          /\ RouteEnqueue(s) /\ cur[s].to = a
          /\ queue'[a] = queue[a] \cup {new}
    BY <1>3, Zenon DEF Grows
  <2>2. ~(Cardinality(queue[a]) >= MaxPerAgent)
    BY <2>1, Zenon DEF RouteEnqueue, AtCap
  <2>3. /\ IsFiniteSet(queue'[a])
        /\ \/ Cardinality(queue'[a]) = Cardinality(queue[a])
           \/ Cardinality(queue'[a]) = Cardinality(queue[a]) + 1
    BY <1>1, <2>1, AddOne, Zenon
  <2> QED
    BY <1>1, <1>2, <2>2, <2>3
<1>4. CASE Shrinks(a)
  <2>1. /\ IsFiniteSet(queue'[a]) /\ Cardinality(queue'[a]) \in Nat
        /\ Cardinality(queue'[a]) <= Cardinality(queue[a])
    BY <1>1, <1>4, FS_Subset, FS_CardinalityType, Zenon DEF Shrinks
  <2> QED
    BY <1>1, <1>2, <2>1
<1>5. CASE Ages(a)
  <2>1. PICK e \in queue[a] : \E late :
          queue'[a] = (queue[a] \ {e}) \cup {late}
    BY <1>5, Zenon DEF Ages
  <2>2. PICK late : queue'[a] = (queue[a] \ {e}) \cup {late}
    BY <2>1, Zenon
  <2> DEFINE S == queue[a]
             R == queue'[a]
  <2>3. IsFiniteSet(S) /\ e \in S /\ R = (S \ {e}) \cup {late}
    BY <1>1, <2>1, <2>2, Zenon
  <2> HIDE DEF S, R
  <2>4. /\ IsFiniteSet(R)
        /\ Cardinality(R) = Cardinality(S) - 1 \/ Cardinality(R) = Cardinality(S)
    BY <2>3, ReplaceOne
  <2> QED
    BY <1>1, <1>2, <2>4 DEF S, R
<1> QED
  BY <1>3, <1>4, <1>5, BucketSteps, Zenon

-----------------------------------------------------------------------------
(* The theorems                                                            *)

LEMMA TypeInvariant == Spec => [](TypeOK /\ FiniteQueue)
<1>1. Init => FiniteQueue
  BY FS_EmptySet DEF Init, FiniteQueue
<1>2. TypeOK /\ FiniteQueue /\ [Next]_vars => TypeOK' /\ FiniteQueue'
  BY NextType, CountFacts, NextCount, Zenon
<1> QED
  BY <1>1, <1>2, InitType, PTL DEF Spec

(* Every variable keeps its type: in particular RouteMessage never calls a *)
(* method of a nil recipient, and the hub is registering a session         *)
(* whenever it counts, reports or starts a flush.                          *)
THEOREM TypeCorrect == Spec => []TypeOK
BY TypeInvariant, PTL

(* No agent's queue outgrows maxPerAgent, however many read pumps enqueue  *)
(* to it, however flushes, expiry and sweeps interleave with them.         *)
THEOREM QueueIsBounded == Spec => []QueueBounded
<1>1. Init => QueueBounded
  BY RelayHubAssumption, FS_EmptySet DEF Init, QueueBounded, Count
<1>2. TypeOK /\ FiniteQueue /\ QueueBounded /\ [Next]_vars => QueueBounded'
  BY NextCount, Zenon
<1> QED
  BY <1>1, <1>2, TypeInvariant, PTL DEF Spec

(* Until it stops, the hub routes to exactly the sessions it has accepted  *)
(* and not unregistered, at most one per address, and their channels are   *)
(* open: however logins, disconnects and shutdowns interleave.             *)
THEOREM TableIsExact == Spec => []TableExact
<1>1. Init => TableInv
  BY RelayHubAssumption DEF Init, TableInv, TableExact
<1>2. TypeOK /\ TableInv /\ [Next]_vars => TableInv'
  BY NextTable, Zenon
<1>3. TableInv => TableExact
  BY Zenon DEF TableInv
<1> QED
  BY <1>1, <1>2, <1>3, TypeCorrect, PTL DEF Spec

(* Once bbolt has accepted a message, no crash, panic, disconnect, failed  *)
(* transaction or concurrent flush makes it vanish: it stays in the bucket *)
(* until a flush has passed it to Client.Send or Sweep finds it expired.   *)
THEOREM QueueIsDurable == Spec => []QueueDurable
<1>1. Init => HeadHanded /\ QueueDurable
  <2> SUFFICES ASSUME Init PROVE HeadHanded /\ QueueDurable
    OBVIOUS
  <2>1. HeadHanded
    BY Zenon DEF Init, HeadHanded
  <2>2. \A a \in Addr : 1..lastKey[a] = {}
    BY DEF Init
  <2> QED
    BY <2>1, <2>2, Zenon DEF QueueDurable
<1>2. TypeOK /\ HeadHanded /\ QueueDurable /\ [Next]_vars
        => HeadHanded' /\ QueueDurable'
  BY NextHeadHanded, NextDurable, Zenon
<1> QED
  BY <1>1, <1>2, TypeCorrect, PTL DEF Spec

(* The inductive invariant of a flush: no key is given twice, a session is *)
(* flushed once, and what is to be sent is newer than what has been sent.  *)
FlushInv ==
  /\ KeysBelow /\ KeysUnique /\ HeadHanded /\ FlushedOnce /\ BatchKeys
  /\ OrderInv

LEMMA FlushInvariant == Spec => []FlushInv
<1>1. Init => FlushInv
  <2> SUFFICES ASSUME Init PROVE FlushInv
    OBVIOUS
  <2>1. /\ queue = [a \in Addr |-> {}] /\ hubpc = "select"
        /\ fpc = [s \in Session |-> "none"] /\ batch = [s \in Session |-> {}]
        /\ handed = [s \in Session |-> {}]
    BY Zenon DEF Init
  <2>2. KeysBelow /\ KeysUnique /\ HeadHanded /\ BatchKeys
    BY <2>1, Zenon DEF KeysBelow, KeysUnique, HeadHanded, BatchKeys
  <2>3. FlushedOnce /\ OrderInv
    BY <2>1, Zenon DEF FlushedOnce, Unstarted, OrderInv, Ordered
  <2> QED
    BY <2>2, <2>3, Zenon DEF FlushInv
<1>2. TypeOK /\ FiniteQueue /\ FlushInv /\ [Next]_vars => FlushInv'
  BY CountFacts, NextKeysBelow, NextKeysUnique, NextHeadHanded, NextFlushedOnce,
     NextBatchKeys, NextOrder, Zenon DEF FlushInv
<1> QED
  BY <1>1, <1>2, TypeInvariant, PTL DEF Spec

(* As long as no transaction fails, a flush sends the backlog oldest first *)
(* and nothing twice, across its batches, while messages are enqueued,     *)
(* removed, expire and are swept.                                          *)
THEOREM FlushIsAscending == Spec => []FlushAscending
<1>1. FlushInv => FlushAscending
  BY Zenon DEF FlushInv, OrderInv, Ordered, FlushAscending
<1> QED
  BY <1>1, FlushInvariant, PTL

(* As long as no transaction fails, an agent receives no message twice on  *)
(* a session, though the flush and the read pumps of other sessions write  *)
(* to its channel concurrently.                                            *)
THEOREM MessageComesOnce == Spec => []OncePerSession
<1>1. Init => CurInv /\ SameKey /\ OnceInv
  <2> SUFFICES ASSUME Init PROVE CurInv /\ SameKey /\ OnceInv
    OBVIOUS
  <2>1. /\ queue = [a \in Addr |-> {}] /\ batch = [s \in Session |-> {}]
        /\ send = [s \in Session |-> <<>>] /\ inbox = [a \in Addr |-> <<>>]
        /\ cur = [s \in Session |-> NoFrame] /\ AddrOf \in [Session -> Addr]
    BY RelayHubAssumption, Zenon DEF Init
  <2>2. /\ \A s \in Session : queue[AddrOf[s]] = {} /\ batch[s] = {}
        /\ \A s \in Session : send[s] = <<>> /\ inbox[AddrOf[s]] = <<>>
        /\ \A s \in Session : cur[s] \notin Message
        /\ \A a \in Addr : queue[a] = {} /\ inbox[a] = <<>>
    BY <2>1, Zenon DEF NoFrame, Message, Frame
  <2>3. \A m : ~Gone(m)
    BY <2>2, EmptyElems, Zenon DEF Gone, Reached, Got
  <2>4. CurInv /\ SameKey
    BY <2>2, <2>3, Zenon DEF CurInv, SameKey, Copies
  <2>5. OnceInv
    BY <2>2, EmptyElems, Zenon DEF OnceInv, Once, Copies
  <2> QED
    BY <2>4, <2>5
<1>2. /\ TypeOK /\ FlushInv /\ CurInv /\ SameKey /\ OnceInv /\ [Next]_vars
      => CurInv' /\ SameKey' /\ OnceInv'
  BY NextCur, NextSameKey, NextOnce, Zenon DEF FlushInv
<1>3. OnceInv => OncePerSession
  BY Zenon DEF OnceInv, OncePerSession, Twice, Elems
<1> QED
  BY <1>1, <1>2, <1>3, TypeCorrect, FlushInvariant, PTL DEF Spec

(* The relay implements the mailbox: whatever its goroutines, crashes and  *)
(* failed transactions do, a message goes only to its addressee, is stored *)
(* or passed on and not both, and a stored message leaves its mailbox only *)
(* after it has been offered to the addressee or has expired.              *)
THEOREM RelayImplementsMailbox == Spec => RelayIsMailbox
<1>1. Init => M!Init
  <2>1. Messages(<<>>) = {}
    BY DEF Messages
  <2> QED
    BY <2>1 DEF Init, M!Init, Taken, Buffered, NoFrame
<1>2. Init => RouteInv
  BY DEF Init, RouteInv
<1>3. TypeOK /\ RouteInv /\ [Next]_vars => RouteInv'
  BY NextRoute
<1>4. TypeOK /\ FlushInv /\ RouteInv /\ [Next]_vars => [M!Next]_(M!mailVars)
  BY NextMail, Zenon DEF MailStep, MailInv, FlushInv
<1> QED
  BY <1>1, <1>2, <1>3, <1>4, TypeCorrect, FlushInvariant, PTL
  DEF Spec, RelayIsMailbox, M!Spec

=============================================================================
