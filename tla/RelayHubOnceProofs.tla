------------------------ MODULE RelayHubOnceProofs --------------------------
(***************************************************************************)
(* How often a message can reach a session of RelayHub, for any sets of    *)
(* addresses and sessions and any bounds.                                  *)
(***************************************************************************)
EXTENDS RelayHubStepProofs

USE DEF procVars, hubVars, readVars, chanVars, flushVars, storeVars, logVars,
        histVars, vars, Live, Routing

-----------------------------------------------------------------------------
(* How often a message reaches a session                                   *)

(* What a sequence holds, and what it holds more than once.                *)
Elems(q) == {q[i] : i \in DOMAIN q}
Twice(q) == {x \in Elems(q) :
               \E i, j \in DOMAIN q : i # j /\ q[i] = x /\ q[j] = x}

LEMMA EmptyElems == Elems(<<>>) = {} /\ Twice(<<>>) = {}
BY DEF Elems, Twice

LEMMA AppendElems ==
  ASSUME NEW T, NEW q \in Seq(T), NEW x \in T
  PROVE  /\ Elems(Append(q, x)) = Elems(q) \cup {x}
         /\ \A y \in Twice(Append(q, x)) :
              y \in Twice(q) \/ (y = x /\ x \in Elems(q))
<1> DEFINE q1 == Append(q, x)
<1>1. /\ DOMAIN q = 1..Len(q) /\ Len(q) \in Nat
      /\ DOMAIN q1 = 1..(Len(q) + 1)
      /\ \A i \in 1..Len(q) : q1[i] = q[i]
      /\ q1[Len(q) + 1] = x
  OBVIOUS
<1> HIDE DEF q1
<1>2. /\ \A i \in DOMAIN q : i \in DOMAIN q1 /\ q1[i] = q[i]
      /\ Len(q) + 1 \in DOMAIN q1 /\ q1[Len(q) + 1] = x
      /\ \A i \in DOMAIN q1 : i \in DOMAIN q \/ i = Len(q) + 1
  BY <1>1
<1>3. Elems(q1) = Elems(q) \cup {x}
  BY <1>2, Zenon DEF Elems
<1>4. \A y \in Twice(q1) : y \in Twice(q) \/ (y = x /\ x \in Elems(q))
  BY <1>2, Zenon DEF Twice, Elems
<1> QED
  BY <1>3, <1>4, Zenon DEF q1

LEMMA TailElems ==
  ASSUME NEW T, NEW q \in Seq(T), q # <<>>
  PROVE  /\ Head(q) \in Elems(q) /\ Head(q) \in T
         /\ Elems(q) = Elems(Tail(q)) \cup {Head(q)}
         /\ Twice(Tail(q)) \subseteq Twice(q)
         /\ Head(q) \in Elems(Tail(q)) => Head(q) \in Twice(q)
<1> DEFINE t == Tail(q)
<1>1. /\ DOMAIN q = 1..Len(q) /\ Len(q) \in Nat \ {0}
      /\ DOMAIN t = 1..(Len(q) - 1)
      /\ \A i \in 1..(Len(q) - 1) : t[i] = q[i + 1]
      /\ Head(q) = q[1] /\ Head(q) \in T
  OBVIOUS
<1> HIDE DEF t
<1>2. /\ \A i \in DOMAIN t : i + 1 \in DOMAIN q /\ i + 1 # 1 /\ t[i] = q[i + 1]
      /\ 1 \in DOMAIN q
  BY <1>1
<1>3. \A i \in DOMAIN q : i # 1 => i - 1 \in DOMAIN t /\ t[i - 1] = q[i]
  BY <1>1
<1>4. Elems(q) = Elems(t) \cup {q[1]}
  <2>1. \A i \in DOMAIN q : q[i] \in Elems(t) \cup {q[1]}
    BY <1>2, <1>3, Zenon DEF Elems
  <2>2. Elems(t) \cup {q[1]} \subseteq Elems(q)
    BY <1>2, Zenon DEF Elems
  <2> QED
    BY <2>1, <2>2, Zenon DEF Elems
<1>5. Twice(t) \subseteq Twice(q)
  <2> SUFFICES ASSUME NEW x \in Elems(t), NEW i \in DOMAIN t, NEW j \in DOMAIN t,
                      i # j, t[i] = x, t[j] = x
               PROVE  x \in Twice(q)
    BY Zenon DEF Twice
  <2>1. i + 1 # j + 1
    BY <1>1
  <2>2. x \in Elems(q)
    BY <1>4, Zenon
  <2> QED
    BY <1>2, <2>1, <2>2, Zenon DEF Twice
<1>6. q[1] \in Elems(t) => q[1] \in Twice(q)
  <2> SUFFICES ASSUME NEW i \in DOMAIN t, t[i] = q[1] PROVE q[1] \in Twice(q)
    BY Zenon DEF Elems
  <2>1. q[1] \in Elems(q)
    BY <1>4, Zenon
  <2> QED
    BY <1>2, <2>1, Zenon DEF Twice
<1> QED
  BY <1>1, <1>4, <1>5, <1>6, Zenon DEF t

(* What reaches a session: the messages of its channel, and those its      *)
(* agent has received on it.                                               *)
Got(s, m) == [sess |-> s, msg |-> m] \in Elems(inbox[AddrOf[s]])
Reached(s, m) == m \in Elems(send[s]) \/ Got(s, m)

(* What a step may do to them: nothing is added, one message is put into   *)
(* the channel, or the write pump passes one on.                           *)
Gains(s, m) ==
  \A x \in Message :
    /\ Got(s, x)' <=> Got(s, x)
    /\ x \in Elems(send'[s]) => x \in Elems(send[s]) \/ x = m
    /\ x \in Twice(send'[s]) =>
         x \in Twice(send[s]) \/ (x = m /\ x \in Elems(send[s]))
NoGain(s) ==
  \A x \in Message :
    /\ Got(s, x)' <=> Got(s, x)
    /\ x \in Elems(send'[s]) => x \in Elems(send[s])
    /\ x \in Twice(send'[s]) => x \in Twice(send[s])
Writes(s) ==
  \E m \in Message :
    /\ m \in Elems(send[s])
    /\ m \in Elems(send'[s]) => m \in Twice(send[s])
    /\ \A x \in Message :
         /\ Got(s, x)' <=> Got(s, x) \/ x = m
         /\ x \in Elems(send'[s]) => x \in Elems(send[s])
         /\ x \in Twice(send'[s]) => x \in Twice(send[s])

LEMMA PushGains ==
  ASSUME TypeOK, NEW r \in Session, NEW x \in Item, Push(r, x),
         UNCHANGED inbox, NEW s \in Session
  PROVE  NoGain(s) \/ (r = s /\ x \in Message /\ Gains(s, x))
<1>1. \A m : Got(s, m)' <=> Got(s, m)
  BY Zenon DEF Got
<1>2. CASE send'[s] = send[s]
  BY <1>1, <1>2, Zenon DEF NoGain
<1>3. CASE r = s /\ send'[s] = Append(send[s], x)
  <2>1. send[s] \in Seq(Item)
    BY Zenon DEF TypeOK, ChanTypeOK
  <2>2. /\ Elems(send'[s]) = Elems(send[s]) \cup {x}
        /\ \A y \in Twice(send'[s]) :
             y \in Twice(send[s]) \/ (y = x /\ x \in Elems(send[s]))
    BY <1>3, <2>1, AppendElems
  <2> QED
    BY <1>1, <1>3, <2>2, Zenon DEF NoGain, Gains
<1> QED
  BY <1>2, <1>3, Zenon DEF Push, TypeOK, ChanTypeOK

LEMMA WriteLine ==
  ASSUME TypeOK, NEW r \in Session, WriteMessage(r) \/ WriteLost(r),
         NEW s \in Session
  PROVE  NoGain(s) \/ (r = s /\ Writes(s))
<1>1. /\ send[r] # <<>> /\ send' = [send EXCEPT ![r] = Tail(@)]
      /\ \/ UNCHANGED inbox
         \/ /\ Head(send[r]).kind = "msg"
            /\ inbox' = [inbox EXCEPT ![AddrOf[r]] =
                           Append(@, [sess |-> r, msg |-> Head(send[r])])]
  BY Zenon DEF WriteMessage, WriteLost
<1>2. /\ send \in [Session -> Seq(Item)] /\ inbox \in [Addr -> Seq(Receipt)]
      /\ AddrOf[r] \in Addr /\ AddrOf[s] \in Addr
  BY RelayHubAssumption, Zenon DEF TypeOK, ChanTypeOK, HistTypeOK
<1>3. /\ Head(send[r]) \in Elems(send[r]) /\ Head(send[r]) \in Item
      /\ Elems(send[r]) = Elems(Tail(send[r])) \cup {Head(send[r])}
      /\ Twice(Tail(send[r])) \subseteq Twice(send[r])
      /\ Head(send[r]) \in Elems(Tail(send[r])) => Head(send[r]) \in Twice(send[r])
  BY <1>1, <1>2, TailElems, Zenon
<1>4. /\ Elems(send'[s]) \subseteq Elems(send[s])
      /\ Twice(send'[s]) \subseteq Twice(send[s])
      /\ s = r => Elems(send'[s]) = Elems(Tail(send[s]))
  BY <1>1, <1>2, <1>3, Zenon
<1>5. CASE UNCHANGED inbox
  BY <1>4, <1>5, Zenon DEF NoGain, Got
<1>6. CASE /\ Head(send[r]).kind = "msg"
           /\ inbox' = [inbox EXCEPT ![AddrOf[r]] =
                          Append(@, [sess |-> r, msg |-> Head(send[r])])]
  <2> DEFINE h == Head(send[r])
  <2>1. h \in Message
    BY <1>3, <1>6, Zenon DEF Item, Control
  <2>2. [sess |-> r, msg |-> h] \in Receipt
    BY <2>1, Zenon DEF Receipt
  <2> HIDE DEF h
  <2>3. ASSUME AddrOf[s] = AddrOf[r]
        PROVE  Elems(inbox'[AddrOf[s]]) =
                 Elems(inbox[AddrOf[s]]) \cup {[sess |-> r, msg |-> h]}
    <3>1. inbox'[AddrOf[s]] = Append(inbox[AddrOf[s]], [sess |-> r, msg |-> h])
      BY <1>2, <1>6, <2>3, Zenon DEF h
    <3>2. inbox[AddrOf[s]] \in Seq(Receipt)
      BY <1>2, Zenon
    <3> QED
      BY <2>2, <3>1, <3>2, AppendElems
  <2>4. AddrOf[s] # AddrOf[r] => inbox'[AddrOf[s]] = inbox[AddrOf[s]]
    BY <1>2, <1>6, Zenon
  <2>5. ASSUME NEW x
        PROVE  [sess |-> s, msg |-> x] = [sess |-> r, msg |-> h]
                 <=> s = r /\ x = h
    OBVIOUS
  <2>6. CASE s = r
    <3>1. \A x : Got(s, x)' <=> Got(s, x) \/ x = h
      BY <2>3, <2>5, <2>6, Zenon DEF Got
    <3> QED
      BY <1>3, <1>4, <2>1, <2>6, <3>1, Zenon DEF Writes, h
  <2>7. CASE s # r
    <3>1. \A x : Got(s, x)' <=> Got(s, x)
      BY <2>3, <2>4, <2>5, <2>7, Zenon DEF Got
    <3> QED
      BY <1>4, <3>1, Zenon DEF NoGain
  <2> QED
    BY <2>6, <2>7, Zenon
<1> QED
  BY <1>1, <1>5, <1>6, Zenon

RouteGains(s) ==
  \E r \in Session :
    /\ cur[r] \in Message /\ Gains(s, cur[r]) /\ Return(r)
    /\ UNCHANGED <<queue, batch, handed>>
FlushGains(s) ==
  \E e \in batch[s] :
    /\ fpc[s] = "send" /\ Gains(s, e.msg)
    /\ handed'[s] = handed[s] \cup {e.key}
    /\ UNCHANGED <<queue, batch>>

LEMMA LineSteps ==
  ASSUME TypeOK, [Next]_vars, NEW s \in Session
  PROVE  NoGain(s) \/ RouteGains(s) \/ FlushGains(s) \/ Writes(s)
<1>1. CASE UNCHANGED <<send, inbox>>
  BY <1>1, Zenon DEF NoGain, Got
<1>2. CASE Dies \/ \E S \in SUBSET Session : Closes(S)
  <2>1. Dies => UNCHANGED inbox /\ send'[s] = <<>>
    <3>1. Dies => UNCHANGED inbox /\ send' = [r \in Session |-> <<>>]
      BY Zenon DEF Dies, Die
    <3> QED
      BY <3>1, Zenon
  <2>2. (\E S \in SUBSET Session : Closes(S)) =>
          UNCHANGED inbox /\ (send'[s] = <<>> \/ send'[s] = send[s])
    BY Zenon DEF Closes, CloseAll
  <2> QED
    BY <1>2, <2>1, <2>2, EmptyElems, Zenon DEF NoGain, Got
<1>3. ASSUME NEW r \in Session, Notice(r) PROVE NoGain(s)
  <2>1. PICK x \in Control : Push(r, x) /\ UNCHANGED inbox
    BY <1>3, Zenon DEF Notice
  <2>2. x \in Item /\ x \notin Message
    BY Zenon DEF Item, Control, Message, Frame
  <2> QED
    BY <2>1, <2>2, PushGains, Zenon
<1>4. ASSUME NEW r \in Session, RouteSend(r), ~closed[rcpt[r]]
      PROVE  NoGain(s) \/ RouteGains(s)
  <2>1. /\ spc[r] = "send" /\ Push(rcpt[r], cur[r]) /\ Return(r)
        /\ UNCHANGED <<inbox, queue, batch, handed>>
    BY <1>4, Zenon DEF RouteSend
  <2>2. rcpt[r] \in Session /\ cur[r] \in Message /\ cur[r] \in Item
    BY <2>1, Zenon DEF TypeOK, ReadTypeOK, Item
  <2> QED
    BY <2>1, <2>2, PushGains, Zenon DEF RouteGains
<1>5. ASSUME NEW r \in Session, FlushSend(r), ~closed[r]
      PROVE  NoGain(s) \/ FlushGains(s)
  <2>1. PICK e \in batch[r] :
          /\ fpc[r] = "send" /\ Push(r, e.msg)
          /\ handed' = [handed EXCEPT ![r] = @ \cup {e.key}]
          /\ UNCHANGED <<inbox, queue, batch>>
    BY <1>5, Zenon DEF FlushSend
  <2>2. e.msg \in Item /\ handed'[r] = handed[r] \cup {e.key}
    BY <2>1 DEF TypeOK, ChanTypeOK, HistTypeOK, Entry, Item
  <2> QED
    BY <2>1, <2>2, PushGains, Zenon DEF FlushGains
<1>6. ASSUME NEW r \in Session, WriteMessage(r) \/ WriteLost(r)
      PROVE  NoGain(s) \/ Writes(s)
  BY <1>6, WriteLine, Zenon
<1>7. Idle \/ HubStartFlush \/ Sweep \/ (\E a \in Addr : Expire(a))
        => UNCHANGED <<send, inbox>>
  BY Zenon DEF Idle, HubStartFlush, Sweep, Expire
<1>8. ASSUME NEW r \in Session,
             \/ ReadFrame(r) \/ Drop(r) \/ RouteEnqueue(r) \/ FlushCheck(r)
             \/ FlushRead(r) \/ FlushRemove(r) \/ FlushExit(r)
      PROVE  UNCHANGED <<send, inbox>>
  BY <1>8, Zenon
  DEF ReadFrame, Drop, RouteEnqueue, FlushCheck, FlushRead, FlushRemove,
      FlushExit
<1> QED
  BY <1>1, <1>2, <1>3, <1>4, <1>5, <1>6, <1>7, <1>8, Steps, Zenon
  DEF Work, HubWork, ReadWork, FlushWork

(* A message that RouteMessage has disposed of, wherever it is now.        *)
Gone(m) ==
  \/ \E s \in Session : Reached(s, m) \/ \E e \in batch[s] : e.msg = m
  \/ \E a \in Addr : \E e \in queue[a] : e.msg = m

(* RouteMessage disposes of a message once: what it is working on is       *)
(* nowhere else.                                                           *)
CurInv ==
  /\ \A m \in Message : Gone(m) => m.n <= sent[m.from]
  /\ \A s \in Session : cur[s] \in Message =>
       /\ ~Gone(cur[s]) /\ cur[s].n <= sent[cur[s].from]
       /\ \A r \in Session \ {s} : cur[r] # cur[s]

LEMMA GoneSteps ==
  ASSUME TypeOK, [Next]_vars, NEW m \in Message, Gone(m)'
  PROVE  Gone(m) \/ \E r \in Session : cur[r] = m /\ Return(r)
<1> DEFINE Was == Gone(m) \/ \E r \in Session : cur[r] = m /\ Return(r)
<1>0. AddrOf \in [Session -> Addr] /\ batch \in [Session -> SUBSET Entry]
  BY RelayHubAssumption, Zenon DEF TypeOK, ChanTypeOK
<1>1. ASSUME NEW s \in Session, Reached(s, m)' PROVE Was
  <2>1. CASE NoGain(s) \/ Writes(s)
    BY <1>1, <2>1, Zenon DEF NoGain, Writes, Reached, Gone
  <2>2. CASE RouteGains(s)
    BY <1>1, <2>2, Zenon DEF RouteGains, Gains, Reached, Gone
  <2>3. CASE FlushGains(s)
    BY <1>1, <2>3, Zenon DEF FlushGains, Gains, Reached, Gone
  <2> QED
    BY <2>1, <2>2, <2>3, LineSteps, Zenon
<1>2. ASSUME NEW s \in Session, \E e \in batch'[s] : e.msg = m PROVE Was
  <2>1. AddrOf[s] \in Addr
    BY <1>0, Zenon
  <2> QED
    BY <1>2, <2>1, BatchSteps, Zenon DEF Gone
<1>3. ASSUME NEW a \in Addr, \E e \in queue'[a] : e.msg = m PROVE Was
  <2>1. CASE Grows(a)
    BY <1>3, <2>1, Zenon DEF Grows, RouteEnqueue, Gone
  <2>2. CASE Shrinks(a) \/ Ages(a)
    BY <1>3, <2>2, Zenon DEF Shrinks, Ages, Gone
  <2> QED
    BY <2>1, <2>2, BucketSteps, Zenon
<1> QED
  BY <1>1, <1>2, <1>3, Zenon DEF Gone

(* The read pump numbers what it reads; nothing else takes up a message.   *)
LEMMA CurSteps ==
  ASSUME TypeOK, [Next]_vars
  PROVE  \/ UNCHANGED sent /\ \A s \in Session : cur'[s] \in {cur[s], NoFrame}
         \/ \E s \in Session : ReadFrame(s)
<1>0. cur \in [Session -> Frame \cup {NoFrame}]
  BY Zenon DEF TypeOK, ReadTypeOK
<1> DEFINE Some ==
      UNCHANGED sent /\ \A s \in Session : cur'[s] \in {cur[s], NoFrame}
<1>1. UNCHANGED <<cur, sent>> => Some
  OBVIOUS
<1>2. ASSUME NEW r \in Session, Return(r), UNCHANGED sent PROVE Some
  BY <1>0, <1>2, Zenon DEF Return
<1>3. Dies => Some
  <2>1. Dies => UNCHANGED sent /\ cur' = [s \in Session |-> NoFrame]
    BY Zenon DEF Dies, Die
  <2> QED
    BY <2>1, Zenon
<1> HIDE DEF Some
<1>4. ASSUME NEW r \in Session,
             \/ Notice(r) \/ Drop(r) \/ RouteEnqueue(r)
             \/ RouteSend(r) /\ ~closed[rcpt[r]]
      PROVE  UNCHANGED sent /\ (UNCHANGED cur \/ Return(r))
  BY <1>4, Zenon DEF Notice, Drop, RouteEnqueue, RouteSend
<1>5. ASSUME NEW r \in Session,
             FlushWork(r) \/ WriteMessage(r) \/ WriteLost(r)
      PROVE  UNCHANGED <<cur, sent>>
  BY <1>5, Zenon
  DEF FlushWork, FlushCheck, FlushRead, FlushRemove, FlushExit, FlushSend,
      WriteMessage, WriteLost
<1>6. Idle \/ HubWork \/ (\E a \in Addr : Expire(a)) => UNCHANGED <<cur, sent>>
  BY Zenon DEF Idle, HubWork, HubStartFlush, Closes, Sweep, Expire
<1>7. Some \/ \E r \in Session : ReadFrame(r)
  BY <1>1, <1>2, <1>3, <1>4, <1>5, <1>6, Steps, Zenon DEF Work, ReadWork
<1> QED
  BY <1>7, Zenon DEF Some

LEMMA NextCur == ASSUME TypeOK, CurInv, [Next]_vars PROVE CurInv'
<1>0. /\ cur \in [Session -> Frame \cup {NoFrame}] /\ sent \in [Addr -> Nat]
      /\ NoFrame \notin Message /\ AddrOf \in [Session -> Addr]
      /\ \A m \in Message : m.n \in Nat /\ m.from \in Addr
  BY RelayHubAssumption, Zenon DEF TypeOK, ReadTypeOK, HistTypeOK, NoFrame, Message, Frame
<1>1. CASE UNCHANGED sent /\ \A s \in Session : cur'[s] \in {cur[s], NoFrame}
  <2>1. ASSUME NEW m \in Message, Gone(m)' PROVE m.n <= sent'[m.from]
    BY <1>1, <2>1, GoneSteps, Zenon DEF CurInv
  <2>2. ASSUME NEW s \in Session, cur'[s] \in Message
        PROVE  /\ cur'[s] = cur[s] /\ cur'[s].n <= sent'[cur'[s].from]
               /\ \A r \in Session \ {s} : cur'[r] # cur'[s]
    <3>1. cur'[s] = cur[s]
      BY <1>0, <1>1, <2>2, Zenon
    <3>2. \A r \in Session \ {s} : cur'[r] # cur[s]
      BY <1>0, <1>1, <2>2, <3>1, Zenon DEF CurInv
    <3>3. cur[s].n <= sent[cur[s].from]
      BY <2>2, <3>1, Zenon DEF CurInv
    <3> QED
      BY <1>1, <3>1, <3>2, <3>3, Zenon
  <2>3. ASSUME NEW s \in Session, cur'[s] \in Message, NEW m, m = cur'[s],
               Gone(m)'
        PROVE  FALSE
    <3>1. cur[s] = m /\ ~Gone(m)
      BY <2>2, <2>3, Zenon DEF CurInv
    <3>2. PICK r \in Session : cur[r] = m /\ Return(r)
      BY <2>3, <3>1, GoneSteps, Zenon
    <3>3. r = s
      BY <2>3, <3>1, <3>2, Zenon DEF CurInv
    <3>4. cur'[s] = NoFrame
      BY <1>0, <3>2, <3>3, Zenon DEF Return
    <3> QED
      BY <1>0, <2>3, <3>4, Zenon
  <2>4. ASSUME NEW s \in Session, cur'[s] \in Message PROVE ~Gone(cur[s])'
    BY <2>3, <2>4, Zenon DEF Gone, Reached, Got
  <2> QED
    BY <2>1, <2>2, <2>4, Zenon DEF CurInv
<1>2. ASSUME NEW r \in Session, ReadFrame(r) PROVE CurInv'
  <2>1. PICK f \in Frames(AddrOf[r]) :
          /\ cur' = [cur EXCEPT ![r] = f]
          /\ sent' = [sent EXCEPT ![AddrOf[r]] = @ + 1]
          /\ UNCHANGED <<send, inbox, queue, batch>>
    BY <1>2, Zenon DEF ReadFrame
  <2>2. f.from = AddrOf[r] /\ f.n = sent[AddrOf[r]] + 1
    BY Zenon DEF Frames
  <2>3. \A m : Gone(m)' <=> Gone(m)
    BY <2>1, Zenon DEF Gone, Reached, Got
  <2>4. \A a \in Addr : sent'[a] >= sent[a] /\ sent'[a] \in Nat
    BY <1>0, <2>1
  <2>5. sent'[AddrOf[r]] = sent[AddrOf[r]] + 1
    BY <1>0, <2>1, Zenon
  <2>6. \A m \in Message : m.n <= sent[m.from] =>
          m # f /\ m.n <= sent'[m.from]
    BY <1>0, <2>2, <2>4
  <2>7. \A m \in Message : Gone(m)' => m.n <= sent'[m.from] /\ m # f
    BY <2>3, <2>6, Zenon DEF CurInv
  <2>8. \A s \in Session : cur'[s] = IF s = r THEN f ELSE cur[s]
    BY <1>0, <2>1, Zenon
  <2>9. f.n <= sent'[f.from]
    BY <1>0, <2>2, <2>5
  <2>10. \A s \in Session : cur[s] \in Message =>
           /\ ~Gone(cur[s]) /\ cur[s].n <= sent'[cur[s].from] /\ cur[s] # f
           /\ \A q \in Session \ {s} : cur[q] # cur[s]
    BY <2>6, Zenon DEF CurInv
  <2>11. ASSUME NEW s \in Session, cur'[s] \in Message, NEW m, m = cur'[s]
         PROVE  ~Gone(m)
    BY <2>3, <2>7, <2>8, <2>10, <2>11, Zenon
  <2>12. ASSUME NEW s \in Session, cur'[s] \in Message PROVE ~Gone(cur[s])'
    BY <2>3, <2>11, <2>12, Zenon DEF Gone, Reached, Got
  <2>13. ASSUME NEW s \in Session, cur'[s] \in Message
         PROVE  /\ cur'[s].n <= sent'[cur'[s].from]
                /\ \A q \in Session \ {s} : cur'[q] # cur'[s]
    BY <2>8, <2>9, <2>10, <2>13, Zenon
  <2> QED
    BY <2>7, <2>12, <2>13, Zenon DEF CurInv
<1> QED
  BY <1>1, <1>2, CurSteps, Zenon

(* The entries with which a flush of the session may meet a message: they  *)
(* all have one key.                                                       *)
Copies(s) == queue[AddrOf[s]] \cup batch[s]
SameKey ==
  \A s \in Session : \A d, e \in Copies(s) : d.msg = e.msg => d.key = e.key

LEMMA CopySteps ==
  ASSUME TypeOK, [Next]_vars, NEW s \in Session, NEW e \in Copies(s)'
  PROVE  \/ \E d \in Copies(s) : d.key = e.key /\ d.msg = e.msg
         \/ /\ e.key = lastKey[AddrOf[s]] + 1
            /\ \E r \in Session : cur[r] \in Message /\ e.msg = cur[r]
<1> DEFINE a == AddrOf[s]
<1>1. a \in Addr
  BY RelayHubAssumption, Zenon
<1>2. CASE e \in batch'[s]
  BY <1>2, BatchSteps, Zenon DEF Copies
<1>3. CASE e \in queue'[a]
  <2>1. CASE Grows(a)
    <3>1. PICK r \in Session : \E new :
            /\ RouteEnqueue(r) /\ new.key = lastKey[a] + 1 /\ new.msg = cur[r]
            /\ queue'[a] = queue[a] \cup {new}
      BY <2>1, Zenon DEF Grows
    <3>2. spc[r] = "enqueue"
      BY <3>1, Zenon DEF RouteEnqueue
    <3>3. cur[r] \in Message
      BY <3>2, Zenon DEF TypeOK, ReadTypeOK
    <3> QED
      BY <1>3, <3>1, <3>3, Zenon DEF Copies
  <2>2. CASE Shrinks(a) \/ Ages(a)
    BY <1>3, <2>2, Zenon DEF Shrinks, Ages, Copies
  <2> QED
    BY <1>1, <2>1, <2>2, BucketSteps, Zenon
<1> QED
  BY <1>2, <1>3, Zenon DEF Copies

LEMMA NextSameKey ==
  ASSUME TypeOK, CurInv, SameKey, [Next]_vars PROVE SameKey'
<1>1. ASSUME NEW s \in Session, NEW d \in Copies(s)', NEW e \in Copies(s)',
             d.msg = e.msg
      PROVE  d.key = e.key
  <2>1. \A c \in Copies(s) : Gone(c.msg)
    BY RelayHubAssumption, Zenon DEF Copies, Gone
  <2>2. \A r \in Session : cur[r] \in Message => ~Gone(cur[r])
    BY Zenon DEF CurInv
  <2>3. \A c, b \in Copies(s) : c.msg = b.msg => c.key = b.key
    BY Zenon DEF SameKey
  <2> DEFINE Old(c) == \E b \in Copies(s) : b.key = c.key /\ b.msg = c.msg
             New(c) == /\ c.key = lastKey[AddrOf[s]] + 1
                       /\ \E r \in Session : cur[r] \in Message /\ c.msg = cur[r]
  <2>4. (Old(d) \/ New(d)) /\ (Old(e) \/ New(e))
    BY CopySteps, Zenon
  <2> QED
    BY <1>1, <2>1, <2>2, <2>3, <2>4, Zenon
<1> QED
  BY <1>1, Zenon DEF SameKey, Copies

(* A message is in the channel of a session once, or was received on it,   *)
(* and then the flush has sent what it still holds of it.                  *)
Once(s) ==
  /\ \A m \in Message :
       m \notin Twice(send[s]) /\ (m \in Elems(send[s]) => ~Got(s, m))
  /\ \A e \in Copies(s) : Reached(s, e.msg) => e.key \in handed[s]

LEMMA NextOnceFor ==
  ASSUME TypeOK, CurInv, SameKey, HeadHanded, NEW s \in Session, Ordered(s),
         Once(s), [Next]_vars
  PROVE  Once(s)'
<1>0. \A e \in Copies(s) : e.msg \in Message /\ e.key \in Nat
  BY RelayHubAssumption DEF TypeOK, ChanTypeOK, StoreTypeOK, Entry, Copies
<1>1. handed[s] \subseteq handed'[s]
  BY NextHeadHanded, Zenon
<1>2. \A m \in Message :
        m \notin Twice(send[s]) /\ (m \in Elems(send[s]) => ~Got(s, m))
  BY Zenon DEF Once
<1>3. \A r \in Session : cur[r] \in Message => ~Reached(s, cur[r])
  BY Zenon DEF CurInv, Gone
<1>4. \A e \in Copies(s) : Reached(s, e.msg) => e.key \in handed[s]
  BY Zenon DEF Once
<1>5. CASE NoGain(s) \/ Writes(s)
  <2>1. \A m \in Message : Reached(s, m)' => Reached(s, m)
    BY <1>5, Zenon DEF NoGain, Writes, Reached
  <2>2. ASSUME NEW e \in Copies(s)', e.msg \in Message, Reached(s, e.msg)'
        PROVE  e.key \in handed'[s]
    BY <1>1, <1>3, <1>4, <2>1, <2>2, CopySteps, Zenon
  <2>3. \A e \in Copies(s)' : e.msg \in Message
    BY <1>0, CopySteps, Zenon
  <2>4. \A m \in Message :
          m \notin Twice(send'[s]) /\ (m \in Elems(send'[s]) => ~Got(s, m)')
    BY <1>2, <1>5, Zenon DEF NoGain, Writes
  <2> QED
    BY <2>2, <2>3, <2>4, Zenon DEF Once
<1>6. ASSUME NEW m \in Message, Gains(s, m), ~Reached(s, m),
             UNCHANGED <<queue, batch>>,
             \A e \in Copies(s) : e.msg = m => e.key \in handed'[s]
      PROVE  Once(s)'
  <2>1. \A x \in Message :
          x \notin Twice(send'[s]) /\ (x \in Elems(send'[s]) => ~Got(s, x)')
    BY <1>2, <1>6, Zenon DEF Gains, Reached
  <2>2. \A x \in Message : Reached(s, x)' => Reached(s, x) \/ x = m
    BY <1>6, Zenon DEF Gains, Reached
  <2>3. Copies(s)' = Copies(s)
    BY <1>6, Zenon DEF Copies
  <2>4. \A e \in Copies(s) : Reached(s, e.msg)' => e.key \in handed'[s]
    BY <1>0, <1>1, <1>4, <1>6, <2>2, Zenon
  <2> QED
    BY <2>1, <2>3, <2>4, Zenon DEF Once
<1>7. CASE RouteGains(s)
  <2>1. PICK r \in Session : /\ cur[r] \in Message /\ Gains(s, cur[r])
                             /\ UNCHANGED <<queue, batch>>
    BY <1>7, Zenon DEF RouteGains
  <2>2. \A e \in Copies(s) : e.msg # cur[r]
    BY <2>1, RelayHubAssumption, Zenon DEF CurInv, Gone, Copies
  <2> QED
    BY <1>3, <1>6, <2>1, <2>2, Zenon
<1>8. CASE FlushGains(s)
  <2>1. PICK e \in batch[s] :
          /\ fpc[s] = "send" /\ Gains(s, e.msg)
          /\ handed'[s] = handed[s] \cup {e.key}
          /\ UNCHANGED <<queue, batch>>
    BY <1>8, Zenon DEF FlushGains
  <2>2. e \in Copies(s)
    BY Zenon DEF Copies
  <2>3. e.key \notin handed[s]
    BY <1>0, <2>1, <2>2 DEF Ordered
  <2>4. \A d \in Copies(s) : d.msg = e.msg => d.key \in handed'[s]
    BY <2>1, <2>2, Zenon DEF SameKey
  <2> QED
    BY <1>0, <1>4, <1>6, <2>1, <2>2, <2>3, <2>4, Zenon
<1> QED
  BY <1>5, <1>7, <1>8, LineSteps, Zenon

OnceInv ==
  faults = 0 => /\ \A s \in Session : Once(s)
                /\ \A a \in Addr : Twice(inbox[a]) = {}

LEMMA NextOnce ==
  ASSUME TypeOK, CurInv, SameKey, HeadHanded, OrderInv, OnceInv, [Next]_vars
  PROVE  OnceInv'
<1> SUFFICES ASSUME faults' = 0
             PROVE  /\ \A s \in Session : Once(s)'
                    /\ \A a \in Addr : Twice(inbox'[a]) = {}
  BY Zenon DEF OnceInv
<1>1. faults = 0
  BY NoFault, Zenon
<1>2. \A s \in Session : Once(s)'
  BY <1>1, NextOnceFor, Zenon DEF OrderInv, OnceInv
<1>3. ASSUME NEW a \in Addr PROVE Twice(inbox'[a]) = {}
  <2>1. UNCHANGED inbox \/ \E s \in Session : WriteMessage(s)
    <3>1. /\ Idle \/ Dies \/ HubStartFlush \/ Sweep => UNCHANGED inbox
          /\ (\E S \in SUBSET Session : Closes(S)) => UNCHANGED inbox
          /\ (\E b \in Addr : Expire(b)) => UNCHANGED inbox
      BY Zenon DEF Idle, Dies, Die, HubStartFlush, Sweep, Closes, Expire
    <3>2. ASSUME NEW s \in Session, ReadWork(s) \/ FlushWork(s) \/ WriteLost(s)
          PROVE  UNCHANGED inbox
      BY <3>2, Zenon
      DEF ReadWork, ReadFrame, Notice, Drop, RouteEnqueue, RouteSend, FlushWork,
          FlushCheck, FlushRead, FlushRemove, FlushExit, FlushSend, WriteLost
    <3> QED
      BY <3>1, <3>2, Steps, Zenon DEF Work, HubWork
  <2>2. CASE inbox'[a] = inbox[a]
    BY <1>1, <2>2, Zenon DEF OnceInv
  <2>3. ASSUME NEW s \in Session, WriteMessage(s), inbox'[a] # inbox[a]
        PROVE  Twice(inbox'[a]) = {}
    <3>0. /\ inbox \in [Addr -> Seq(Receipt)] /\ send[s] \in Seq(Item)
          /\ AddrOf[s] \in Addr
      BY RelayHubAssumption, Zenon DEF TypeOK, HistTypeOK, ChanTypeOK
    <3>1. /\ Head(send[s]).kind = "msg" /\ send[s] # <<>>
          /\ inbox' = [inbox EXCEPT ![AddrOf[s]] =
                         Append(@, [sess |-> s, msg |-> Head(send[s])])]
      BY <2>3, Zenon DEF WriteMessage
    <3> DEFINE h == Head(send[s])
    <3>2. h \in Elems(send[s]) /\ h \in Item
      BY <3>0, <3>1, TailElems, Zenon
    <3>3. h \in Message
      BY <3>1, <3>2, Zenon DEF Item, Control
    <3>4. [sess |-> s, msg |-> h] \in Receipt
      BY <3>3, Zenon DEF Receipt
    <3> HIDE DEF h
    <3>5. /\ a = AddrOf[s]
          /\ inbox'[a] = Append(inbox[a], [sess |-> s, msg |-> h])
      BY <2>3, <3>0, <3>1, Zenon DEF h
    <3>6. [sess |-> s, msg |-> h] \notin Elems(inbox[a])
      BY <1>1, <3>2, <3>3, <3>5, Zenon DEF OnceInv, Once, Got
    <3>7. inbox[a] \in Seq(Receipt)
      BY <3>0, Zenon
    <3>8. \A y \in Twice(inbox'[a]) : y \in Twice(inbox[a])
      BY <3>4, <3>5, <3>6, <3>7, AppendElems
    <3> QED
      BY <1>1, <3>8, Zenon DEF OnceInv
  <2> QED
    BY <2>1, <2>2, <2>3, Zenon
<1> QED
  BY <1>2, <1>3, Zenon

=============================================================================
