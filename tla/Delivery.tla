------------------------------ MODULE Delivery ------------------------------
(***************************************************************************)
(* A message from one agent's database to the other's and its confirmation *)
(* back: MessageManager and MessageStore of two agents whose processes     *)
(* come and go, and the relay between them as those processes see it (a    *)
(* session that is announced its backlog, flushes it, and mixes in live    *)
(* traffic; RelayHub has the relay's own interleavings).                   *)
(*                                                                         *)
(* Databases and the relay's queue are durable. A process holds handlers   *)
(* that wait (for the enforcement pipeline, for a signature) and loses     *)
(* them when it ends; a session that ends loses the frames it was sent.    *)
(***************************************************************************)
EXTENDS Integers, Sequences, Functions

CONSTANTS
  Agent,      \* the two ends
  Msg,        \* messages
  From(_),    \* sender of a message
  To(_),      \* its recipient
  Reader,     \* the agents that run pinch-history, the caller of waitForFlush
  MaxEnds,    \* bound: processes that end with their session open
  MaxFaults   \* bound: links cut, envelopes dropped or expired, failed Removes

ASSUME DeliveryAssumption ==
  /\ \A m \in Msg : From(m) \in Agent /\ To(m) \in Agent /\ From(m) # To(m)
  /\ Reader \subseteq Agent
  /\ MaxEnds \in Nat /\ MaxFaults \in Nat

VARIABLES
  up,        \* the agent runs a process that has logged in
  conn,      \* and its session is still open
  rows,      \* messages table: the state of the message's row, or "none"
  seq,       \* sequence column of the outbound rows, 0 without a row
  nextSeq,   \* sequences table, per sender
  handling,  \* inbound messages stored and not yet confirmed
  verifying, \* confirmations whose signature is being verified
  remaining, \* _flushRemaining
  seen,      \* _queueStatusReceived
  waiter,    \* the process's waitForFlush() call
  out,       \* envelopes the relay has read from the agent, or will
  queue,     \* the relay's queue for the agent
  wire,      \* frames the relay has sent to the agent's session
  announced, \* history: what the session's QueueStatus counted
  overtaken, \* history: a frame the count did not include was sent in the flush
  lost,      \* history: messages some envelope or handler of which was lost
  ends, faults

procVars  == <<up, conn, handling, verifying>>
dbVars    == <<rows, seq, nextSeq>>
flushVars == <<remaining, seen, waiter>>
relayVars == <<out, queue, wire>>
pastVars  == <<announced, overtaken, lost>>
vars == <<procVars, dbVars, flushVars, relayVars, pastVars, ends, faults>>

-----------------------------------------------------------------------------
Envelope == [type : {"message", "confirm"}, msg : Msg]
Status(n) == [type |-> "status", count |-> n]
Notice == [type |-> "notice"]
Dest(e) == IF e.type = "message" THEN To(e.msg) ELSE From(e.msg)
About(s) == {e.msg : e \in {f \in Range(s) : f.type \in {"message", "confirm"}}}

Init ==
  /\ up = [x \in Agent |-> FALSE] /\ conn = [x \in Agent |-> FALSE]
  /\ rows = [x \in Agent |-> [m \in Msg |-> "none"]]
  /\ seq = [m \in Msg |-> 0] /\ nextSeq = [x \in Agent |-> 1]
  /\ handling = [x \in Agent |-> {}] /\ verifying = [x \in Agent |-> {}]
  /\ remaining = [x \in Agent |-> -1] /\ seen = [x \in Agent |-> FALSE]
  /\ waiter = [x \in Agent |-> "idle"]
  /\ out = [x \in Agent |-> <<>>] /\ queue = [x \in Agent |-> <<>>]
  /\ wire = [x \in Agent |-> <<>>]
  /\ announced = [x \in Agent |-> {}] /\ overtaken = [x \in Agent |-> FALSE]
  /\ lost = {}
  /\ ends = 0 /\ faults = 0

Fault == faults < MaxFaults /\ faults' = faults + 1

-----------------------------------------------------------------------------
(* Processes                                                               *)

(* bootstrap(): a new process logs in; the relay announces the backlog, if *)
(* there is one, before it flushes it.                                     *)
Boot(x) ==
  /\ ~up[x]
  /\ up' = [up EXCEPT ![x] = TRUE] /\ conn' = [conn EXCEPT ![x] = TRUE]
  /\ wire' = [wire EXCEPT ![x] = IF queue[x] = <<>> THEN <<>>
                                 ELSE <<Status(Len(queue[x]))>>]
  /\ announced' = [announced EXCEPT ![x] = Range(queue[x])]
  /\ UNCHANGED <<handling, verifying, dbVars, flushVars, out, queue, overtaken,
                 lost, ends, faults>>

(* The process ends: shutdown(), an unhandled rejection or a kill. Its     *)
(* handlers and the frames of its session go with it.                      *)
Gone(x) ==
  /\ up' = [up EXCEPT ![x] = FALSE] /\ conn' = [conn EXCEPT ![x] = FALSE]
  /\ handling' = [handling EXCEPT ![x] = {}]
  /\ verifying' = [verifying EXCEPT ![x] = {}]
  /\ lost' = lost \cup handling[x] \cup verifying[x] \cup About(wire[x])
  /\ wire' = [wire EXCEPT ![x] = <<>>]
  /\ remaining' = [remaining EXCEPT ![x] = -1]
  /\ seen' = [seen EXCEPT ![x] = FALSE]
  /\ waiter' = [waiter EXCEPT ![x] = "idle"]
  /\ announced' = [announced EXCEPT ![x] = {}]
  /\ overtaken' = [overtaken EXCEPT ![x] = FALSE]
  /\ UNCHANGED <<dbVars, out, queue>>

Exit(x) ==
  /\ up[x] /\ (conn[x] => ends < MaxEnds)
  /\ ends' = IF conn[x] THEN ends + 1 ELSE ends
  /\ Gone(x)
  /\ UNCHANGED faults

(* The session breaks; the process goes on, as it does not reconnect.      *)
CutLink(x) ==
  /\ conn[x] /\ Fault
  /\ conn' = [conn EXCEPT ![x] = FALSE]
  /\ lost' = lost \cup About(wire[x])
  /\ wire' = [wire EXCEPT ![x] = <<>>]
  /\ UNCHANGED <<up, handling, verifying, dbVars, flushVars, out, queue,
                 announced, overtaken, ends>>

-----------------------------------------------------------------------------
(* MessageManager: sending                                                 *)

NextSequenceBug(x, m) ==
  /\ seq' = [seq EXCEPT ![m] = nextSeq[x]]
  /\ nextSeq' = [nextSeq EXCEPT ![x] = IF conn[x] THEN @ + 1 ELSE @]

(* MessageStore.nextSequence: one transaction, never undone.               *)
NextSequence(x, m) ==
  /\ seq' = [seq EXCEPT ![m] = nextSeq[x]]
  /\ nextSeq' = [nextSeq EXCEPT ![x] = @ + 1]

(* MessageStore.saveMessage: the id is the primary key.                    *)
SaveMessage(x, m, state) ==
  rows[x][m] = "none" /\ rows' = [rows EXCEPT ![x][m] = state]

(* sendMessage(): the number is taken and the row is stored as sent before *)
(* sendEnvelope(), which throws when the session is gone.                  *)
SendMessage(x, m) ==
  /\ up[x] /\ From(m) = x
  /\ NextSequence(x, m)
  /\ SaveMessage(x, m, "sent")
  /\ IF conn[x]
     THEN /\ out' = [out EXCEPT ![x] = Append(@, [type |-> "message", msg |-> m])]
          /\ UNCHANGED lost
     ELSE lost' = lost \cup {m} /\ UNCHANGED out
  /\ UNCHANGED <<procVars, flushVars, queue, wire, announced,
                 overtaken, ends, faults>>

(* handleDeliveryConfirmation(), after the signature was verified.         *)
ConfirmDelivery(x, m) ==
  /\ m \in verifying[x]
  /\ verifying' = [verifying EXCEPT ![x] = @ \ {m}]
  /\ rows' = [rows EXCEPT ![x][m] = "delivered"]
  /\ UNCHANGED <<up, conn, handling, seq, nextSeq, flushVars, relayVars,
                 pastVars, ends, faults>>

-----------------------------------------------------------------------------
(* MessageManager: receiving                                               *)

CountFlushBug(x, e) ==
  LET now == IF e.type = "status" THEN e.count ELSE remaining[x]
      n   == IF now > 0 THEN now - 1 ELSE now
  IN  /\ remaining' = [remaining EXCEPT ![x] = n]
      /\ seen' = [seen EXCEPT ![x] = @ \/ e.type = "status"]
      /\ waiter' = [waiter EXCEPT ![x] =
                      IF @ = "waiting" /\ n = 0 THEN "resolved" ELSE @]

(* The envelope handler counts every envelope against the announced        *)
(* backlog before it dispatches it, the relay's own notices included.      *)
CountFlush(x, e) ==
  LET n == IF remaining[x] > 0 THEN remaining[x] - 1 ELSE remaining[x]
  IN  /\ remaining' = [remaining EXCEPT
                         ![x] = IF e.type = "status" THEN e.count ELSE n]
      /\ seen' = [seen EXCEPT ![x] = @ \/ e.type = "status"]
      /\ waiter' = [waiter EXCEPT ![x] =
                      IF @ = "waiting" /\ n = 0 THEN "resolved" ELSE @]

ReceiveBug(x) ==
  /\ conn[x] /\ wire[x] # <<>>
  /\ LET e == Head(wire[x])
     IN  /\ handling' = [handling EXCEPT ![x] =
              IF e.type = "message" THEN @ \cup {e.msg} ELSE @]
         /\ verifying' = [verifying EXCEPT ![x] =
              IF e.type = "confirm" THEN @ \cup {e.msg} ELSE @]
  /\ wire' = [wire EXCEPT ![x] = Tail(@)]
  /\ UNCHANGED <<up, conn, dbVars, flushVars, out, queue, pastVars, ends, faults>>

(* A frame of the session is handled: QueueStatus sets the counter, a      *)
(* message is stored and goes to the pipeline, a confirmation of a known   *)
(* message goes to its signature check.                                    *)
Receive(x) ==
  /\ conn[x] /\ wire[x] # <<>>
  /\ LET e == Head(wire[x])
     IN  /\ CountFlush(x, e)
         /\ IF e.type = "message" THEN SaveMessage(x, e.msg, "delivered")
            ELSE UNCHANGED rows
         /\ handling' = [handling EXCEPT ![x] =
              IF e.type = "message" THEN @ \cup {e.msg} ELSE @]
         /\ verifying' = [verifying EXCEPT ![x] =
              IF e.type = "confirm" THEN @ \cup {e.msg} ELSE @]
  /\ wire' = [wire EXCEPT ![x] = Tail(@)]
  /\ UNCHANGED <<up, conn, seq, nextSeq, out, queue, pastVars, ends,
                 faults>>

(* A message that is in the table already: saveMessage() throws on its     *)
(* primary key, nobody catches it, and Node ends the process.              *)
ReceiveAgain(x) ==
  /\ conn[x] /\ wire[x] # <<>>
  /\ Head(wire[x]).type = "message" /\ rows[x][Head(wire[x]).msg] # "none"
  /\ Gone(x)
  /\ UNCHANGED <<ends, faults>>

(* sendDeliveryConfirmation(), when the pipeline is through: without a     *)
(* session it throws, and the process ends.                                *)
SendConfirmation(x, m) ==
  /\ m \in handling[x] /\ conn[x]
  /\ handling' = [handling EXCEPT ![x] = @ \ {m}]
  /\ out' = [out EXCEPT ![x] = Append(@, [type |-> "confirm", msg |-> m])]
  /\ UNCHANGED <<up, conn, verifying, dbVars, flushVars, queue, wire,
                 pastVars, ends, faults>>

ConfirmationFails(x) ==
  /\ handling[x] # {} /\ ~conn[x]
  /\ Gone(x)
  /\ UNCHANGED <<ends, faults>>

-----------------------------------------------------------------------------
(* waitForFlush()                                                          *)

(* What the call does once a QueueStatus came or the grace period passed.  *)
Await(x) ==
  waiter' = [waiter EXCEPT
               ![x] = IF remaining[x] <= 0 THEN "returned" ELSE "waiting"]

WaitForFlush(x) ==
  /\ x \in Reader /\ up[x] /\ waiter[x] = "idle"
  /\ IF seen[x] THEN Await(x) ELSE waiter' = [waiter EXCEPT ![x] = "grace"]
  /\ UNCHANGED <<procVars, dbVars, remaining, seen, relayVars, pastVars, ends,
                 faults>>

GraceOver(x) ==
  /\ waiter[x] = "grace"
  /\ Await(x)
  /\ UNCHANGED <<procVars, dbVars, remaining, seen, relayVars, pastVars, ends,
                 faults>>

FlushTimeoutBug(x) ==
  /\ waiter[x] = "waiting" /\ remaining[x] = 0
  /\ waiter' = [waiter EXCEPT ![x] = "timedout"]
  /\ remaining' = [remaining EXCEPT ![x] = 0]
  /\ UNCHANGED <<procVars, dbVars, seen, relayVars, pastVars, ends, faults>>

FlushTimeout(x) ==
  /\ waiter[x] = "waiting"
  /\ waiter' = [waiter EXCEPT ![x] = "timedout"]
  /\ remaining' = [remaining EXCEPT ![x] = 0]
  /\ UNCHANGED <<procVars, dbVars, seen, relayVars, pastVars, ends, faults>>

-----------------------------------------------------------------------------
(* The relay                                                               *)

RouteBug(x) ==
  /\ out[x] # <<>>
  /\ LET e == Head(out[x])
     IN  wire' = IF conn[Dest(e)]
                 THEN [wire EXCEPT ![Dest(e)] = Append(@, e)] ELSE wire
  /\ out' = [out EXCEPT ![x] = Tail(@)]
  /\ UNCHANGED <<procVars, dbVars, flushVars, queue, announced, overtaken, lost,
                 ends, faults>>

(* An envelope goes to its recipient's session, or to the queue when there *)
(* is none; while a flush is under way it may do either.                   *)
Route(x) ==
  /\ out[x] # <<>>
  /\ LET e == Head(out[x])
         y == Dest(e)
         backlog == queue[y] # <<>>
     IN  \/ /\ conn[y]
            /\ wire' = [wire EXCEPT ![y] = Append(@, e)]
            /\ overtaken' = [overtaken EXCEPT ![y] = @ \/ backlog]
            /\ UNCHANGED queue
         \/ /\ ~conn[y] \/ backlog
            /\ queue' = [queue EXCEPT ![y] = Append(@, e)]
            /\ UNCHANGED <<wire, overtaken>>
  /\ out' = [out EXCEPT ![x] = Tail(@)]
  /\ UNCHANGED <<procVars, dbVars, flushVars, announced, lost, ends,
                 faults>>

(* The envelope is dropped: a full buffer, or the rate limit or a full     *)
(* queue, of which the sender is told; it only logs the notice.            *)
RouteDrops(x) ==
  /\ out[x] # <<>> /\ Fault
  /\ lost' = lost \cup {Head(out[x]).msg}
  /\ out' = [out EXCEPT ![x] = Tail(@)]
  /\ \/ UNCHANGED <<wire, overtaken>>
     \/ /\ conn[x]
        /\ wire' = [wire EXCEPT ![x] = Append(@, Notice)]
        /\ overtaken' = [overtaken EXCEPT ![x] = @ \/ queue[x] # <<>>]
  /\ UNCHANGED <<procVars, dbVars, flushVars, queue, announced, ends>>

FlushBug(x) ==
  /\ conn[x] /\ Len(queue[x]) > 1
  /\ wire' = [wire EXCEPT ![x] = Append(@, Head(queue[x]))]
  /\ queue' = [queue EXCEPT ![x] = Tail(@)]
  /\ UNCHANGED <<procVars, dbVars, flushVars, out, pastVars, ends, faults>>

(* The flush hands the head of the queue to the session and removes it; a  *)
(* Remove that fails is only logged, and the entry is sent once more,      *)
(* ahead of what follows it.                                               *)
Flush(x) ==
  /\ conn[x] /\ queue[x] # <<>>
  /\ wire' = [wire EXCEPT ![x] = Append(@, Head(queue[x]))]
  /\ \/ /\ queue' = [queue EXCEPT ![x] = Tail(@)]
        /\ UNCHANGED <<overtaken, faults>>
     \/ /\ Fault /\ UNCHANGED queue
        /\ overtaken' = [overtaken EXCEPT ![x] = @ \/ Len(queue[x]) > 1]
  /\ UNCHANGED <<procVars, dbVars, flushVars, out, announced, lost, ends>>

(* The head of the queue expires: a flush skips it, though the count the   *)
(* session was announced includes it.                                      *)
Expire(x) ==
  /\ queue[x] # <<>> /\ Fault
  /\ lost' = lost \cup {Head(queue[x]).msg}
  /\ queue' = [queue EXCEPT ![x] = Tail(@)]
  /\ UNCHANGED <<procVars, dbVars, flushVars, out, wire, announced, overtaken,
                 ends>>

-----------------------------------------------------------------------------
Step(x) ==
  \/ Receive(x) \/ ReceiveAgain(x)
  \/ \E m \in Msg : ConfirmDelivery(x, m) \/ SendConfirmation(x, m)
  \/ ConfirmationFails(x) \/ GraceOver(x) \/ FlushTimeout(x)
  \/ Route(x) \/ Flush(x)

Next ==
  \E x \in Agent :
    \/ Boot(x) \/ Exit(x) \/ CutLink(x) \/ Step(x) \/ WaitForFlush(x)
    \/ RouteDrops(x) \/ Expire(x)
    \/ \E m \in Msg : SendMessage(x, m)

Spec == Init /\ [][Next]_vars

(* Handlers run, timers fire, the relay routes and flushes, a tool that    *)
(* has lost its session ends and the agent starts the next one sooner or   *)
(* later; nobody has to send, and no tool has to end while it is connected.*)
FairSpec ==
  /\ Spec
  /\ \A x \in Agent : WF_vars(Step(x)) /\ WF_vars(Boot(x) \/ (~conn[x] /\ Exit(x)))

-----------------------------------------------------------------------------
(* Properties                                                              *)

(* pinch-status tells the truth: a message is "delivered" at its sender    *)
(* only if it is in the recipient's database, whatever was lost, repeated  *)
(* or overtaken on the way and whichever processes ended.                  *)
DeliveredIsStored ==
  \A m \in Msg : rows[From(m)][m] = "delivered" => rows[To(m)][m] # "none"

(* Messages to one peer carry different sequence numbers, also across      *)
(* restarts and sends that failed half way.                                *)
SequenceUnique ==
  \A m, n \in Msg :
    m # n /\ From(m) = From(n) /\ seq[m] # 0 => seq[m] # seq[n]

(* Nothing vanishes without one of the losses the code accepts: a message  *)
(* recorded as sent and not yet confirmed is on its way, is being handled, *)
(* or its confirmation is, unless a process or a session ended with it, the*)
(* relay dropped it, or sendEnvelope() threw after the row was stored.     *)
OnItsWay(m) ==
  \E x \in Agent :
    \/ m \in handling[x] \cup verifying[x]
    \/ m \in About(out[x]) \cup About(queue[x]) \cup About(wire[x])
NothingVanishes ==
  \A m \in Msg : rows[From(m)][m] = "sent" => m \in lost \/ OnItsWay(m)

(* When waitForFlush() resolves, the backlog the relay announced is in the *)
(* database, save what expired, provided nothing else reached the session  *)
(* during the flush: live envelopes, notices of the relay and an entry     *)
(* that is sent twice count as well, and the call then resolves too early. *)
FlushedIsStored ==
  \A x \in Agent : waiter[x] = "resolved" /\ ~overtaken[x] =>
    \A e \in announced[x] :
      e.type = "message" => e.msg \in lost \/ rows[x][e.msg] # "none"

(* A message that was sent is confirmed in the end, or was lost in one of  *)
(* the ways NothingVanishes names.                                         *)
ConfirmedOrLost ==
  \A m \in Msg :
    rows[From(m)][m] = "sent" ~> rows[From(m)][m] = "delivered" \/ m \in lost

(* waitForFlush() always returns, also when the session breaks or part of  *)
(* the announced backlog never comes.                                      *)
FlushWaitEnds ==
  \A x \in Agent : waiter[x] \in {"grace", "waiting"} ~>
                   waiter[x] \notin {"grace", "waiting"}
=============================================================================
