------------------------------ MODULE RelayHub ------------------------------
(***************************************************************************)
(* The relay process pinchd: the hub goroutine and its routing table, the  *)
(* goroutines of every WebSocket session (handler, read pump, write pump,  *)
(* flush), and the durable stores they share (message queue, block list).  *)
(*                                                                         *)
(* One step of the model is one access to state that another goroutine     *)
(* can see: one critical section of Hub.mu, one channel operation, one     *)
(* bbolt transaction, or one atomic load or store.                         *)
(***************************************************************************)
EXTENDS Naturals, FiniteSets, Sequences

CONSTANTS
  Addr,            \* pinch: addresses
  Session,         \* Client objects, one per accepted WebSocket
  NoSession,       \* "not in the routing table"
  AddrOf,          \* Client.address of each session
  SendBufferSize,  \* capacity of Client.send
  FlushBatchSize,  \* entries per FlushBatch
  MaxPerAgent,     \* MessageQueue.maxPerAgent
  RateLimiting,    \* rateLimiter # nil
  Burst,           \* size of a token bucket
  Traffic,         \* <<from, to>> pairs that exchange frames
  FrameKinds,      \* kinds of frames they exchange
  BlockPairs,      \* <<blocker, blocked>> pairs that are ever blocked
  Unstable,        \* sessions whose connection may break
  Expiry,          \* queue entries may outlive the TTL
  MaxSent,         \* bound: frames an address submits
  MaxCrash,        \* bound: kills and shutdowns of the process
  MaxFaults        \* bound: bbolt transactions that fail

ASSUME RelayHubAssumption ==
  /\ NoSession \notin Session
  /\ AddrOf \in [Session -> Addr]
  /\ SendBufferSize \in Nat \ {0}
  /\ FlushBatchSize \in Nat \ {0}
  /\ MaxPerAgent \in Nat \ {0}
  /\ Burst \in Nat \ {0}
  /\ MaxSent \in Nat
  /\ MaxCrash \in Nat
  /\ RateLimiting \in BOOLEAN
  /\ Expiry \in BOOLEAN
  /\ MaxFaults \in Nat
  /\ Traffic \subseteq Addr \X Addr
  /\ BlockPairs \subseteq Addr \X Addr
  /\ FrameKinds \subseteq {"msg", "junk"}
  /\ Unstable \subseteq Session

VARIABLES
  \* the process
  up,          \* pinchd is running
  panicked,    \* the goroutine whose panic ended the process, or "no"
  stopping,    \* the server context is cancelled (SIGINT, SIGTERM)
  crashes,     \* kills and shutdowns so far
  \* the hub goroutine
  clients,     \* Hub.clients
  hubpc,       \* where Hub.Run is
  hubsess,     \* the client being registered
  hubcount,    \* local variable count of the register case
  \* the sessions
  spc,         \* where the handler goroutine, then the read pump, is
  conn,        \* the WebSocket is alive
  cur,         \* the message RouteMessage is working on
  rcpt,        \* local variable recipient of RouteMessage
  send,        \* Client.send, the buffered channel
  closed,      \* Client.send has been closed (and Client.ctx cancelled)
  flushing,    \* Client.flushing
  writer,      \* the write pump: not started, running, returned
  fpc,         \* where flushQueuedMessages is
  batch,       \* entries of the current batch still to be handled
  tokens,      \* token bucket of each address
  \* the bbolt file
  queue,       \* the bucket of each recipient: a set of entries
  lastKey,     \* the sequence of each bucket
  blocked,     \* <<blocker, blocked>> records
  \* history
  sent,        \* frames read from each address
  inbox,       \* messages each agent received, with the session they came on
  handed,      \* keys the flush of each session passed to Client.Send
  swept,       \* keys of each bucket deleted by Sweep
  faults       \* transactions that failed so far

procVars == <<up, panicked, stopping, crashes>>
hubVars  == <<clients, hubpc, hubsess, hubcount>>
readVars == <<spc, cur, rcpt>>
chanVars == <<send, closed>>
flushVars == <<flushing, fpc, batch>>
storeVars == <<queue, lastKey, blocked>>
logVars == <<sent, inbox, handed, swept>>
histVars == <<logVars, faults>>
vars == <<procVars, hubVars, readVars, chanVars, flushVars, conn, writer,
          tokens, storeVars, histVars>>

-----------------------------------------------------------------------------
(* Data. An envelope is known by its sender, its addressee and its number  *)
(* among the frames of that sender; "junk" stands for the frames that are  *)
(* oversized, not an Envelope, or without an addressee.                    *)

Frame == [kind : {"msg", "block", "unblock", "junk"},
          from : Addr, to : Addr, n : Nat]
Message == {f \in Frame : f.kind = "msg"}
NoFrame == [kind |-> "none"]
Control == [kind : {"queue_status"}, pending : Nat]
             \cup [kind : {"queue_full"}, to : Addr]
             \cup [kind : {"rate_limited"}]
Item == Message \cup Control
Entry == [key : Nat, msg : Message, expired : BOOLEAN]
Receipt == [sess : Session, msg : Message]

QueueStatus(n) == [kind |-> "queue_status", pending |-> n]
QueueFull(a)   == [kind |-> "queue_full", to |-> a]
RateLimited    == [kind |-> "rate_limited"]

(* RouteMessage is between two of its steps.                               *)
Routing == {"route", "lookup", "isflushing", "enqueue", "send"}
(* The hub has accepted the session and has not unregistered it.           *)
Live == {"accepted", "running", "unregistering"} \cup Routing

Keys(a) == {e.key : e \in queue[a]}

(* Definitions whose name ends in Bug are wrong versions of the definition *)
(* that follows them, each a mistake the code could contain. No behaviour  *)
(* uses them; each violates a property stated below.                       *)

Init ==
  /\ up = TRUE /\ panicked = "no" /\ stopping = FALSE /\ crashes = 0
  /\ clients = [a \in Addr |-> NoSession]
  /\ hubpc = "select" /\ hubsess = NoSession /\ hubcount = 0
  /\ spc = [s \in Session |-> "idle"]
  /\ conn = [s \in Session |-> FALSE]
  /\ cur = [s \in Session |-> NoFrame]
  /\ rcpt = [s \in Session |-> NoSession]
  /\ send = [s \in Session |-> <<>>]
  /\ closed = [s \in Session |-> FALSE]
  /\ flushing = [s \in Session |-> FALSE]
  /\ writer = [s \in Session |-> "off"]
  /\ fpc = [s \in Session |-> "none"]
  /\ batch = [s \in Session |-> {}]
  /\ tokens = [a \in Addr |-> Burst]
  /\ queue = [a \in Addr |-> {}]
  /\ lastKey = [a \in Addr |-> 0]
  /\ blocked = {}
  /\ sent = [a \in Addr |-> 0]
  /\ inbox = [a \in Addr |-> <<>>]
  /\ handed = [s \in Session |-> {}]
  /\ swept = [a \in Addr |-> {}]
  /\ faults = 0

-----------------------------------------------------------------------------
(* The process ends: everything in memory goes, the bbolt file stays.      *)
(* Sessions are not reused, so one that was open is closed for good.       *)

Die(who) ==
  /\ up' = FALSE /\ panicked' = who /\ stopping' = FALSE
  /\ clients' = [a \in Addr |-> NoSession]
  /\ hubpc' = "select" /\ hubsess' = NoSession /\ hubcount' = 0
  /\ spc' = [s \in Session |-> IF spc[s] = "idle" THEN "idle" ELSE "closed"]
  /\ conn' = [s \in Session |-> FALSE]
  /\ cur' = [s \in Session |-> NoFrame]
  /\ rcpt' = [s \in Session |-> NoSession]
  /\ send' = [s \in Session |-> <<>>]
  /\ closed' = [s \in Session |-> spc[s] # "idle"]
  /\ flushing' = [s \in Session |-> FALSE]
  /\ writer' = [s \in Session |-> "off"]
  /\ fpc' = [s \in Session |-> "none"]
  /\ batch' = [s \in Session |-> {}]
  /\ tokens' = [a \in Addr |-> Burst]
  /\ UNCHANGED <<storeVars, histVars>>

(* Client.Send to an open channel: never blocks, drops when it is full.    *)
Full(s) == Len(send[s]) >= SendBufferSize

Push(s, item) ==
  send' = [send EXCEPT ![s] = IF Full(s) THEN @ ELSE Append(@, item)]

(* A bbolt transaction fails and leaves the file as it was.                *)
Fault == faults < MaxFaults /\ faults' = faults + 1

(* Client.ctx is done: cancelled by the hub or through the server context. *)
Cancelled(s) == closed[s] \/ stopping

-----------------------------------------------------------------------------
(* Hub.Run                                                                 *)

(* The address is taken by another session: Register returns               *)
(* ErrAddressInUse and wsHandler closes the connection.                    *)
InUseBug(s) == FALSE
InUse(s) == clients[AddrOf[s]] \notin {NoSession, s}

HubReject(s) ==
  /\ up /\ hubpc = "select" /\ spc[s] = "registering"
  /\ InUse(s)
  /\ spc' = [spc EXCEPT ![s] = "closed"]
  /\ conn' = [conn EXCEPT ![s] = FALSE]
  /\ UNCHANGED <<procVars, hubVars, cur, rcpt, chanVars, flushVars, writer,
                 tokens, storeVars, histVars>>

HubAccept(s) ==
  /\ up /\ hubpc = "select" /\ spc[s] = "registering"
  /\ ~InUse(s)
  /\ clients' = [clients EXCEPT ![AddrOf[s]] = s]
  /\ spc' = [spc EXCEPT ![s] = "accepted"]
  /\ hubpc' = "count" /\ hubsess' = s
  /\ UNCHANGED <<procVars, hubcount, cur, rcpt, chanVars, flushVars, conn,
                 writer, tokens, storeVars, histVars>>

(* MessageQueue.Count: every key of the bucket, expired entries included;  *)
(* a failing transaction counts as an empty bucket.                        *)
Count(a) == Cardinality(queue[a])

HubCountBug ==
  /\ up /\ hubpc = "count"
  /\ \/ /\ Count(AddrOf[hubsess]) > 1
        /\ hubpc' = "status" /\ hubcount' = Count(AddrOf[hubsess])
        /\ UNCHANGED hubsess
     \/ /\ Count(AddrOf[hubsess]) <= 1
        /\ hubpc' = "select" /\ hubsess' = NoSession /\ UNCHANGED hubcount
  /\ UNCHANGED <<procVars, clients, readVars, chanVars, flushVars, conn,
                 writer, tokens, storeVars, histVars>>

HubCount ==
  /\ up /\ hubpc = "count"
  /\ \/ /\ Count(AddrOf[hubsess]) > 0
        /\ hubpc' = "status" /\ hubcount' = Count(AddrOf[hubsess])
        /\ UNCHANGED <<hubsess, faults>>
     \/ /\ (Count(AddrOf[hubsess]) = 0 /\ UNCHANGED faults) \/ Fault
        /\ hubpc' = "select" /\ hubsess' = NoSession /\ UNCHANGED hubcount
  /\ UNCHANGED <<procVars, clients, readVars, chanVars, flushVars, conn,
                 writer, tokens, storeVars, logVars>>

HubSendStatus ==
  /\ up /\ hubpc = "status"
  /\ Push(hubsess, QueueStatus(hubcount))
  /\ hubpc' = "flush" /\ hubcount' = 0
  /\ UNCHANGED <<procVars, clients, hubsess, readVars, closed, flushVars, conn,
                 writer, tokens, storeVars, histVars>>

HubStartFlush ==
  /\ up /\ hubpc = "flush"
  /\ flushing' = [flushing EXCEPT ![hubsess] = TRUE]
  /\ fpc' = [fpc EXCEPT ![hubsess] = "check"]
  /\ hubpc' = "select" /\ hubsess' = NoSession
  /\ UNCHANGED <<procVars, clients, hubcount, readVars, chanVars, batch, conn,
                 writer, tokens, storeVars, histVars>>

(* close(client.send) and client.cancel() for the sessions in S. The write *)
(* pump's context is done in the same step, so nothing left in the buffer  *)
(* can be written any more: the buffer is emptied and the pump returns.    *)
CloseAll(S) ==
  /\ closed' = [s \in Session |-> closed[s] \/ s \in S]
  /\ send' = [s \in Session |-> IF s \in S THEN <<>> ELSE send[s]]
  /\ writer' = [s \in Session |-> IF s \in S THEN "done" ELSE writer[s]]
  /\ conn' = [s \in Session |-> conn[s] /\ s \notin S]

HubUnregister(s) ==
  /\ up /\ hubpc = "select" /\ spc[s] = "unregistering"
  /\ IF clients[AddrOf[s]] = s
     THEN /\ clients' = [clients EXCEPT ![AddrOf[s]] = NoSession]
          /\ CloseAll({s})
     ELSE UNCHANGED <<clients, chanVars, writer, conn>>
  /\ tokens' = [tokens EXCEPT ![AddrOf[s]] = Burst]
  /\ spc' = [spc EXCEPT ![s] = "closed"]
  /\ UNCHANGED <<procVars, hubpc, hubsess, hubcount, cur, rcpt, flushVars,
                 storeVars, histVars>>

(* The ctx.Done case: every routed client is closed and Run returns.       *)
HubStop ==
  /\ up /\ stopping /\ hubpc = "select"
  /\ CloseAll({s \in Session : clients[AddrOf[s]] = s})
  /\ clients' = [a \in Addr |-> NoSession]
  /\ hubpc' = "stopped"
  /\ UNCHANGED <<procVars, hubsess, hubcount, readVars, flushVars, tokens,
                 storeVars, histVars>>

-----------------------------------------------------------------------------
(* wsHandler, before and after Register. The handshake of auth.Authenticate *)
(* and the approval check precede Connect.                                  *)

Connect(s) ==
  /\ up /\ ~stopping /\ spc[s] = "idle"
  /\ spc' = [spc EXCEPT ![s] = "registering"]
  /\ conn' = [conn EXCEPT ![s] = TRUE]
  /\ UNCHANGED <<procVars, hubVars, cur, rcpt, chanVars, flushVars, writer,
                 tokens, storeVars, histVars>>

(* sendAuthResult succeeds: the pumps and the heartbeat start.             *)
AuthResult(s) ==
  /\ up /\ spc[s] = "accepted"
  /\ spc' = [spc EXCEPT ![s] = "running"]
  /\ writer' = [writer EXCEPT ![s] = "on"]
  /\ UNCHANGED <<procVars, hubVars, cur, rcpt, chanVars, flushVars, conn,
                 tokens, storeVars, histVars>>

(* sendAuthResult fails: the handler unregisters the client itself.        *)
AuthResultFails(s) ==
  /\ up /\ spc[s] = "accepted" /\ ~conn[s]
  /\ spc' = [spc EXCEPT ![s] = "unregistering"]
  /\ UNCHANGED <<procVars, hubVars, cur, rcpt, chanVars, flushVars, conn,
                 writer, tokens, storeVars, histVars>>

(* The peer goes away, a ping is not answered, or the network breaks.      *)
ConnDrop(s) ==
  /\ up /\ s \in Unstable /\ conn[s] /\ spc[s] \in Live
  /\ conn' = [conn EXCEPT ![s] = FALSE]
  /\ UNCHANGED <<procVars, hubVars, readVars, chanVars, flushVars, writer,
                 tokens, storeVars, histVars>>

-----------------------------------------------------------------------------
(* ReadPump and RouteMessage                                               *)

Frames(a) ==
  {f \in [kind : FrameKinds \cup {"block", "unblock"}, from : {a}, to : Addr,
          n : {sent[a] + 1}] :
     <<a, f.to>> \in IF f.kind \in FrameKinds THEN Traffic ELSE BlockPairs}

ReadFrame(s) ==
  /\ up /\ spc[s] = "running" /\ conn[s] /\ ~Cancelled(s)
  /\ sent[AddrOf[s]] < MaxSent
  /\ \E f \in Frames(AddrOf[s]) : cur' = [cur EXCEPT ![s] = f]
  /\ sent' = [sent EXCEPT ![AddrOf[s]] = @ + 1]
  /\ spc' = [spc EXCEPT ![s] = "route"]
  /\ UNCHANGED <<procVars, hubVars, rcpt, chanVars, flushVars, conn, writer,
                 tokens, storeVars, inbox, handed, swept, faults>>

ReadFailsBug(s) ==
  /\ up /\ spc[s] = "running" /\ (~conn[s] \/ Cancelled(s))
  /\ spc' = [spc EXCEPT ![s] = "closed"]
  /\ conn' = [conn EXCEPT ![s] = FALSE]
  /\ UNCHANGED <<procVars, hubVars, cur, rcpt, chanVars, flushVars, writer,
                 tokens, storeVars, histVars>>

(* Read fails (error, timeout or cancelled context): the deferred          *)
(* Unregister waits for the hub.                                           *)
ReadFails(s) ==
  /\ up /\ spc[s] = "running" /\ (~conn[s] \/ Cancelled(s))
  /\ spc' = [spc EXCEPT ![s] = "unregistering"]
  /\ conn' = [conn EXCEPT ![s] = FALSE]
  /\ UNCHANGED <<procVars, hubVars, cur, rcpt, chanVars, flushVars, writer,
                 tokens, storeVars, histVars>>

(* RouteMessage returns to the read loop.                                  *)
Return(s) ==
  /\ spc' = [spc EXCEPT ![s] = "running"]
  /\ cur' = [cur EXCEPT ![s] = NoFrame]
  /\ rcpt' = [rcpt EXCEPT ![s] = NoSession]

Limited(a) == RateLimiting /\ tokens[a] = 0

(* The sender is over its rate: it is told so and the frame is dropped.    *)
RouteLimited(s) ==
  /\ up /\ spc[s] = "route" /\ Limited(AddrOf[s])
  /\ IF closed[s]
     THEN Die("route") /\ UNCHANGED crashes
     ELSE /\ Push(s, RateLimited)
          /\ Return(s)
          /\ UNCHANGED <<procVars, hubVars, closed, flushVars, conn, writer,
                         tokens, storeVars, histVars>>

TakeToken(a) ==
  tokens' = IF RateLimiting THEN [tokens EXCEPT ![a] = @ - 1] ELSE tokens

RouteJunk(s) ==
  /\ up /\ spc[s] = "route" /\ ~Limited(AddrOf[s]) /\ cur[s].kind = "junk"
  /\ TakeToken(AddrOf[s])
  /\ Return(s)
  /\ UNCHANGED <<procVars, hubVars, chanVars, flushVars, conn, writer,
                 storeVars, histVars>>

RouteBlockBug(s) ==
  /\ up /\ spc[s] = "route" /\ ~Limited(AddrOf[s])
  /\ cur[s].kind \in {"block", "unblock"}
  /\ TakeToken(AddrOf[s])
  /\ LET pair == <<cur[s].to, AddrOf[s]>>
     IN  blocked' = IF cur[s].kind = "block" THEN blocked \cup {pair}
                    ELSE blocked \ {pair}
  /\ Return(s)
  /\ UNCHANGED <<procVars, hubVars, chanVars, flushVars, conn, writer,
                 queue, lastKey, histVars>>

(* BlockStore.Block and Unblock; a failed transaction is only logged.      *)
RouteBlock(s) ==
  /\ up /\ spc[s] = "route" /\ ~Limited(AddrOf[s])
  /\ cur[s].kind \in {"block", "unblock"}
  /\ TakeToken(AddrOf[s])
  /\ LET pair == <<AddrOf[s], cur[s].to>>
     IN  \/ /\ blocked' = IF cur[s].kind = "block" THEN blocked \cup {pair}
                          ELSE blocked \ {pair}
            /\ UNCHANGED faults
         \/ Fault /\ UNCHANGED blocked
  /\ Return(s)
  /\ UNCHANGED <<procVars, hubVars, chanVars, flushVars, conn, writer,
                 queue, lastKey, logVars>>

(* BlockStore.IsBlocked; a failed transaction reads as "not blocked".      *)
IsBlocked(blocker, sender) == <<blocker, sender>> \in blocked

RouteMessage(s) ==
  /\ up /\ spc[s] = "route" /\ ~Limited(AddrOf[s]) /\ cur[s].kind = "msg"
  /\ TakeToken(AddrOf[s])
  /\ \/ /\ IsBlocked(cur[s].to, AddrOf[s])
        /\ Return(s) /\ UNCHANGED faults
     \/ /\ (~IsBlocked(cur[s].to, AddrOf[s]) /\ UNCHANGED faults) \/ Fault
        /\ spc' = [spc EXCEPT ![s] = "lookup"]
        /\ UNCHANGED <<cur, rcpt>>
  /\ UNCHANGED <<procVars, hubVars, chanVars, flushVars, conn, writer,
                 storeVars, logVars>>

LookupClientBug(s) ==
  /\ up /\ spc[s] = "lookup"
  /\ rcpt' = [rcpt EXCEPT ![s] = clients[cur[s].to]]
  /\ spc' = [spc EXCEPT ![s] = "isflushing"]
  /\ UNCHANGED <<procVars, hubVars, cur, chanVars, flushVars, conn, writer,
                 tokens, storeVars, histVars>>

LookupClient(s) ==
  /\ up /\ spc[s] = "lookup"
  /\ rcpt' = [rcpt EXCEPT ![s] = clients[cur[s].to]]
  /\ spc' = [spc EXCEPT ![s] = IF clients[cur[s].to] = NoSession
                               THEN "enqueue" ELSE "isflushing"]
  /\ UNCHANGED <<procVars, hubVars, cur, chanVars, flushVars, conn, writer,
                 tokens, storeVars, histVars>>

RouteIsFlushing(s) ==
  /\ up /\ spc[s] = "isflushing"
  /\ spc' = [spc EXCEPT ![s] = IF flushing[rcpt[s]] THEN "enqueue" ELSE "send"]
  /\ UNCHANGED <<procVars, hubVars, cur, rcpt, chanVars, flushVars, conn,
                 writer, tokens, storeVars, histVars>>

(* recipient.Send on the session that was looked up, which may have been   *)
(* unregistered since: sending on its closed channel panics.               *)
RouteSend(s) ==
  /\ up /\ spc[s] = "send"
  /\ IF closed[rcpt[s]]
     THEN Die("route") /\ UNCHANGED crashes
     ELSE /\ Push(rcpt[s], cur[s])
          /\ Return(s)
          /\ UNCHANGED <<procVars, hubVars, closed, flushVars, conn, writer,
                         tokens, storeVars, histVars>>

-----------------------------------------------------------------------------
(* MessageQueue. Keys are (clock, sequence) pairs; the clock is taken to   *)
(* be monotone, so the bucket's sequence alone orders them.                *)

AtCapBug(a) == Cardinality(queue[a]) > MaxPerAgent
AtCap(a) == Cardinality(queue[a]) >= MaxPerAgent

Enqueue(a, m) ==
  /\ lastKey' = [lastKey EXCEPT ![a] = @ + 1]
  /\ queue' = [queue EXCEPT
       ![a] = @ \cup {[key |-> lastKey[a] + 1, msg |-> m, expired |-> FALSE]}]

RouteEnqueueBug(s) ==
  /\ up /\ spc[s] = "enqueue" /\ ~AtCap(cur[s].to)
  /\ Enqueue(cur[s].to, cur[s])
  /\ IF rcpt[s] = NoSession THEN Return(s)
     ELSE spc' = [spc EXCEPT ![s] = "send"] /\ UNCHANGED <<cur, rcpt>>
  /\ UNCHANGED <<procVars, hubVars, chanVars, flushVars, conn, writer, tokens,
                 blocked, histVars>>

RouteEnqueue(s) ==
  /\ up /\ spc[s] = "enqueue" /\ ~AtCap(cur[s].to)
  /\ Enqueue(cur[s].to, cur[s])
  /\ Return(s)
  /\ UNCHANGED <<procVars, hubVars, chanVars, flushVars, conn, writer, tokens,
                 blocked, histVars>>

(* ErrQueueFull: the sender is told so and the message is dropped.         *)
RouteQueueFull(s) ==
  /\ up /\ spc[s] = "enqueue" /\ AtCap(cur[s].to)
  /\ IF closed[s]
     THEN Die("route") /\ UNCHANGED crashes
     ELSE /\ Push(s, QueueFull(cur[s].to))
          /\ Return(s)
          /\ UNCHANGED <<procVars, hubVars, closed, flushVars, conn, writer,
                         tokens, storeVars, histVars>>

(* Any other error of Enqueue is logged and the message is gone.           *)
RouteEnqueueFails(s) ==
  /\ up /\ spc[s] = "enqueue" /\ Fault
  /\ Return(s)
  /\ UNCHANGED <<procVars, hubVars, chanVars, flushVars, conn, writer, tokens,
                 storeVars, logVars>>

-----------------------------------------------------------------------------
(* flushQueuedMessages                                                     *)

FlushCheck(s) ==
  /\ up /\ fpc[s] = "check"
  /\ fpc' = [fpc EXCEPT ![s] = IF Cancelled(s) THEN "exit" ELSE "read"]
  /\ UNCHANGED <<procVars, hubVars, readVars, chanVars, flushing, batch, conn,
                 writer, tokens, storeVars, histVars>>

FlushBatchBug(a) ==
  LET fresh == {e \in queue[a] : ~e.expired}
  IN  {e \in fresh :
         Cardinality({d \in fresh : d.key > e.key}) < FlushBatchSize}

(* MessageQueue.FlushBatch: the first entries in key order that have not   *)
(* expired.                                                                *)
FlushBatch(a) ==
  LET fresh == {e \in queue[a] : ~e.expired}
  IN  {e \in fresh :
         Cardinality({d \in fresh : d.key < e.key}) < FlushBatchSize}

FlushReadBug(s) ==
  /\ up /\ fpc[s] = "read"
  /\ batch' = [batch EXCEPT ![s] = FlushBatch(AddrOf[s])]
  /\ queue' = [queue EXCEPT ![AddrOf[s]] = @ \ FlushBatch(AddrOf[s])]
  /\ fpc' = [fpc EXCEPT ![s] = IF FlushBatch(AddrOf[s]) = {} THEN "exit"
                               ELSE "send"]
  /\ UNCHANGED <<procVars, hubVars, readVars, chanVars, flushing, conn, writer,
                 tokens, lastKey, blocked, histVars>>

FlushRead(s) ==
  /\ up /\ fpc[s] = "read"
  /\ \/ /\ batch' = [batch EXCEPT ![s] = FlushBatch(AddrOf[s])]
        /\ fpc' = [fpc EXCEPT ![s] = IF FlushBatch(AddrOf[s]) = {} THEN "exit"
                                     ELSE "send"]
        /\ UNCHANGED faults
     \/ Fault /\ fpc' = [fpc EXCEPT ![s] = "exit"] /\ UNCHANGED batch
  /\ UNCHANGED <<procVars, hubVars, readVars, chanVars, flushing, conn, writer,
                 tokens, storeVars, logVars>>

(* The entry of the batch the loop is at.                                  *)
AtHead(s, e) == e \in batch[s] /\ \A d \in batch[s] : e.key <= d.key

FlushSend(s) ==
  /\ up /\ fpc[s] = "send"
  /\ IF closed[s]
     THEN Die("flush") /\ UNCHANGED crashes
     ELSE \E e \in batch[s] :
            /\ AtHead(s, e)
            /\ Push(s, e.msg)
            /\ handed' = [handed EXCEPT ![s] = @ \cup {e.key}]
            /\ fpc' = [fpc EXCEPT ![s] = "remove"]
            /\ UNCHANGED <<procVars, hubVars, readVars, closed, flushing, batch,
                           conn, writer, tokens, storeVars, sent, inbox, swept,
                           faults>>

(* MessageQueue.Remove. A failed transaction is only logged.               *)
Remove(a, k) == queue' = [queue EXCEPT ![a] = {e \in @ : e.key # k}]

FlushRemove(s) ==
  /\ up /\ fpc[s] = "remove"
  /\ \E e \in batch[s] :
       /\ AtHead(s, e)
       /\ \/ Remove(AddrOf[s], e.key) /\ UNCHANGED faults
          \/ Fault /\ UNCHANGED queue
       /\ batch' = [batch EXCEPT ![s] = @ \ {e}]
       /\ fpc' = [fpc EXCEPT ![s] = IF batch[s] = {e} THEN "check" ELSE "send"]
  /\ UNCHANGED <<procVars, hubVars, readVars, chanVars, flushing, conn, writer,
                 tokens, lastKey, blocked, logVars>>

FlushExitBug(s) ==
  /\ up /\ fpc[s] = "exit"
  /\ fpc' = [fpc EXCEPT ![s] = "none"]
  /\ UNCHANGED <<procVars, hubVars, readVars, chanVars, flushing, batch, conn,
                 writer, tokens, storeVars, histVars>>

(* The deferred SetFlushing(false), on every way out.                      *)
FlushExit(s) ==
  /\ up /\ fpc[s] = "exit"
  /\ flushing' = [flushing EXCEPT ![s] = FALSE]
  /\ fpc' = [fpc EXCEPT ![s] = "none"]
  /\ UNCHANGED <<procVars, hubVars, readVars, chanVars, batch, conn, writer,
                 tokens, storeVars, histVars>>

-----------------------------------------------------------------------------
(* WritePump                                                               *)

(* A write reaches the peer.                                               *)
WriteMessage(s) ==
  /\ up /\ writer[s] = "on" /\ send[s] # <<>> /\ conn[s] /\ ~Cancelled(s)
  /\ inbox' = IF Head(send[s]).kind # "msg" THEN inbox
              ELSE [inbox EXCEPT ![AddrOf[s]] =
                      Append(@, [sess |-> s, msg |-> Head(send[s])])]
  /\ send' = [send EXCEPT ![s] = Tail(@)]
  /\ UNCHANGED <<procVars, hubVars, readVars, closed, flushVars, conn, writer,
                 tokens, storeVars, sent, handed, swept, faults>>

(* A write does not reach the peer: it fails and the pump returns, or the  *)
(* socket took it and the peer is gone.                                    *)
WriteLost(s) ==
  /\ up /\ writer[s] = "on" /\ send[s] # <<>> /\ ~conn[s]
  /\ send' = [send EXCEPT ![s] = Tail(@)]
  /\ writer' = [writer EXCEPT ![s] = "done"] \/ UNCHANGED writer
  /\ UNCHANGED <<procVars, hubVars, readVars, closed, flushVars, conn, tokens,
                 storeVars, histVars>>

(* The server context is done before the hub closes the channel.           *)
WriterExit(s) ==
  /\ up /\ writer[s] = "on" /\ stopping
  /\ writer' = [writer EXCEPT ![s] = "done"]
  /\ UNCHANGED <<procVars, hubVars, readVars, chanVars, flushVars, conn, tokens,
                 storeVars, histVars>>

-----------------------------------------------------------------------------
(* Time and the process                                                    *)

Refill(a) ==
  /\ up /\ RateLimiting /\ tokens[a] < Burst
  /\ tokens' = [tokens EXCEPT ![a] = @ + 1]
  /\ UNCHANGED <<procVars, hubVars, readVars, chanVars, flushVars, conn, writer,
                 storeVars, histVars>>

(* The oldest entry that is still fresh passes its TTL.                    *)
Expire(a) ==
  /\ Expiry
  /\ \E e \in queue[a] :
       /\ ~e.expired
       /\ \A d \in queue[a] : d.expired \/ e.key <= d.key
       /\ queue' = [queue EXCEPT
            ![a] = (@ \ {e}) \cup {[e EXCEPT !.expired = TRUE]}]
  /\ UNCHANGED <<procVars, hubVars, readVars, chanVars, flushVars, conn, writer,
                 tokens, lastKey, blocked, histVars>>

(* MessageQueue.Sweep: one transaction over every bucket.                  *)
Sweep ==
  /\ up /\ Expiry /\ \E a \in Addr : \E e \in queue[a] : e.expired
  /\ queue' = [a \in Addr |-> {e \in queue[a] : ~e.expired}]
  /\ swept' = [a \in Addr |->
       swept[a] \cup {e.key : e \in {d \in queue[a] : d.expired}}]
  /\ UNCHANGED <<procVars, hubVars, readVars, chanVars, flushVars, conn, writer,
                 tokens, lastKey, blocked, sent, inbox, handed,
                 faults>>

(* SIGINT or SIGTERM: the server context, and every client's, is done.     *)
Shutdown ==
  /\ up /\ ~stopping /\ crashes < MaxCrash
  /\ stopping' = TRUE
  /\ crashes' = crashes + 1
  /\ UNCHANGED <<up, panicked, hubVars, readVars, chanVars, flushVars, conn,
                 writer, tokens, storeVars, histVars>>

(* main returns after a shutdown, whether or not the hub has stopped yet.  *)
Exit ==
  /\ up /\ stopping
  /\ Die("no") /\ UNCHANGED crashes

(* The process is killed.                                                  *)
Kill ==
  /\ up /\ crashes < MaxCrash
  /\ Die("no") /\ crashes' = crashes + 1

(* The service manager starts pinchd again on the same file.               *)
Restart ==
  /\ ~up
  /\ up' = TRUE /\ panicked' = "no"
  /\ UNCHANGED <<stopping, crashes, hubVars, readVars, chanVars, flushVars,
                 conn, writer, tokens, storeVars, histVars>>

-----------------------------------------------------------------------------
HubSteps == HubCount \/ HubSendStatus \/ HubStartFlush \/ HubStop
HubSession(s) == HubReject(s) \/ HubAccept(s) \/ HubUnregister(s)

RouteSteps(s) ==
  \/ RouteLimited(s) \/ RouteJunk(s) \/ RouteBlock(s) \/ RouteMessage(s)
  \/ LookupClient(s) \/ RouteIsFlushing(s) \/ RouteSend(s)
  \/ RouteEnqueue(s) \/ RouteQueueFull(s) \/ RouteEnqueueFails(s)

FlushSteps(s) ==
  \/ FlushCheck(s) \/ FlushRead(s) \/ FlushSend(s) \/ FlushRemove(s)
  \/ FlushExit(s)

(* wsHandler, then ReadPump: one goroutine after the other.                *)
HandlerSteps(s) ==
  AuthResult(s) \/ AuthResultFails(s) \/ ReadFails(s) \/ RouteSteps(s)

WriteSteps(s) == WriteMessage(s) \/ WriteLost(s) \/ WriterExit(s)

Next ==
  \/ HubSteps
  \/ \E s \in Session :
       \/ HubSession(s) \/ HandlerSteps(s) \/ FlushSteps(s) \/ WriteSteps(s)
       \/ Connect(s) \/ ConnDrop(s) \/ ReadFrame(s)
  \/ \E a \in Addr : Refill(a) \/ Expire(a)
  \/ Sweep \/ Shutdown \/ Exit \/ Kill \/ Restart

Spec == Init /\ [][Next]_vars

(* Goroutines are scheduled; agents, connections and the clock promise     *)
(* nothing.                                                                *)
Fairness ==
  /\ WF_vars(HubSteps)
  /\ \A s \in Session :
       /\ WF_vars(HubSession(s)) /\ WF_vars(HandlerSteps(s))
       /\ WF_vars(FlushSteps(s)) /\ WF_vars(WriteSteps(s))

FairSpec == Spec /\ Fairness

-----------------------------------------------------------------------------
(* Properties                                                              *)

ProcTypeOK ==
  /\ up \in BOOLEAN /\ panicked \in {"no", "route", "flush"}
  /\ stopping \in BOOLEAN /\ crashes \in Nat

HubTypeOK ==
  /\ clients \in [Addr -> Session \cup {NoSession}]
  /\ hubpc \in {"select", "count", "status", "flush", "stopped"}
  /\ hubsess \in Session \cup {NoSession} /\ hubcount \in Nat
  /\ hubpc \in {"count", "status", "flush"} => hubsess \in Session

ReadTypeOK ==
  /\ spc \in [Session -> Live \cup {"idle", "registering", "closed"}]
  /\ conn \in [Session -> BOOLEAN]
  /\ cur \in [Session -> Frame \cup {NoFrame}]
  /\ rcpt \in [Session -> Session \cup {NoSession}]
  /\ \A s \in Session :
       /\ spc[s] \in Routing => cur[s] \in Frame
       /\ spc[s] \in Routing \ {"route"} => cur[s] \in Message
       /\ spc[s] \in {"isflushing", "send"} => rcpt[s] \in Session

ChanTypeOK ==
  /\ send \in [Session -> Seq(Item)]
  /\ closed \in [Session -> BOOLEAN]
  /\ writer \in [Session -> {"off", "on", "done"}]
  /\ flushing \in [Session -> BOOLEAN]
  /\ fpc \in [Session -> {"none", "check", "read", "send", "remove", "exit"}]
  /\ batch \in [Session -> SUBSET Entry]

StoreTypeOK ==
  /\ tokens \in [Addr -> 0..Burst]
  /\ queue \in [Addr -> SUBSET Entry]
  /\ lastKey \in [Addr -> Nat]
  /\ blocked \in SUBSET (Addr \X Addr)

HistTypeOK ==
  /\ sent \in [Addr -> Nat]
  /\ inbox \in [Addr -> Seq(Receipt)]
  /\ handed \in [Session -> SUBSET Nat]
  /\ swept \in [Addr -> SUBSET Nat]
  /\ faults \in Nat

(* Every variable has its type; RouteMessage never uses a nil recipient,   *)
(* and works on a message once it is past the checks of the envelope.      *)
TypeOK ==
  /\ ProcTypeOK /\ HubTypeOK /\ ReadTypeOK
  /\ ChanTypeOK /\ StoreTypeOK /\ HistTypeOK

(* The routing table is exact. Until the hub stops, the session in the     *)
(* table under an address is the one session of that address between       *)
(* acceptance and unregistration, and its channel is open: a second login  *)
(* is rejected, a stale Unregister evicts nobody, and a channel is closed  *)
(* only in the step that takes it out of the table.                        *)
TableExact ==
  hubpc # "stopped" =>
    \A s \in Session :
      /\ spc[s] \in Live <=> clients[AddrOf[s]] = s
      /\ spc[s] \in Live => ~closed[s]

(* No bucket outgrows maxPerAgent, whatever readers enqueue to it at once. *)
QueueBounded == \A a \in Addr : Count(a) <= MaxPerAgent

(* A queued message is never lost to a crash, a panic, a disconnect or a   *)
(* failed transaction: every key ever stored is still in the bucket, was   *)
(* passed to Client.Send by a flush of that address, or was swept as       *)
(* expired. Sending before removing (hub.go:206-209) is what this needs.   *)
QueueDurable ==
  \A a \in Addr : \A k \in 1..lastKey[a] :
    \/ k \in Keys(a)
    \/ k \in swept[a]
    \/ \E s \in Session : AddrOf[s] = a /\ k \in handed[s]

(* Within one session a flush hands out entries in key order and none      *)
(* twice: whatever it is about to send is newer than all it has sent.      *)
FlushAscending ==
  faults = 0 =>
    \A s \in Session : fpc[s] = "send" =>
      \A e \in batch[s] : \A k \in handed[s] : k < e.key

(* A message reaches an agent at most once per session: RouteMessage takes *)
(* either the direct path or the queue, and a flush repeats nothing.       *)
OncePerSession ==
  faults = 0 =>
    \A a \in Addr : \A i, j \in DOMAIN inbox[a] :
      i # j => inbox[a][i] # inbox[a][j]

(* A block record changes only by a frame of the blocker's own             *)
(* authenticated session, and it survives the process.                     *)
BlockerDecides ==
  [][\A p \in (blocked \ blocked') \cup (blocked' \ blocked) :
       \E s \in Session :
         /\ AddrOf[s] = p[1] /\ spc[s] = "route"
         /\ cur[s].kind \in {"block", "unblock"} /\ cur[s].to = p[2]]_vars

(* ---- liveness, under Fairness ----                                      *)

(* The flushing flag never stays up: while it is, all real-time traffic to *)
(* the session is diverted to the queue.                                   *)
FlushingEnds == \A s \in Session : flushing[s] ~> ~flushing[s]

(* A dead connection frees its address, so that the agent can reconnect.   *)
DeadSessionFreed ==
  \A s \in Session :
    spc[s] \in Live /\ ~conn[s] ~> clients[AddrOf[s]] # s

(* What is queued when a session registers leaves the queue while that     *)
(* session lasts.                                                          *)
BacklogFlushed ==
  \A s \in Session : \A k \in 1..MaxPerAgent :
    (hubpc = "count" /\ hubsess = s /\ k \in Keys(AddrOf[s]))
      ~> (k \notin Keys(AddrOf[s]) \/ clients[AddrOf[s]] # s)

=============================================================================
