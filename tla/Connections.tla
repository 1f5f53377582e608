---------------------------- MODULE Connections ----------------------------
(***************************************************************************)
(* The life of the connections between agents: each agent's                *)
(* ConnectionManager and ConnectionStore (connections.json), and the relay *)
(* that carries requests, responses and revocations and enforces blocks.   *)
(*                                                                         *)
(* JavaScript runs a handler without interruption up to its await, so one  *)
(* step changes the store in memory and hands the envelope to the socket;  *)
(* the file is written later, by a save() nobody waits for when the        *)
(* handler was called for an envelope.                                     *)
(***************************************************************************)
EXTENDS Naturals, Sequences

CONSTANTS
  Agent,        \* pinch: addresses
  Ops,          \* operations the humans perform
  File,         \* connections.json is followed (no use if nobody restarts)
  MaxOps,       \* bound: operations of all the humans
  MaxRestarts,  \* bound: processes that die or exit
  MaxFaults     \* bound: envelopes lost, repeated, overtaken; failed sends

ASSUME ConnectionsAssumption ==
  /\ Ops \subseteq {"request", "approve", "reject", "block", "unblock",
                    "revoke", "expire"}
  /\ File \in BOOLEAN /\ (MaxRestarts > 0 => File)
  /\ MaxOps \in Nat /\ MaxRestarts \in Nat /\ MaxFaults \in Nat

VARIABLES
  up,        \* the agent's process runs and is authenticated at the relay
  conns,     \* ConnectionStore.data: the state of each peer's connection
  mkdirs,    \* save() calls awaiting mkdir
  snaps,     \* save() calls whose writeFile is under way: what each writes
  disk,      \* connections.json
  link,      \* envelopes on the agent's socket, towards the relay
  inq,       \* envelopes the relay holds for the agent
  blocks,    \* <<blocker, blocked>> records of the relay
  consent,   \* <<x, y>>: x's human has requested, approved or unblocked y
  unblocked, \* <<x, y>>: x's human has unblocked y
  ops, restarts, faults

storeVars == <<conns, mkdirs, snaps>>
netVars   == <<link, inq, blocks>>
pastVars  == <<consent, unblocked>>
vars == <<up, storeVars, disk, netVars, pastVars, ops, restarts, faults>>

-----------------------------------------------------------------------------
State == {"none", "pending_outbound", "pending_inbound", "active", "blocked",
          "revoked"}
Store == [Agent -> State]
Envelope == [type : {"request", "response", "revoke", "block", "unblock"},
             from : Agent, to : Agent]
Pair == Agent \X Agent

EmptyStore == [y \in Agent |-> "none"]

(* Definitions whose name ends in Bug are wrong versions of the definition *)
(* they are named after, as in RelayHub.                                   *)

Init ==
  /\ up = [x \in Agent |-> TRUE]
  /\ conns = [x \in Agent |-> EmptyStore]
  /\ mkdirs = [x \in Agent |-> 0]
  /\ snaps = [x \in Agent |-> <<>>]
  /\ disk = [x \in Agent |-> EmptyStore]
  /\ link = [x \in Agent |-> <<>>]
  /\ inq = [x \in Agent |-> <<>>]
  /\ blocks = {}
  /\ consent = {} /\ unblocked = {}
  /\ ops = 0 /\ restarts = 0 /\ faults = 0

-----------------------------------------------------------------------------
(* What the operations of ConnectionManager are made of                    *)

(* A human performs an operation at x on the connection with y.            *)
Human(x, y, op) ==
  /\ up[x] /\ x # y /\ op \in Ops /\ ops < MaxOps
  /\ ops' = ops + 1

(* addConnection and updateConnection, followed by save().                 *)
SetState(x, y, st) ==
  /\ conns' = [conns EXCEPT ![x][y] = st]
  /\ mkdirs' = IF File THEN [mkdirs EXCEPT ![x] = @ + 1] ELSE mkdirs
  /\ UNCHANGED snaps

(* sendEnvelope on an open socket. (On a closed one it throws; sendRequest *)
(* approveRequest and revokeConnection send first and then change nothing.) *)
Send(x, y, t) ==
  link' = [link EXCEPT ![x] = Append(@, [type |-> t, from |-> x, to |-> y])]

Known(x, y) == conns[x][y] # "none"

Consents(x, y) == consent' = consent \cup {<<x, y>>}

-----------------------------------------------------------------------------
(* Operations                                                              *)

SendRequestBug(x, y) ==
  /\ Human(x, y, "request")
  /\ Send(x, y, "request") /\ Consents(x, y)
  /\ UNCHANGED <<up, storeVars, disk, inq, blocks, unblocked, restarts, faults>>

(* sendRequest looks at no state: it overwrites whatever was there.        *)
SendRequest(x, y) ==
  /\ Human(x, y, "request")
  /\ Send(x, y, "request")
  /\ SetState(x, y, "pending_outbound")
  /\ Consents(x, y)
  /\ UNCHANGED <<up, disk, inq, blocks, unblocked, restarts, faults>>

ApproveRequestBug(x, y) ==
  /\ Human(x, y, "approve") /\ Known(x, y)
  /\ Send(x, y, "response")
  /\ SetState(x, y, "active")
  /\ Consents(x, y)
  /\ UNCHANGED <<up, disk, inq, blocks, unblocked, restarts, faults>>

ApproveRequestMuteBug(x, y) ==
  /\ Human(x, y, "approve") /\ conns[x][y] = "pending_inbound"
  /\ SetState(x, y, "active")
  /\ Consents(x, y)
  /\ UNCHANGED <<up, disk, netVars, unblocked, restarts, faults>>

ApproveRequest(x, y) ==
  /\ Human(x, y, "approve") /\ conns[x][y] = "pending_inbound"
  /\ Send(x, y, "response")
  /\ SetState(x, y, "active")
  /\ Consents(x, y)
  /\ UNCHANGED <<up, disk, inq, blocks, unblocked, restarts, faults>>

(* Rejection is silent.                                                    *)
RejectRequest(x, y) ==
  /\ Human(x, y, "reject") /\ conns[x][y] = "pending_inbound"
  /\ SetState(x, y, "revoked")
  /\ UNCHANGED <<up, disk, netVars, pastVars, restarts, faults>>

(* blockConnection and unblockConnection, from any state: the record       *)
(* changes before the relay is told.                                       *)
BlockConnection(x, y) ==
  /\ Human(x, y, "block") /\ Known(x, y)
  /\ SetState(x, y, "blocked")
  /\ Send(x, y, "block")
  /\ UNCHANGED <<up, disk, inq, blocks, pastVars, restarts, faults>>

UnblockConnection(x, y) ==
  /\ Human(x, y, "unblock") /\ Known(x, y)
  /\ SetState(x, y, "active")
  /\ Send(x, y, "unblock")
  /\ Consents(x, y)
  /\ unblocked' = unblocked \cup {<<x, y>>}
  /\ UNCHANGED <<up, disk, inq, blocks, restarts, faults>>

(* The socket is closed: sendEnvelope throws after the record has changed, *)
(* and the save() is never reached.                                        *)
BlockFails(x, y, op) ==
  /\ Human(x, y, op) /\ Known(x, y)
  /\ faults < MaxFaults /\ faults' = faults + 1
  /\ conns' = [conns EXCEPT ![x][y] = IF op = "block" THEN "blocked" ELSE "active"]
  /\ IF op = "block" THEN UNCHANGED pastVars
     ELSE Consents(x, y) /\ unblocked' = unblocked \cup {<<x, y>>}
  /\ UNCHANGED <<up, mkdirs, snaps, disk, netVars, restarts>>

(* The peer is told before the record is looked up; without a record the   *)
(* call then throws.                                                       *)
RevokeConnection(x, y) ==
  /\ Human(x, y, "revoke")
  /\ Send(x, y, "revoke")
  /\ IF Known(x, y) THEN SetState(x, y, "revoked") ELSE UNCHANGED storeVars
  /\ UNCHANGED <<up, disk, inq, blocks, pastVars, restarts, faults>>

ExpirePendingRequestsBug(x, y) ==
  /\ Human(x, y, "expire")
  /\ conns[x][y] \in {"pending_outbound", "pending_inbound"}
  /\ conns' = [conns EXCEPT ![x][y] = "expired"]
  /\ UNCHANGED <<up, mkdirs, snaps, disk, netVars, pastVars, restarts, faults>>

(* expirePendingRequests: the requests past their expiry become revoked.   *)
(* It does not save.                                                       *)
ExpirePendingRequests(x, y) ==
  /\ Human(x, y, "expire")
  /\ conns[x][y] \in {"pending_outbound", "pending_inbound"}
  /\ conns' = [conns EXCEPT ![x][y] = "revoked"]
  /\ UNCHANGED <<up, mkdirs, snaps, disk, netVars, pastVars, restarts, faults>>

-----------------------------------------------------------------------------
(* Incoming envelopes                                                      *)

(* The process ends: memory, saves under way and what the relay has not    *)
(* yet read from the socket are gone.                                      *)
Die(x) ==
  /\ up' = [up EXCEPT ![x] = FALSE]
  /\ conns' = [conns EXCEPT ![x] = EmptyStore]
  /\ mkdirs' = [mkdirs EXCEPT ![x] = 0]
  /\ snaps' = [snaps EXCEPT ![x] = <<>>]
  /\ link' = [link EXCEPT ![x] = <<>>]

HandleIncomingRequest(x, m) ==
  /\ m.type = "request"
  /\ SetState(x, m.from, "pending_inbound")
  /\ UNCHANGED <<up, link>>

(* An accepted response makes the connection active whatever its state. If *)
(* there is none, updateConnection throws inside an async handler nobody   *)
(* awaits: an unhandled rejection, which ends the process.                 *)
HandleIncomingResponse(x, m) ==
  /\ m.type = "response"
  /\ IF Known(x, m.from)
     THEN SetState(x, m.from, "active") /\ UNCHANGED <<up, link>>
     ELSE Die(x)

HandleIncomingRevoke(x, m) ==
  /\ m.type = "revoke"
  /\ IF Known(x, m.from) THEN SetState(x, m.from, "revoked")
     ELSE UNCHANGED storeVars
  /\ UNCHANGED <<up, link>>

Handle(x, m) ==
  \/ HandleIncomingRequest(x, m)
  \/ HandleIncomingResponse(x, m)
  \/ HandleIncomingRevoke(x, m)

Deliver(x) ==
  /\ up[x] /\ inq[x] # <<>>
  /\ Handle(x, Head(inq[x]))
  /\ inq' = [inq EXCEPT ![x] = Tail(@)]
  /\ UNCHANGED <<disk, blocks, pastVars, ops, restarts, faults>>

-----------------------------------------------------------------------------
(* The relay: RouteMessage, seen from the agents                           *)

Relay(x) ==
  /\ link[x] # <<>>
  /\ LET m == Head(link[x])
         pair == <<x, m.to>>
     IN  /\ blocks' = CASE m.type = "block"   -> blocks \cup {pair}
                        [] m.type = "unblock" -> blocks \ {pair}
                        [] OTHER              -> blocks
         /\ inq' = IF m.type \in {"block", "unblock"} \/ <<m.to, x>> \in blocks
                   THEN inq
                   ELSE [inq EXCEPT ![m.to] = Append(@, m)]
  /\ link' = [link EXCEPT ![x] = Tail(@)]
  /\ UNCHANGED <<up, storeVars, disk, pastVars, ops, restarts, faults>>

(* An envelope is lost, comes twice, or is overtaken by the next: see the  *)
(* runs of RelayHub.                                                       *)
RelayFault(x) ==
  /\ faults < MaxFaults /\ faults' = faults + 1
  /\ \E i \in DOMAIN inq[x] :
       \/ inq' = [inq EXCEPT ![x] =
                    SubSeq(@, 1, i - 1) \o SubSeq(@, i + 1, Len(@))]
       \/ inq' = [inq EXCEPT ![x] = Append(@, @[i])]
       \/ /\ i < Len(inq[x])
          /\ inq' = [inq EXCEPT ![x] = [@ EXCEPT ![i] = inq[x][i + 1],
                                                 ![i + 1] = inq[x][i]]]
  /\ UNCHANGED <<up, storeVars, disk, link, blocks, pastVars, ops, restarts>>

-----------------------------------------------------------------------------
(* ConnectionStore.save and load, and the process                          *)

(* mkdir is done: the data is serialized and writeFile called.             *)
SaveBegin(x) ==
  /\ up[x] /\ mkdirs[x] > 0
  /\ mkdirs' = [mkdirs EXCEPT ![x] = @ - 1]
  /\ snaps' = [snaps EXCEPT ![x] = Append(@, conns[x])]
  /\ UNCHANGED <<up, conns, disk, netVars, pastVars, ops, restarts, faults>>

(* Calls of writeFile to one path end in any order.                        *)
SaveEnd(x) ==
  /\ up[x]
  /\ \E i \in DOMAIN snaps[x] :
       /\ disk' = [disk EXCEPT ![x] = snaps[x][i]]
       /\ snaps' = [snaps EXCEPT ![x] =
                      SubSeq(@, 1, i - 1) \o SubSeq(@, i + 1, Len(@))]
  /\ UNCHANGED <<up, conns, mkdirs, netVars, pastVars, ops, restarts, faults>>

(* A tool exits once its saves have ended (shutdown), or is killed before. *)
Exit(x) ==
  /\ up[x] /\ restarts < MaxRestarts /\ restarts' = restarts + 1
  /\ Die(x)
  /\ UNCHANGED <<disk, inq, blocks, pastVars, ops, faults>>

(* bootstrap: the next process loads the file.                             *)
Boot(x) ==
  /\ ~up[x]
  /\ up' = [up EXCEPT ![x] = TRUE]
  /\ conns' = [conns EXCEPT ![x] = disk[x]]
  /\ UNCHANGED <<mkdirs, snaps, disk, netVars, pastVars, ops, restarts, faults>>

Next ==
  \E x \in Agent :
    \/ \E y \in Agent :
         \/ SendRequest(x, y) \/ ApproveRequest(x, y) \/ RejectRequest(x, y)
         \/ BlockConnection(x, y) \/ UnblockConnection(x, y)
         \/ BlockFails(x, y, "block") \/ BlockFails(x, y, "unblock")
         \/ RevokeConnection(x, y) \/ ExpirePendingRequests(x, y)
    \/ Deliver(x) \/ Relay(x) \/ RelayFault(x)
    \/ SaveBegin(x) \/ SaveEnd(x) \/ Exit(x) \/ Boot(x)

Spec == Init /\ [][Next]_vars

-----------------------------------------------------------------------------
(* Properties                                                              *)

(* Every variable has its type.                                            *)
TypeOK ==
  /\ up \in [Agent -> BOOLEAN]
  /\ conns \in [Agent -> Store] /\ disk \in [Agent -> Store]
  /\ mkdirs \in [Agent -> Nat] /\ snaps \in [Agent -> Seq(Store)]
  /\ link \in [Agent -> Seq(Envelope)] /\ inq \in [Agent -> Seq(Envelope)]
  /\ blocks \subseteq Pair /\ consent \subseteq Pair /\ unblocked \subseteq Pair
  /\ ops \in Nat /\ restarts \in Nat /\ faults \in Nat

(* A connection is active only with the consent of both humans: x's human  *)
(* requested, approved or unblocked y, and so did y's human for x, unless  *)
(* it was unblockConnection at x that made it active. Lost, repeated and   *)
(* overtaken envelopes, crashes and stale files do not change that.        *)
ConsentBehindActive ==
  \A x, y \in Agent : conns[x][y] = "active" =>
    /\ <<x, y>> \in consent
    /\ <<y, x>> \in consent \/ <<x, y>> \in unblocked

(* While no process has ended, a response finds the record of the request  *)
(* it answers, so that handleIncomingResponse does not throw.              *)
ResponseFindsRecord ==
  restarts = 0 =>
    \A x \in Agent :
      /\ up[x]
      /\ \A i \in DOMAIN inq[x] :
           inq[x][i].type = "response" => Known(x, inq[x][i].from)

Quiet == \A x \in Agent : link[x] = <<>> /\ inq[x] = <<>>

(* Opening a connection ends in agreement, however requests, repeated      *)
(* requests, crossing requests and approvals interleave: when nothing is   *)
(* in transit, the peer of an active connection is active as well or has   *)
(* another request to approve.                                             *)
OpenAgreement ==
  (Ops = {"request", "approve"} /\ restarts = 0 /\ faults = 0 /\ Quiet) =>
    \A x, y \in Agent :
      conns[x][y] = "active" => conns[y][x] \in {"active", "pending_inbound"}

=============================================================================
