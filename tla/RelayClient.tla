---------------------------- MODULE RelayClient ----------------------------
(***************************************************************************)
(* The skill's RelayClient: the handshake of connect(), the heartbeat,     *)
(* reconnection with its attempts, and the two ways to disconnect. Every   *)
(* connect() makes a new WebSocket; the handlers it installs stay attached *)
(* to that socket but act on the fields of the one client, so the events   *)
(* of an old socket are seen by the connection that replaced it.           *)
(*                                                                         *)
(* A step is one event of the JavaScript loop together with the promise    *)
(* continuations it triggers. The relay's end of the sockets is in Login.  *)
(***************************************************************************)
EXTENDS Naturals, Sequences, FiniteSets

CONSTANTS
  MaxSockets,     \* bound: WebSockets the client may open
  MaxAttempts,    \* maxAttempts of the reconnect loop
  AutoReconnect,  \* the constructor's option
  MaxCuts         \* bound: links that break

ASSUME RelayClientAssumption ==
  /\ MaxSockets \in Nat \ {0} /\ MaxAttempts \in Nat \ {0} /\ MaxCuts \in Nat
  /\ AutoReconnect \in BOOLEAN

VARIABLES
  ws,             \* this.ws: the latest socket, 0 before the first
  ready,          \* readyState of each socket ("ending": terminate() called)
  authState,      \* the handshake of the connect() that made the socket
  promise,        \* that connect()'s promise
  authTimer,      \* sockets whose handshake timer is armed
  authenticated,  \* this.authenticated
  heartbeat,      \* this.heartbeatTimer is set
  intervals,      \* heartbeat intervals that are running
  autoReconnect,  \* this.autoReconnect
  attempt,        \* this.reconnectAttempt
  waiting,        \* attemptReconnect() calls in their delay
  byLoop,         \* sockets opened by attemptReconnect()
  gaveUp,         \* disconnectHandler has been called
  leaving,        \* the program's call to disconnect() or disconnectAsync()
  leavingWs,      \* the socket disconnectAsync() waits for, 0 if none
  silenced,       \* history: cleanup() ran outside the close event of ws
  link,           \* "up", "cut", or "closed" by the relay
  toClient,       \* frames under way to the client
  toServer,       \* frames under way to the relay
  cuts

stateVars  == <<ws, ready, authState, promise, authTimer>>
flagVars   == <<authenticated, heartbeat, intervals>>
loopVars   == <<autoReconnect, attempt, waiting, byLoop, gaveUp>>
leaveVars  == <<leaving, leavingWs>>
wireVars   == <<link, toClient, toServer, cuts>>
clientVars == <<stateVars, flagVars, loopVars, leaveVars, silenced, wireVars>>

-----------------------------------------------------------------------------
Socket == 1 .. MaxSockets

ClientInit ==
  /\ ws = 0
  /\ ready = [i \in Socket |-> "none"]
  /\ authState = [i \in Socket |-> "awaiting_challenge"]
  /\ promise = [i \in Socket |-> "none"]
  /\ authTimer = {}
  /\ authenticated = FALSE /\ heartbeat = FALSE /\ intervals = 0
  /\ autoReconnect = AutoReconnect
  /\ attempt = 0 /\ waiting = 0 /\ byLoop = {} /\ gaveUp = FALSE
  /\ leaving = "no" /\ leavingWs = 0 /\ silenced = FALSE
  /\ link = [i \in Socket |-> "up"]
  /\ toClient = [i \in Socket |-> <<>>]
  /\ toServer = [i \in Socket |-> <<>>]
  /\ cuts = 0

-----------------------------------------------------------------------------
(* What the handlers are made of                                           *)

isConnected == authenticated /\ ws # 0 /\ ready[ws] = "open"

(* cleanup(): the interval the handle names is cleared.                    *)
Cleanup ==
  /\ authenticated' = FALSE
  /\ heartbeat' = FALSE
  /\ intervals' = IF heartbeat THEN intervals - 1 ELSE intervals

(* close() and terminate() of the ws library: close() in the middle of the *)
(* upgrade aborts it, and otherwise waits for the peer's close frame.      *)
Closing(i) ==
  [ready EXCEPT ![i] = CASE @ = "open"       -> "closing"
                         [] @ = "connecting" -> "ending"
                         [] OTHER            -> @]
Ending(i) ==
  [ready EXCEPT ![i] = IF @ = "closed" THEN @ ELSE "ending"]

(* connect(): a new socket, its handshake timer and its promise.           *)
Connect(loop) ==
  /\ ws < MaxSockets
  /\ ws' = ws + 1
  /\ ready' = [ready EXCEPT ![ws + 1] = "connecting"]
  /\ promise' = [promise EXCEPT ![ws + 1] = "pending"]
  /\ authTimer' = authTimer \cup {ws + 1}
  /\ byLoop' = IF loop THEN byLoop \cup {ws + 1} ELSE byLoop
  /\ UNCHANGED authState

(* rejectOnce(): if the promise of socket i was pending and a reconnect    *)
(* loop awaited it, the loop counts the attempt and waits again, or gives  *)
(* up after the last.                                                      *)
RejectBug(i) ==
  /\ promise' = [promise EXCEPT ![i] = "rejected"]
  /\ attempt' = IF i \in byLoop THEN attempt + 1 ELSE attempt
  /\ waiting' = IF i \in byLoop THEN waiting + 1 ELSE waiting
  /\ UNCHANGED gaveUp

Reject(i) ==
  LET looping == promise[i] = "pending" /\ i \in byLoop
      again   == looping /\ attempt + 1 < MaxAttempts
  IN  /\ promise' = [promise EXCEPT ![i] = IF @ = "pending" THEN "rejected" ELSE @]
      /\ attempt' = IF looping THEN attempt + 1 ELSE attempt
      /\ waiting' = IF again THEN waiting + 1 ELSE waiting
      /\ gaveUp' = (gaveUp \/ (looping /\ ~again))

-----------------------------------------------------------------------------
(* Calls                                                                   *)

(* The program connects, once: what keeps a connection up is the loop.     *)
Start ==
  /\ ws = 0 /\ leaving = "no"
  /\ Connect(FALSE)
  /\ UNCHANGED <<flagVars, autoReconnect, attempt, waiting, gaveUp, leaveVars,
                 silenced, wireVars>>

(* disconnect(): the socket is left to close, the flags are reset at once. *)
Disconnect ==
  /\ leaving = "no" /\ ws # 0
  /\ leaving' = "left" /\ UNCHANGED leavingWs
  /\ autoReconnect' = FALSE
  /\ ready' = Closing(ws)
  /\ Cleanup
  /\ UNCHANGED <<ws, authState, promise, authTimer, attempt, waiting, byLoop,
                 gaveUp, silenced, wireVars>>

(* disconnectAsync(): the flags are reset by the close event, or by its    *)
(* timer of three seconds, which terminates the socket.                    *)
DisconnectAsync ==
  /\ leaving = "no" /\ ws # 0
  /\ leaving' = "async" /\ leavingWs' = ws
  /\ autoReconnect' = FALSE
  /\ ready' = Closing(ws)
  /\ UNCHANGED <<ws, authState, promise, authTimer, flagVars, attempt, waiting,
                 byLoop, gaveUp, silenced, wireVars>>

Left(i) ==
  IF i = leavingWs THEN leaving' = "left" /\ leavingWs' = 0
                   ELSE UNCHANGED leaveVars

LeaveTimeout(i) ==
  /\ i = leavingWs /\ Left(i)
  /\ ready' = Ending(i)
  /\ toClient' = [toClient EXCEPT ![i] = <<>>]
  /\ Cleanup
  /\ UNCHANGED <<ws, authState, promise, authTimer, loopVars, silenced, link,
                 toServer, cuts>>

-----------------------------------------------------------------------------
(* Events of the sockets                                                   *)

(* A frame is read while the socket is open or still closing.              *)
Frame(i, f) ==
  /\ ready[i] \in {"open", "closing"} /\ link[i] # "cut"
  /\ toClient[i] # <<>> /\ Head(toClient[i]) = f
  /\ toClient' = [toClient EXCEPT ![i] = Tail(@)]

(* respondToAuthChallenge: the answer is written to this.ws.               *)
OnChallengeBug(i) ==
  /\ Frame(i, "challenge") /\ authState[i] = "awaiting_challenge"
  /\ authState' = [authState EXCEPT ![i] = "awaiting_result"]
  /\ toServer' = IF ready[ws] = "open"
                 THEN [toServer EXCEPT ![ws] = Append(@, [nonce |-> i])]
                 ELSE toServer
  /\ authTimer' = authTimer \ {i}
  /\ UNCHANGED <<ws, ready, promise, flagVars, loopVars, leaveVars, silenced,
                 link, cuts>>

OnChallenge(i) ==
  /\ Frame(i, "challenge") /\ authState[i] = "awaiting_challenge"
  /\ authState' = [authState EXCEPT ![i] = "awaiting_result"]
  /\ toServer' = IF ready[ws] = "open"
                 THEN [toServer EXCEPT ![ws] = Append(@, [nonce |-> i])]
                 ELSE toServer
  /\ UNCHANGED <<ws, ready, promise, authTimer, flagVars, loopVars, leaveVars,
                 silenced, link, cuts>>

(* The relay's verdict: success starts the heartbeat and, when a reconnect *)
(* loop awaits the connection, ends it.                                    *)
OnAccepted(i) ==
  /\ Frame(i, "ok") /\ authState[i] = "awaiting_result"
  /\ authState' = [authState EXCEPT ![i] = "done"]
  /\ authTimer' = authTimer \ {i}
  /\ authenticated' = TRUE
  /\ heartbeat' = TRUE /\ intervals' = intervals + 1
  /\ promise' = [promise EXCEPT ![i] = IF @ = "pending" THEN "resolved" ELSE @]
  /\ attempt' = IF promise[i] = "pending" /\ i \in byLoop THEN 0 ELSE attempt
  /\ UNCHANGED <<ws, ready, autoReconnect, waiting, byLoop, gaveUp, leaveVars,
                 silenced, link, toServer, cuts>>

(* Failure, or any frame the handshake does not expect.                    *)
OnRefused(i) ==
  /\ authState[i] # "done"
  /\ \E f \in {"fail", "env"} : Frame(i, f)
  /\ authTimer' = authTimer \ {i}
  /\ ready' = Closing(ws)
  /\ Reject(i)
  /\ UNCHANGED <<ws, authState, flagVars, autoReconnect, byLoop, leaveVars,
                 silenced, link, toServer, cuts>>

(* Frames of the session: the handlers they go to are in the other modules.*)
OnEnvelope(i) ==
  /\ Frame(i, "env") /\ authState[i] = "done"
  /\ UNCHANGED <<stateVars, flagVars, loopVars, leaveVars, silenced, link,
                 toServer, cuts>>

(* The handshake's timer terminates this.ws.                               *)
AuthTimeout(i) ==
  /\ i \in authTimer
  /\ authTimer' = authTimer \ {i}
  /\ ready' = Ending(ws)
  /\ toClient' = [toClient EXCEPT ![ws] = <<>>]
  /\ Reject(i)
  /\ UNCHANGED <<ws, authState, flagVars, autoReconnect, byLoop, leaveVars,
                 silenced, link, toServer, cuts>>

(* When the library reports the end of a socket: the upgrade failed, the   *)
(* peer closed and all it had sent is read, the link broke, or this side   *)
(* closed it (a close() may wait for the peer much longer than the delay   *)
(* of a reconnect attempt).                                                *)
Ends(i) ==
  \/ ready[i] \in {"closing", "ending"}
  \/ ready[i] = "connecting" /\ link[i] # "up"
  \/ ready[i] = "open" /\ \/ link[i] = "cut"
                          \/ link[i] = "closed" /\ toClient[i] = <<>>

(* The close event (and the error event before it, which rejects as well): *)
(* cleanup() of the client, then a rejection or a reconnect loop.          *)
OnCloseBug(i) ==
  /\ Ends(i)
  /\ ready' = [ready EXCEPT ![i] = "closed"]
  /\ authTimer' = authTimer \ {i}
  /\ toClient' = [toClient EXCEPT ![i] = <<>>]
  /\ Cleanup
  /\ Reject(i)
  /\ Left(i)
  /\ silenced' = (silenced \/ (authenticated /\ i # ws))
  /\ UNCHANGED <<ws, authState, autoReconnect, byLoop, link, toServer, cuts>>

OnClose(i) ==
  /\ Ends(i)
  /\ ready' = [ready EXCEPT ![i] = "closed"]
  /\ authTimer' = authTimer \ {i}
  /\ toClient' = [toClient EXCEPT ![i] = <<>>]
  /\ Cleanup
  /\ IF authState[i] # "done"
     THEN Reject(i)
     ELSE /\ waiting' = IF authenticated /\ autoReconnect
                        THEN waiting + 1 ELSE waiting
          /\ UNCHANGED <<promise, attempt, gaveUp>>
  /\ Left(i)
  /\ silenced' = (silenced \/ (authenticated /\ i # ws))
  /\ UNCHANGED <<ws, authState, autoReconnect, byLoop, link, toServer, cuts>>

-----------------------------------------------------------------------------
(* Timers                                                                  *)

(* The heartbeat finds the socket no longer open, or no pong for too long  *)
(* on a link that is cut, and resets the flags before the close event.     *)
HeartbeatEnds ==
  /\ intervals > 0
  /\ \/ ready[ws] # "open" /\ UNCHANGED <<ready, toClient>>
     \/ /\ ready[ws] = "open" /\ link[ws] = "cut"
        /\ ready' = Ending(ws)
        /\ toClient' = [toClient EXCEPT ![ws] = <<>>]
  /\ Cleanup
  /\ silenced' = (silenced \/ authenticated)
  /\ UNCHANGED <<ws, authState, promise, authTimer, loopVars, leaveVars, link,
                 toServer, cuts>>

(* The delay of an attempt is over (a terminated socket has reported its   *)
(* end by then): attemptReconnect() connects, whatever disconnect() said   *)
(* in the meantime.                                                        *)
Reconnect ==
  /\ waiting > 0
  /\ \A i \in Socket : ready[i] # "ending"
  /\ waiting' = waiting - 1
  /\ Connect(TRUE)
  /\ UNCHANGED <<flagVars, autoReconnect, attempt, gaveUp, leaveVars, silenced,
                 wireVars>>

(* The network: a link breaks, and what is under way is lost.              *)
Cut(i) ==
  /\ cuts < MaxCuts /\ ready[i] \in {"connecting", "open", "closing"}
  /\ link[i] = "up"
  /\ cuts' = cuts + 1
  /\ link' = [link EXCEPT ![i] = "cut"]
  /\ toClient' = [toClient EXCEPT ![i] = <<>>]
  /\ toServer' = [toServer EXCEPT ![i] = <<>>]
  /\ UNCHANGED <<stateVars, flagVars, loopVars, leaveVars, silenced>>

SocketEvent(i) ==
  \/ OnChallenge(i) \/ OnAccepted(i) \/ OnRefused(i) \/ OnEnvelope(i)
  \/ AuthTimeout(i) \/ OnClose(i) \/ LeaveTimeout(i)

ClientNext ==
  \/ Start \/ Disconnect \/ DisconnectAsync
  \/ HeartbeatEnds \/ Reconnect
  \/ \E i \in Socket : SocketEvent(i) \/ Cut(i)

-----------------------------------------------------------------------------
(* Properties                                                              *)

(* attemptReconnect() calls that have not returned.                        *)
Loops == waiting + Cardinality({i \in byLoop : promise[i] = "pending"})

(* However the events of old and new sockets interleave, one heartbeat     *)
(* interval runs while the client is authenticated and none otherwise: a   *)
(* leaked interval would go on pinging, and terminating, whatever socket   *)
(* is current. And there is never more than one reconnect loop, and none   *)
(* while a connect() of somebody else is pending or the client is          *)
(* connected: two loops would open two sockets for one address and knock   *)
(* each other off the relay.                                               *)
OneOfEach ==
  /\ intervals = (IF authenticated THEN 1 ELSE 0)
  /\ Loops + Cardinality({i \in Socket \ byLoop : promise[i] = "pending"}) <= 1
  /\ isConnected => Loops = 0

(* With the reconnect option, a connection whose flag was reset is being   *)
(* reconnected, or the program was told (the disconnect handler), unless   *)
(* the program left or cleanup() was run by something else than the close  *)
(* event of the current socket (the heartbeat, or a socket given up).      *)
LossIsHandled ==
  \/ ~autoReconnect \/ leaving # "no" \/ silenced \/ gaveUp
  \/ \A i \in Socket : authState[i] # "done"
  \/ authenticated \/ Loops > 0

(* Every connect() ends, whatever the relay does or fails to do: as long   *)
(* as its promise is pending the handshake's timer is armed, and the timer *)
(* rejects it. A disconnectAsync() that still waits has its own timer, so  *)
(* this is about the paths that clear the handshake's without settling.    *)
ConnectIsTimed == \A i \in Socket : promise[i] = "pending" => i \in authTimer
=============================================================================
