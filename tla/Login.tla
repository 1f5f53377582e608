------------------------------- MODULE Login -------------------------------
(***************************************************************************)
(* An agent logs in at the relay: its RelayClient on one side; wsHandler   *)
(* with auth.Authenticate, the registry of approved keys and the hub's     *)
(* table on the other. The client leaves and comes back, links break, the  *)
(* relay dies and restarts, and both sides time out on their own.          *)
(*                                                                         *)
(* The signature check is taken to accept exactly an answer to the nonce   *)
(* of the same connection; the hub's side of Register and Unregister, and  *)
(* other agents, are in RelayHub.                                          *)
(***************************************************************************)
EXTENDS RelayClient, KeyRegistry

CONSTANTS
  Me,          \* the client's public key
  MaxFrames    \* bound: frames under way on a socket

ASSUME LoginAssumption ==
  Me \in Key /\ MaxFrames \in Nat \ {0}

VARIABLES
  srv,      \* how far wsHandler got with each socket
  session   \* the hub's table: the socket registered for the address, or 0

serverVars == <<srv, session>>
vars == <<clientVars, regVars, serverVars>>

-----------------------------------------------------------------------------
Init ==
  /\ ClientInit /\ RegInit
  /\ srv = [i \in Socket |-> "none"]
  /\ session = 0

(* Frames written to a link that is cut, or that the client no longer      *)
(* reads, go nowhere.                                                      *)
Reads(i) == link[i] = "up" /\ ready[i] \in {"open", "closing"}
WriteFrame(i, f) ==
  toClient' = IF Reads(i) THEN [toClient EXCEPT ![i] = Append(@, f)]
                          ELSE toClient

(* The client is seen to be gone: its end closed, or the link broke.       *)
Gone(i) == link[i] = "cut" \/ ready[i] \in {"closing", "ending", "closed"}

(* sendAuthResult(false) and Close, the end of every refusal.              *)
Refuse(i) ==
  /\ srv' = [srv EXCEPT ![i] = "over"]
  /\ WriteFrame(i, "fail")
  /\ link' = [link EXCEPT ![i] = IF @ = "up" THEN "closed" ELSE @]
  /\ UNCHANGED session

clientSide == <<ws, authState, promise, authTimer, flagVars, loopVars,
                leaveVars, silenced, cuts>>

(* The upgrade of the HTTP request, and the challenge with its nonce.      *)
Upgrade(i) ==
  /\ running /\ ready[i] = "connecting" /\ link[i] = "up"
  /\ srv[i] = "none"
  /\ ready' = [ready EXCEPT ![i] = "open"]
  /\ srv' = [srv EXCEPT ![i] = "challenged"]
  /\ toClient' = [toClient EXCEPT ![i] = Append(@, "challenge")]
  /\ UNCHANGED <<clientSide, link, toServer, session, regVars>>

(* The origin is not allowed, Accept fails, or nobody listens.             *)
UpgradeFails(i) ==
  /\ ready[i] = "connecting" /\ link[i] = "up"
  /\ link' = [link EXCEPT ![i] = "closed"]
  /\ UNCHANGED <<clientSide, ready, toClient, toServer, serverVars, regVars>>

(* Authenticate: the answer to this connection's nonce, before the         *)
(* challenge expires. A wrong, late or missing answer is refused.          *)
Authenticate(i) ==
  /\ running /\ srv[i] = "challenged"
  /\ \/ /\ toServer[i] # <<>> /\ Head(toServer[i]).nonce = i
        /\ srv' = [srv EXCEPT ![i] = "proved"]
        /\ UNCHANGED <<session, toClient, link>>
     \/ Refuse(i)
  /\ toServer' = [toServer EXCEPT ![i] = <<>>]
  /\ UNCHANGED <<clientSide, ready, regVars>>

(* The locked-mode test of wsHandler.                                      *)
CheckKey(i) ==
  /\ running /\ srv[i] = "proved"
  /\ IF LockedMode /\ ~IsApproved(Me)
     THEN Refuse(i)
     ELSE /\ srv' = [srv EXCEPT ![i] = "admitted"]
          /\ UNCHANGED <<session, toClient, link>>
  /\ UNCHANGED <<clientSide, ready, toServer, regVars>>

(* Hub.Register: refused while the address has a session.                  *)
RegisterClient(i) ==
  /\ running /\ srv[i] = "admitted"
  /\ IF session # 0
     THEN Refuse(i)
     ELSE /\ srv' = [srv EXCEPT ![i] = "registered"]
          /\ session' = i
          /\ UNCHANGED <<toClient, link>>
  /\ UNCHANGED <<clientSide, ready, toServer, regVars>>

(* sendAuthResult(true), before the pumps start; a write that fails undoes *)
(* the registration.                                                       *)
SendResultBug(i) ==
  /\ running /\ srv[i] = "registered"
  /\ \/ /\ srv' = [srv EXCEPT ![i] = "live"]
        /\ WriteFrame(i, "ok")
        /\ UNCHANGED <<session, link>>
     \/ /\ Gone(i)
        /\ srv' = [srv EXCEPT ![i] = "over"]
        /\ link' = [link EXCEPT ![i] = IF @ = "up" THEN "closed" ELSE @]
        /\ UNCHANGED <<session, toClient>>
  /\ UNCHANGED <<clientSide, ready, toServer, regVars>>

SendResult(i) ==
  /\ running /\ srv[i] = "registered"
  /\ \/ /\ srv' = [srv EXCEPT ![i] = "live"]
        /\ WriteFrame(i, "ok")
        /\ UNCHANGED <<session, link>>
     \/ /\ Gone(i)
        /\ srv' = [srv EXCEPT ![i] = "over"]
        /\ session' = 0
        /\ link' = [link EXCEPT ![i] = IF @ = "up" THEN "closed" ELSE @]
        /\ UNCHANGED toClient
  /\ UNCHANGED <<clientSide, ready, toServer, regVars>>

(* WritePump: frames of the session.                                       *)
PumpFrame(i) ==
  /\ running /\ srv[i] = "live" /\ Len(toClient[i]) < MaxFrames
  /\ WriteFrame(i, "env")
  /\ UNCHANGED <<clientSide, ready, link, toServer, srv, session, regVars>>

(* ReadPump or HeartbeatLoop notices the end and unregisters.              *)
SessionEnds(i) ==
  /\ running /\ srv[i] = "live" /\ Gone(i)
  /\ srv' = [srv EXCEPT ![i] = "over"]
  /\ session' = 0
  /\ link' = [link EXCEPT ![i] = IF @ = "up" THEN "closed" ELSE @]
  /\ UNCHANGED <<clientSide, ready, toClient, toServer, regVars>>

(* The relay dies: its sockets close, its table is gone, its file is not.  *)
Stop ==
  /\ StopRegistry
  /\ srv' = [i \in Socket |-> IF srv[i] = "none" THEN "none" ELSE "over"]
  /\ session' = 0
  /\ link' = [i \in Socket |->
                IF srv[i] # "none" /\ link[i] = "up" THEN "closed" ELSE link[i]]
  /\ UNCHANGED <<clientSide, ready, toClient, toServer>>

Boot ==
  /\ BootRegistry
  /\ UNCHANGED <<clientVars, serverVars>>

ServerStep(i) ==
  \/ Upgrade(i) \/ UpgradeFails(i) \/ Authenticate(i) \/ CheckKey(i)
  \/ RegisterClient(i) \/ SendResult(i) \/ PumpFrame(i) \/ SessionEnds(i)

Next ==
  \/ ClientNext /\ UNCHANGED <<regVars, serverVars>>
  \/ RegNext /\ UNCHANGED <<clientVars, serverVars>>
  \/ \E i \in Socket : ServerStep(i)
  \/ Stop \/ Boot

Spec == Init /\ [][Next]_vars

-----------------------------------------------------------------------------
(* Properties                                                              *)

(* Both sides agree on a login: the client counts as authenticated only on *)
(* the connection it holds now, that connection was challenged and         *)
(* accepted by the relay, and in locked mode its key had been claimed by a *)
(* human; the relay keeps at most one connection of the address, and only  *)
(* one that passed the same tests. Frames of the session never overtake    *)
(* the verdict, which the client would take for a failed handshake.        *)
LoginAgreed ==
  /\ authenticated => /\ authState[ws] = "done"
                      /\ srv[ws] \in {"live", "over"}
  /\ LockedMode => \A i \in Socket :
        srv[i] \in {"admitted", "registered", "live"} \/ authState[i] = "done"
          => IsApproved(Me)
  /\ \A i \in Socket : srv[i] \in {"registered", "live"} <=> session = i
  /\ \A i \in Socket : authState[i] # "done" /\ toClient[i] # <<>>
                         => Head(toClient[i]) # "env"
=============================================================================
