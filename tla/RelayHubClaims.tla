--------------------------- MODULE RelayHubClaims ---------------------------
(***************************************************************************)
(* What comments and documents of the repository say of the relay and the  *)
(* code does not do. Each definition states one sentence, quoted above it; *)
(* the runs that check them end in a counterexample.                       *)
(***************************************************************************)
EXTENDS RelayHub

(* hub.go:174: "Messages that arrive DURING flush (enqueued by             *)
(* RouteMessage) will be picked up in subsequent FlushBatch calls." A      *)
(* message about to be enqueued because its recipient r was seen flushing  *)
(* eventually leaves the queue, or r disconnects. The flush can make its   *)
(* last FlushBatch call between the two.                                   *)
PickedUp ==
  \A s, r \in Session : \A n \in 1..MaxSent :
    (spc[s] = "enqueue" /\ rcpt[s] = r /\ cur[s].n = n)
      ~> \/ /\ spc[s] # "enqueue"
            /\ \A e \in queue[AddrOf[r]] :
                 ~(e.msg.from = AddrOf[s] /\ e.msg.n = n)
         \/ clients[AddrOf[r]] # r

(* hub.go:169: "If the client disconnects during flush, remaining messages *)
(* stay in bbolt for the next reconnect"; hub.go:254: "Blocked and         *)
(* undeliverable messages are silently dropped." Neither the flush nor     *)
(* RouteMessage comes to harm when the client it sends to disconnects.     *)
(* client.Send panics when the hub has closed the channel meanwhile.       *)
NeverPanics == panicked = "no"

=============================================================================
