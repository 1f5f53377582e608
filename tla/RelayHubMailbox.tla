-------------------------- MODULE RelayHubMailbox ---------------------------
(***************************************************************************)
(* RelayHub implements Mailbox: the messages RouteMessage works on are     *)
(* taken, the bbolt buckets are the mailboxes, a flush's batch is what it  *)
(* fetched, and the messages among the frames of Client.send are buffered. *)
(***************************************************************************)
EXTENDS RelayHub

(* The messages among the frames of a buffer.                              *)
Messages(buf) == {m \in {buf[i] : i \in DOMAIN buf} : m.kind = "msg"}

Taken == [s \in Session |-> IF cur[s].kind = "msg" THEN {cur[s]} ELSE {}]
Buffered == [s \in Session |-> Messages(send[s])]

M == INSTANCE Mailbox WITH
       taken <- Taken, stored <- queue, fetched <- batch, offered <- handed,
       buffered <- Buffered, received <- inbox

(* However the goroutines interleave, the relay is a mailbox: a message    *)
(* goes to its addressee and nobody else, it is stored or passed on, never *)
(* both, what an agent receives came from a buffer of its own session, and *)
(* a stored message leaves its mailbox only after it was offered to its    *)
(* addressee or when it has expired, whatever crashes, closes or fails.    *)
RelayIsMailbox == M!Spec

=============================================================================
