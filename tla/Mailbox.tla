------------------------------ MODULE Mailbox -------------------------------
(***************************************************************************)
(* What the relay promises the agents, without goroutines, routing table,  *)
(* flags or locks: a message is in the hands of the session that sent it,  *)
(* in the durable mailbox of its addressee, in the buffer of one of the    *)
(* addressee's sessions, or received. RelayHub implements this             *)
(* specification (module RelayHubMailbox).                                 *)
(***************************************************************************)
EXTENDS Naturals, Sequences

CONSTANTS Addr, Session, AddrOf, Message

VARIABLES
  taken,     \* the message each session has sent and the relay not disposed of
  stored,    \* the mailbox of each address: entries with key, msg, expired
  fetched,   \* entries read from the mailbox for each session
  offered,   \* keys of the entries each session has been offered
  buffered,  \* messages in memory on their way to each session
  received   \* what each address has received, with the session it came on

mailVars == <<taken, stored, fetched, offered, buffered, received>>

Init ==
  /\ taken = [s \in Session |-> {}]
  /\ stored = [a \in Addr |-> {}]
  /\ fetched = [s \in Session |-> {}]
  /\ offered = [s \in Session |-> {}]
  /\ buffered = [s \in Session |-> {}]
  /\ received = [a \in Addr |-> <<>>]

(* The relay takes one message at a time from a session. Any message will  *)
(* do, so the one that is taken is named by the state that results.        *)
Take(s) ==
  /\ taken[s] = {}
  /\ \E m \in taken'[s] :
       /\ m \in Message /\ m.from = AddrOf[s]
       /\ taken' = [taken EXCEPT ![s] = {m}]
  /\ UNCHANGED <<stored, fetched, offered, buffered, received>>

(* It may refuse or drop a message it has not stored.                      *)
GiveUp(s) ==
  /\ taken' = [taken EXCEPT ![s] = {}]
  /\ UNCHANGED <<stored, fetched, offered, buffered, received>>

(* It stores the message in the mailbox of the addressee, behind all the   *)
(* entries that are there.                                                 *)
Keep(s) ==
  /\ \E m \in taken[s] :
       \E e \in stored'[m.to] :
         /\ e.msg = m /\ ~e.expired
         /\ \A d \in stored[m.to] : d.key < e.key
         /\ stored' = [stored EXCEPT ![m.to] = @ \cup {e}]
  /\ taken' = [taken EXCEPT ![s] = {}]
  /\ UNCHANGED <<fetched, offered, buffered, received>>

(* Or it passes the message on to a session of the addressee.              *)
Pass(s) ==
  /\ \E m \in taken[s], r \in Session :
       /\ AddrOf[r] = m.to
       /\ buffered' = [buffered EXCEPT ![r] = @ \cup {m}]
  /\ taken' = [taken EXCEPT ![s] = {}]
  /\ UNCHANGED <<stored, fetched, offered, received>>

Fetch(s) ==
  /\ \E E \in SUBSET {e \in stored[AddrOf[s]] : ~e.expired} :
       fetched' = [fetched EXCEPT ![s] = E]
  /\ UNCHANGED <<taken, stored, offered, buffered, received>>

(* A full buffer takes nothing: the entry counts as offered all the same.  *)
Offer(s) ==
  /\ \E e \in fetched[s] :
       /\ offered' = [offered EXCEPT ![s] = @ \cup {e.key}]
       /\ \/ buffered' = [buffered EXCEPT ![s] = @ \cup {e.msg}]
          \/ UNCHANGED buffered
  /\ UNCHANGED <<taken, stored, fetched, received>>

(* Only an entry that has been offered is discarded.                       *)
Discard(s) ==
  /\ \E e \in fetched[s] :
       /\ e.key \in offered[s]
       /\ fetched' = [fetched EXCEPT ![s] = @ \ {e}]
       /\ \/ stored' = [stored EXCEPT ![AddrOf[s]] = {d \in @ : d.key # e.key}]
          \/ UNCHANGED stored
  /\ UNCHANGED <<taken, offered, buffered, received>>

(* The buffer may hold the message once more, from another route.          *)
Deliver(s) ==
  /\ \E m \in buffered[s] :
       /\ received' = [received EXCEPT
            ![AddrOf[s]] = Append(@, [sess |-> s, msg |-> m])]
       /\ \/ buffered' = [buffered EXCEPT ![s] = @ \ {m}]
          \/ UNCHANGED buffered
  /\ UNCHANGED <<taken, stored, fetched, offered>>

(* A message in memory is lost with its connection.                        *)
Lose(s) ==
  /\ \E m \in buffered[s] : buffered' = [buffered EXCEPT ![s] = @ \ {m}]
  /\ UNCHANGED <<taken, stored, fetched, offered, received>>

Close(S) ==
  /\ buffered' = [s \in Session |-> IF s \in S THEN {} ELSE buffered[s]]
  /\ UNCHANGED <<taken, stored, fetched, offered, received>>

(* An entry of a mailbox passes its time to live; the expired entries are  *)
(* swept.                                                                  *)
Age(a) ==
  /\ \E e \in stored[a] :
       stored' = [stored EXCEPT
         ![a] = (@ \ {e}) \cup {[e EXCEPT !.expired = TRUE]}]
  /\ UNCHANGED <<taken, fetched, offered, buffered, received>>

Expunge ==
  /\ stored' = [a \in Addr |-> {e \in stored[a] : ~e.expired}]
  /\ UNCHANGED <<taken, fetched, offered, buffered, received>>

(* The process ends: the mailboxes are all that is left.                   *)
Crash ==
  /\ taken' = [s \in Session |-> {}]
  /\ fetched' = [s \in Session |-> {}]
  /\ buffered' = [s \in Session |-> {}]
  /\ UNCHANGED <<stored, offered, received>>

Next ==
  \/ \E s \in Session :
       \/ Take(s) \/ GiveUp(s) \/ Keep(s) \/ Pass(s) \/ Fetch(s) \/ Offer(s)
       \/ Discard(s) \/ Deliver(s) \/ Lose(s)
  \/ \E S \in SUBSET Session : Close(S)
  \/ \E a \in Addr : Age(a)
  \/ Expunge \/ Crash

Spec == Init /\ [][Next]_mailVars

=============================================================================
