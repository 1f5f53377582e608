----------------------------- MODULE AuditChain -----------------------------
(***************************************************************************)
(* The hash chain of the activity feed: what record() stores and what      *)
(* pinch-audit-verify accepts. SHA-256 is taken to be injective: the hash  *)
(* of an entry is the tuple of the fields it covers. <<>> is the empty     *)
(* string, the prev_hash of a first entry and the entry_hash of the rows   *)
(* written before the chain existed.                                       *)
(***************************************************************************)
EXTENDS Naturals, FiniteSets

HashBug(e) == <<e.id, e.at, e.prev>>

(* computeEntryHash: id, timestamp, what happened (actor, action, address  *)
(* and message hash) and the previous hash.                                *)
Hash(e) == <<e.id, e.at, e.what, e.prev>>

(* The row e as record() inserts it after one with the hash prev.          *)
Linked(e, prev) ==
  [id |-> e.id, at |-> e.at, what |-> e.what, prev |-> prev,
   hash |-> Hash([e EXCEPT !.prev = prev])]

(* The order both read the table in: created_at, then id.                  *)
Before(d, e) == d.at < e.at \/ (d.at = e.at /\ d.id < e.id)

Last(rows) == {e \in rows : \A d \in rows : d = e \/ Before(d, e)}

LastHashBug(log) ==
  LET first == {e \in log : \A d \in log : d = e \/ Before(e, d)}
  IN  IF log = {} THEN <<>> ELSE (CHOOSE e \in first : TRUE).hash

(* The entry_hash of the newest row, hashed or not.                        *)
LastHash(log) == IF log = {} THEN <<>> ELSE (CHOOSE e \in Last(log) : TRUE).hash

Chained(log) == {e \in log : e.hash # <<>>}

(* --tail n: the rows with fewer than n rows after them.                   *)
Newest(log, n) ==
  {e \in Chained(log) : Cardinality({d \in Chained(log) : Before(e, d)}) < n}

(* The walk over the entries read. Each is compared with the one before it *)
(* in the order; the first has none, and must be the first of the chain    *)
(* when all entries were read.                                             *)
Walk(entries, all) ==
  \A e \in entries :
    LET earlier == {d \in entries : Before(d, e)}
    IN  /\ e.hash = Hash(e)
        /\ IF earlier = {} THEN all => e.prev = <<>>
           ELSE \E d \in Last(earlier) : e.prev = d.hash

Verify(log) == Walk(Chained(log), TRUE)
VerifyTail(log, n) == Walk(Newest(log, n), FALSE)
=============================================================================
