--------------------------- MODULE DeliveryProofs ---------------------------
(***************************************************************************)
(* A message shown as delivered is in the recipient's database, numbers    *)
(* are not used twice, nothing vanishes unnoticed, and a flush that was    *)
(* waited for is complete: for any agents and messages, any number of      *)
(* processes that end, links that are cut, and envelopes that are dropped, *)
(* repeated or expired.                                                    *)
(***************************************************************************)
EXTENDS Delivery, TLAPS

-----------------------------------------------------------------------------
(* Inductive invariants                                                    *)

RowMap == [Agent -> [Msg -> {"none", "sent", "delivered"}]]

(* The messages that are in their recipient's database.                    *)
Stored == {m \in Msg : rows[To(m)][m] # "none"}

(* When the messages in s are stored: what may leave an agent, what may be *)
(* queued for x, and what a session of x may be sent.                      *)
Sent(s) == {e \in Envelope : e.type = "confirm" => e.msg \in s}
Due(x, s) == {e \in Sent(s) : Dest(e) = x}
Statuses == [type : {"status"}, count : Nat]
Frames(x, s) == Due(x, s) \cup Statuses \cup {Notice}

HoldInv ==
  \A x \in Agent : /\ handling[x] \subseteq Stored
                   /\ verifying[x] \subseteq {m \in Stored : From(m) = x}

RelayInv ==
  \A x \in Agent : /\ out[x] \in Seq(Sent(Stored))
                   /\ queue[x] \in Seq(Due(x, Stored))
                   /\ wire[x] \in Seq(Frames(x, Stored))

IsMap(f) == f = [x \in Agent |-> f[x]]

Shape ==
  /\ IsMap(up) /\ IsMap(conn) /\ IsMap(handling) /\ IsMap(verifying)
  /\ IsMap(remaining) /\ IsMap(waiter) /\ IsMap(out)
  /\ IsMap(queue) /\ IsMap(wire) /\ IsMap(announced) /\ IsMap(overtaken)
  /\ rows \in RowMap

(* A number below nextSeq has been used.                                   *)
SeqInv ==
  /\ seq \in [Msg -> Nat] /\ nextSeq \in [Agent -> Nat]
  /\ \A m \in Msg : seq[m] < nextSeq[From(m)]

(* Only an open session has frames.                                        *)
ConnInv == \A x \in Agent : ~conn[x] => wire[x] = <<>>

(* Between processes nothing is counted and nobody waits; the QueueStatus  *)
(* is the first frame of a session, and only the first.                    *)
CountInv ==
  \A x \in Agent :
    /\ conn[x] => up[x]
    /\ ~up[x] => remaining[x] = -1 /\ waiter[x] = "idle" /\ ~overtaken[x]
    /\ remaining[x] \in Int
    /\ waiter[x] = "waiting" => remaining[x] > 0
    /\ \A i \in DOMAIN wire[x] :
         wire[x][i].type = "status" => i = 1 /\ remaining[x] = -1

(* e is among the next r frames of a session with w sent and q queued.     *)
Within(w, q, e, r) ==
  \/ \E i \in DOMAIN w : w[i] = e /\ i <= r
  \/ \E j \in DOMAIN q : q[j] = e /\ Len(w) + j <= r

(* The frames that count until the announced backlog has come.             *)
Left(w, r) == IF w # <<>> /\ Head(w).type = "status" THEN 1 + Head(w).count ELSE r

Here(x, e) == e.msg \in lost \/ rows[x][e.msg] # "none"

Pending(x, e) ==
  /\ waiter[x] # "resolved"
  /\ conn[x] /\ waiter[x] # "timedout" =>
       Within(wire[x], queue[x], e, Left(wire[x], remaining[x]))

Flushed(x) ==
  /\ announced[x] \subseteq Envelope
  /\ up[x] /\ ~overtaken[x] =>
       \A e \in announced[x] : e.type = "message" => Here(x, e) \/ Pending(x, e)

FlushInv == \A x \in Agent : Flushed(x)

IInv ==
  /\ Shape /\ HoldInv /\ RelayInv /\ ConnInv /\ CountInv
  /\ DeliveredIsStored /\ SeqInv /\ SequenceUnique /\ NothingVanishes /\ FlushInv

-----------------------------------------------------------------------------
(* Lemmas about maps and sequences                                         *)

Sets(g, f, x, v) == g = [f EXCEPT ![x] = v]

Updated(g, f, x, v) ==
  IsMap(g) /\ g[x] = v /\ \A z \in Agent : z # x => g[z] = f[z]

LEMMA MapUpdate ==
  ASSUME NEW f, IsMap(f), NEW x \in Agent, NEW v, NEW g, Sets(g, f, x, v)
  PROVE  Updated(g, f, x, v)
BY DEF IsMap, Sets, Updated

LEMMA SeqGrows ==
  ASSUME NEW S, NEW T, S \subseteq T, NEW s \in Seq(S)
  PROVE  s \in Seq(T)
OBVIOUS

LEMMA SeqSteps ==
  ASSUME NEW S, NEW s \in Seq(S)
  PROVE  /\ \A e \in S : Append(s, e) \in Seq(S)
         /\ s # <<>> => Head(s) \in S /\ Tail(s) \in Seq(S)
         /\ Len(s) \in Nat
OBVIOUS

(* Whom the envelopes of a sequence are about.                             *)
IsEnvelope(e) == e.type \in {"message", "confirm"}

LEMMA AboutIs ==
  ASSUME NEW s, NEW m
  PROVE  m \in About(s) <=> \E i \in DOMAIN s : IsEnvelope(s[i]) /\ s[i].msg = m
<1>1. m \in About(s) <=> \E e \in Range(s) : IsEnvelope(e) /\ e.msg = m
  BY SMT DEF About, IsEnvelope
<1>2. \A e : e \in Range(s) <=> \E i \in DOMAIN s : s[i] = e
  BY SMT DEF Range
<1> QED BY <1>1, <1>2, Zenon

LEMMA AboutAppend ==
  ASSUME NEW S, NEW s \in Seq(S), NEW e \in S
  PROVE  /\ About(s) \subseteq About(Append(s, e))
         /\ IsEnvelope(e) => e.msg \in About(Append(s, e))
<1> DEFINE t == Append(s, e)
<1>1. /\ \A i \in DOMAIN s : i \in DOMAIN t /\ t[i] = s[i]
      /\ Len(s) + 1 \in DOMAIN t /\ t[Len(s) + 1] = e
  OBVIOUS
<1> HIDE DEF t
<1>2. \A m \in About(s) : m \in About(t)
  BY <1>1, AboutIs, SMT
<1>3. IsEnvelope(e) => e.msg \in About(t)
  BY <1>1, AboutIs, Zenon
<1> QED BY <1>2, <1>3, Zenon DEF t

LEMMA AboutTail ==
  ASSUME NEW S, NEW s \in Seq(S), s # <<>>, NEW m \in About(s)
  PROVE  m \in About(Tail(s)) \/ (IsEnvelope(Head(s)) /\ Head(s).msg = m)
<1> DEFINE t == Tail(s)
<1>1. \A i \in DOMAIN s : \/ i = 1
                          \/ i - 1 \in DOMAIN t /\ t[i - 1] = s[i]
  OBVIOUS
<1>2. s[1] = Head(s)
  OBVIOUS
<1> HIDE DEF t
<1>3. PICK i \in DOMAIN s : IsEnvelope(s[i]) /\ s[i].msg = m
  BY AboutIs, Zenon
<1>4. CASE i = 1
  BY <1>2, <1>3, <1>4, Zenon
<1>5. CASE i - 1 \in DOMAIN t /\ t[i - 1] = s[i]
  <2>1. m \in About(t)
    BY <1>3, <1>5, AboutIs, Zenon
  <2> QED BY <2>1, Zenon DEF t
<1> QED BY <1>1, <1>4, <1>5, Zenon

LEMMA AboutEmpty == About(<<>>) = {}
<1>1. \A m : m \notin About(<<>>)
  BY AboutIs, SMT
<1> QED BY <1>1, Zenon

(* Positions among the frames to come.                                     *)
LEMMA WithinPositive ==
  ASSUME NEW S, NEW T, NEW w \in Seq(S), NEW q \in Seq(T), NEW e, NEW r \in Int,
         Within(w, q, e, r)
  PROVE  r > 0
BY DEF Within

LEMMA WithinAppend ==
  ASSUME NEW S, NEW T, NEW w \in Seq(S), NEW q \in Seq(T), NEW e, NEW r \in Int,
         NEW f, Within(w, q, e, r)
  PROVE  /\ Within(w, Append(q, f), e, r)
         /\ q = <<>> => Within(Append(w, f), q, e, r)
<1>1. CASE \E i \in DOMAIN w : w[i] = e /\ i <= r
  BY <1>1 DEF Within
<1>2. CASE \E j \in DOMAIN q : q[j] = e /\ Len(w) + j <= r
  BY <1>2 DEF Within
<1> QED BY <1>1, <1>2, Zenon DEF Within

LEMMA WithinFlush ==
  ASSUME NEW S, NEW T, NEW w \in Seq(S), NEW q \in Seq(T), NEW e, NEW r \in Int,
         q # <<>>, Within(w, q, e, r)
  PROVE  /\ Within(Append(w, Head(q)), Tail(q), e, r)
         /\ ~(Len(q) > 1) => Within(Append(w, Head(q)), q, e, r)
         /\ e = Head(q) \/ Within(w, Tail(q), e, r)
<1> DEFINE v == Append(w, Head(q))
           t == Tail(q)
<1>0. /\ \A i \in DOMAIN w : i \in DOMAIN v /\ v[i] = w[i]
      /\ Len(w) + 1 \in DOMAIN v /\ v[Len(w) + 1] = Head(q) /\ q[1] = Head(q)
      /\ Len(v) = Len(w) + 1 /\ Len(w) \in Nat /\ Len(q) \in Nat
      /\ \A j \in DOMAIN q : /\ j \in Nat
                             /\ j = 1 \/ (j - 1 \in DOMAIN t /\ t[j - 1] = q[j])
                             /\ ~(Len(q) > 1) => j = 1
  OBVIOUS
<1> HIDE DEF v, t
<1>1. CASE \E i \in DOMAIN w : w[i] = e /\ i <= r
  <2>1. (\E i \in DOMAIN v : v[i] = e /\ i <= r)
    BY <1>0, <1>1, Zenon
  <2> QED BY <1>1, <2>1, Zenon DEF Within, v, t
<1>2. CASE \E j \in DOMAIN q : q[j] = e /\ Len(w) + j <= r
  <2>1. PICK j \in DOMAIN q : q[j] = e /\ Len(w) + j <= r
    BY <1>2
  <2>2. CASE j = 1
    <3>1. Len(w) + 1 <= r /\ e = Head(q)
      BY <1>0, <2>1, <2>2, Zenon
    <3>2. \E i \in DOMAIN v : v[i] = e /\ i <= r
      BY <1>0, <3>1, Zenon
    <3> QED BY <3>1, <3>2, Zenon DEF Within, v, t
  <2>3. CASE j # 1
    <3>1. j - 1 \in DOMAIN t /\ t[j - 1] = e /\ Len(q) > 1
      BY <1>0, <2>1, <2>3, Zenon
    <3>2. Len(v) + (j - 1) <= r /\ Len(w) + (j - 1) <= r
      BY <1>0, <2>1
    <3>3. \E i \in DOMAIN t : t[i] = e /\ Len(v) + i <= r
      BY <3>1, <3>2, Zenon
    <3>4. \E i \in DOMAIN t : t[i] = e /\ Len(w) + i <= r
      BY <3>1, <3>2, Zenon
    <3> QED BY <3>1, <3>3, <3>4, Zenon DEF Within, v, t
  <2> QED BY <2>2, <2>3, Zenon
<1> QED BY <1>1, <1>2, Zenon DEF Within

LEMMA WithinReceive ==
  ASSUME NEW S, NEW T, NEW w \in Seq(S), NEW q \in Seq(T), NEW e, NEW r \in Int,
         w # <<>>, Within(w, q, e, r)
  PROVE  e = Head(w) \/ Within(Tail(w), q, e, r - 1)
<1> DEFINE t == Tail(w)
<1>0. /\ \A i \in DOMAIN w : /\ i \in Nat
                             /\ i = 1 \/ (i - 1 \in DOMAIN t /\ t[i - 1] = w[i])
      /\ w[1] = Head(w) /\ Len(t) = Len(w) - 1 /\ Len(w) \in Nat
      /\ \A j \in DOMAIN q : j \in Nat
  OBVIOUS
<1> HIDE DEF t
<1>1. CASE \E i \in DOMAIN w : w[i] = e /\ i <= r
  <2>1. PICK i \in DOMAIN w : w[i] = e /\ i <= r
    BY <1>1
  <2>2. i - 1 <= r - 1
    BY <1>0, <2>1
  <2> QED BY <1>0, <2>1, <2>2, Zenon DEF Within, t
<1>2. CASE \E j \in DOMAIN q : q[j] = e /\ Len(w) + j <= r
  <2>1. PICK j \in DOMAIN q : q[j] = e /\ Len(w) + j <= r
    BY <1>2
  <2>2. Len(t) + j <= r - 1
    BY <1>0, <2>1
  <2> QED BY <2>1, <2>2, Zenon DEF Within, t
<1> QED BY <1>1, <1>2, Zenon DEF Within

-----------------------------------------------------------------------------
(* What the steps do                                                       *)

Env(t, m) == [type |-> t, msg |-> m]

(* saveMessage and updateState set one row.                                *)
Put(y, m, st) ==
  /\ rows' \in RowMap /\ rows'[y][m] = st
  /\ \A z \in Agent, n \in Msg : <<z, n>> # <<y, m>> => rows'[z][n] = rows[z][n]

KeepDB == rows' = rows /\ seq' = seq /\ nextSeq' = nextSeq
KeepProc == up' = up /\ conn' = conn
KeepHeld == handling' = handling /\ verifying' = verifying
KeepFlush == remaining' = remaining /\ waiter' = waiter
KeepRelay == out' = out /\ queue' = queue /\ wire' = wire
KeepPast == announced' = announced /\ overtaken' = overtaken /\ lost' = lost

Ends(x) ==
  /\ KeepDB /\ out' = out /\ queue' = queue
  /\ Updated(up', up, x, FALSE) /\ Updated(conn', conn, x, FALSE)
  /\ Updated(handling', handling, x, {}) /\ Updated(verifying', verifying, x, {})
  /\ Updated(wire', wire, x, <<>>) /\ Updated(remaining', remaining, x, -1)
  /\ Updated(waiter', waiter, x, "idle")
  /\ Updated(announced', announced, x, {}) /\ Updated(overtaken', overtaken, x, FALSE)
  /\ lost' = lost \cup handling[x] \cup verifying[x] \cup About(wire[x])

Boots(x) ==
  /\ KeepDB /\ KeepHeld /\ KeepFlush /\ out' = out /\ queue' = queue
  /\ overtaken' = overtaken /\ lost' = lost /\ ~up[x]
  /\ Updated(up', up, x, TRUE) /\ Updated(conn', conn, x, TRUE)
  /\ Updated(announced', announced, x, Range(queue[x]))
  /\ \/ queue[x] = <<>> /\ Updated(wire', wire, x, <<>>)
     \/ queue[x] # <<>> /\ Updated(wire', wire, x, <<Status(Len(queue[x]))>>)

Cuts(x) ==
  /\ KeepDB /\ KeepHeld /\ KeepFlush /\ out' = out /\ queue' = queue
  /\ up' = up /\ announced' = announced /\ overtaken' = overtaken
  /\ conn[x] /\ Updated(conn', conn, x, FALSE) /\ Updated(wire', wire, x, <<>>)
  /\ lost' = lost \cup About(wire[x])

Writes(x, m) ==
  /\ KeepProc /\ KeepHeld /\ KeepFlush /\ queue' = queue /\ wire' = wire
  /\ announced' = announced /\ overtaken' = overtaken
  /\ From(m) = x /\ rows[x][m] = "none" /\ Put(x, m, "sent")
  /\ seq' = [seq EXCEPT ![m] = nextSeq[x]]
  /\ nextSeq' = [nextSeq EXCEPT ![x] = @ + 1]
  /\ \/ Updated(out', out, x, Append(out[x], Env("message", m))) /\ lost' = lost
     \/ out' = out /\ lost' = lost \cup {m}

Confirms(x, m) ==
  /\ KeepProc /\ KeepFlush /\ KeepRelay /\ KeepPast
  /\ handling' = handling /\ seq' = seq /\ nextSeq' = nextSeq
  /\ m \in verifying[x] /\ Updated(verifying', verifying, x, verifying[x] \ {m})
  /\ Put(x, m, "delivered")

Takes(x) ==
  /\ KeepProc /\ KeepPast /\ out' = out /\ queue' = queue
  /\ seq' = seq /\ nextSeq' = nextSeq
  /\ conn[x] /\ wire[x] # <<>> /\ Updated(wire', wire, x, Tail(wire[x]))
  /\ LET e == Head(wire[x])
         n == IF remaining[x] > 0 THEN remaining[x] - 1 ELSE remaining[x]
     IN  /\ Updated(remaining', remaining, x, IF e.type = "status" THEN e.count ELSE n)
         /\ Updated(waiter', waiter, x,
              IF waiter[x] = "waiting" /\ n = 0 THEN "resolved" ELSE waiter[x])
         /\ IF e.type = "message"
            THEN rows[x][e.msg] = "none" /\ Put(x, e.msg, "delivered")
            ELSE rows' = rows
         /\ Updated(handling', handling, x,
              IF e.type = "message" THEN handling[x] \cup {e.msg} ELSE handling[x])
         /\ Updated(verifying', verifying, x,
              IF e.type = "confirm" THEN verifying[x] \cup {e.msg} ELSE verifying[x])

Answers(x, m) ==
  /\ KeepDB /\ KeepProc /\ KeepFlush /\ KeepPast
  /\ verifying' = verifying /\ queue' = queue /\ wire' = wire
  /\ m \in handling[x] /\ Updated(handling', handling, x, handling[x] \ {m})
  /\ Updated(out', out, x, Append(out[x], Env("confirm", m)))

Waits(x) ==
  /\ KeepDB /\ KeepProc /\ KeepHeld /\ KeepRelay /\ KeepPast
  /\ \/ /\ waiter[x] = "waiting" /\ Updated(remaining', remaining, x, 0)
        /\ Updated(waiter', waiter, x, "timedout")
     \/ /\ up[x] \/ waiter[x] # "idle"
        /\ waiter[x] \in {"idle", "grace"} /\ remaining' = remaining
        /\ \E v \in {"grace", "returned", "waiting"} :
             /\ Updated(waiter', waiter, x, v)
             /\ v = "waiting" => ~(remaining[x] <= 0)

Routes(x, y) ==
  /\ KeepDB /\ KeepProc /\ KeepHeld /\ KeepFlush
  /\ announced' = announced /\ lost' = lost
  /\ out[x] # <<>> /\ Updated(out', out, x, Tail(out[x])) /\ y = Dest(Head(out[x]))
  /\ \/ /\ conn[y] /\ queue' = queue
        /\ Updated(wire', wire, y, Append(wire[y], Head(out[x])))
        /\ Updated(overtaken', overtaken, y, overtaken[y] \/ queue[y] # <<>>)
     \/ /\ wire' = wire /\ overtaken' = overtaken
        /\ Updated(queue', queue, y, Append(queue[y], Head(out[x])))

Drops(x) ==
  /\ KeepDB /\ KeepProc /\ KeepHeld /\ KeepFlush
  /\ announced' = announced /\ queue' = queue
  /\ out[x] # <<>> /\ Updated(out', out, x, Tail(out[x]))
  /\ lost' = lost \cup {Head(out[x]).msg}
  /\ \/ wire' = wire /\ overtaken' = overtaken
     \/ /\ conn[x] /\ Updated(wire', wire, x, Append(wire[x], Notice))
        /\ Updated(overtaken', overtaken, x, overtaken[x] \/ queue[x] # <<>>)

Flushes(x) ==
  /\ KeepDB /\ KeepProc /\ KeepHeld /\ KeepFlush
  /\ announced' = announced /\ lost' = lost /\ out' = out
  /\ conn[x] /\ queue[x] # <<>>
  /\ Updated(wire', wire, x, Append(wire[x], Head(queue[x])))
  /\ \/ Updated(queue', queue, x, Tail(queue[x])) /\ overtaken' = overtaken
     \/ /\ queue' = queue
        /\ Updated(overtaken', overtaken, x, overtaken[x] \/ Len(queue[x]) > 1)

Expires(x) ==
  /\ KeepDB /\ KeepProc /\ KeepHeld /\ KeepFlush
  /\ announced' = announced /\ overtaken' = overtaken /\ out' = out /\ wire' = wire
  /\ queue[x] # <<>> /\ Updated(queue', queue, x, Tail(queue[x]))
  /\ lost' = lost \cup {Head(queue[x]).msg}

Keeps ==
  KeepDB /\ KeepProc /\ KeepHeld /\ KeepFlush /\ KeepRelay /\ KeepPast

LEMMA RowPut ==
  ASSUME rows \in RowMap, NEW y \in Agent, NEW m \in Msg,
         NEW st \in {"sent", "delivered"}, rows' = [rows EXCEPT ![y][m] = st]
  PROVE  Put(y, m, st)
<1>1. rows' \in RowMap
  BY DEF RowMap
<1>2. rows'[y][m] = st
  BY DEF RowMap
<1>3. ASSUME NEW z \in Agent, NEW n \in Msg, <<z, n>> # <<y, m>>
      PROVE  rows'[z][n] = rows[z][n]
  BY <1>3 DEF RowMap
<1> QED BY <1>1, <1>2, <1>3, Zenon DEF Put

USE DEF KeepDB, KeepProc, KeepHeld, KeepFlush, KeepRelay, KeepPast

LEMMA GoneSteps ==
  ASSUME Shape, NEW x \in Agent, Gone(x)
  PROVE  Ends(x)
<1>1. /\ Sets(up', up, x, FALSE) /\ Sets(conn', conn, x, FALSE)
      /\ Sets(handling', handling, x, {}) /\ Sets(verifying', verifying, x, {})
      /\ Sets(wire', wire, x, <<>>) /\ Sets(remaining', remaining, x, -1)
      /\ Sets(waiter', waiter, x, "idle")
      /\ Sets(announced', announced, x, {}) /\ Sets(overtaken', overtaken, x, FALSE)
  BY Zenon DEF Gone, Sets
<1>2. /\ KeepDB /\ out' = out /\ queue' = queue
      /\ lost' = lost \cup handling[x] \cup verifying[x] \cup About(wire[x])
  BY Zenon DEF Gone, dbVars
<1> QED BY <1>1, <1>2, MapUpdate, Zenon DEF Shape, Ends

LEMMA BootSteps ==
  ASSUME Shape, NEW x \in Agent, Boot(x)
  PROVE  Boots(x)
<1>1. /\ Sets(up', up, x, TRUE) /\ Sets(conn', conn, x, TRUE)
      /\ Sets(announced', announced, x, Range(queue[x]))
      /\ \/ queue[x] = <<>> /\ Sets(wire', wire, x, <<>>)
         \/ queue[x] # <<>> /\ Sets(wire', wire, x, <<Status(Len(queue[x]))>>)
  BY Zenon DEF Boot, Sets
<1>2. /\ KeepDB /\ KeepHeld /\ KeepFlush /\ out' = out /\ queue' = queue
      /\ overtaken' = overtaken /\ lost' = lost /\ ~up[x]
  BY Zenon DEF Boot, dbVars, flushVars
<1> QED BY <1>1, <1>2, MapUpdate, Zenon DEF Shape, Boots

LEMMA CutSteps ==
  ASSUME Shape, NEW x \in Agent, CutLink(x)
  PROVE  Cuts(x)
<1>1. Sets(conn', conn, x, FALSE) /\ Sets(wire', wire, x, <<>>)
  BY Zenon DEF CutLink, Sets
<1> QED BY <1>1, MapUpdate, Zenon DEF Shape, Cuts, CutLink, dbVars, flushVars

LEMMA SendSteps ==
  ASSUME Shape, NEW x \in Agent, NEW m \in Msg, SendMessage(x, m)
  PROVE  Writes(x, m)
<1>1. /\ \/ Sets(out', out, x, Append(out[x], Env("message", m))) /\ lost' = lost
         \/ out' = out /\ lost' = lost \cup {m}
      /\ From(m) = x /\ rows[x][m] = "none"
      /\ rows' = [rows EXCEPT ![x][m] = "sent"]
      /\ seq' = [seq EXCEPT ![m] = nextSeq[x]]
      /\ nextSeq' = [nextSeq EXCEPT ![x] = @ + 1]
  BY Zenon DEF SendMessage, Sets, SaveMessage, NextSequence, Env
<1>2. /\ KeepProc /\ KeepHeld /\ KeepFlush /\ queue' = queue /\ wire' = wire
      /\ announced' = announced /\ overtaken' = overtaken
  BY Zenon DEF SendMessage, procVars, flushVars
<1>3. Put(x, m, "sent")
  BY <1>1, RowPut, Zenon DEF Shape
<1>4. \/ Updated(out', out, x, Append(out[x], Env("message", m))) /\ lost' = lost
      \/ out' = out /\ lost' = lost \cup {m}
  BY <1>1, MapUpdate, Zenon DEF Shape
<1> QED BY <1>1, <1>2, <1>3, <1>4, Zenon DEF Writes

LEMMA ConfirmSteps ==
  ASSUME Shape, NEW x \in Agent, NEW m \in Msg, ConfirmDelivery(x, m)
  PROVE  Confirms(x, m)
<1>1. /\ Sets(verifying', verifying, x, verifying[x] \ {m})
      /\ rows' = [rows EXCEPT ![x][m] = "delivered"]
  BY Zenon DEF ConfirmDelivery, Sets
<1>2. /\ KeepProc /\ KeepFlush /\ KeepRelay /\ KeepPast /\ m \in verifying[x]
      /\ handling' = handling /\ seq' = seq /\ nextSeq' = nextSeq
  BY Zenon DEF ConfirmDelivery, flushVars, relayVars, pastVars
<1>3. Put(x, m, "delivered")
  BY <1>1, RowPut, Zenon DEF Shape
<1>4. Updated(verifying', verifying, x, verifying[x] \ {m})
  BY <1>1, MapUpdate, Zenon DEF Shape
<1> QED BY <1>2, <1>3, <1>4, Zenon DEF Confirms

LEMMA ReceiveSteps ==
  ASSUME Shape, RelayInv, NEW x \in Agent, Receive(x)
  PROVE  Takes(x)
<1> DEFINE e == Head(wire[x])
           n == IF remaining[x] > 0 THEN remaining[x] - 1 ELSE remaining[x]
           r == IF e.type = "status" THEN e.count ELSE n
           v == IF waiter[x] = "waiting" /\ n = 0 THEN "resolved" ELSE waiter[x]
           h == IF e.type = "message" THEN handling[x] \cup {e.msg} ELSE handling[x]
           c == IF e.type = "confirm" THEN verifying[x] \cup {e.msg} ELSE verifying[x]
<1>1. /\ Sets(wire', wire, x, Tail(wire[x])) /\ Sets(remaining', remaining, x, r)
      /\ Sets(waiter', waiter, x, v)
      /\ Sets(handling', handling, x, h) /\ Sets(verifying', verifying, x, c)
  BY Zenon DEF Receive, CountFlush, Sets
<1>2. /\ IF e.type = "message" THEN SaveMessage(x, e.msg, "delivered")
         ELSE rows' = rows
      /\ KeepProc /\ KeepPast /\ out' = out /\ queue' = queue
      /\ seq' = seq /\ nextSeq' = nextSeq /\ conn[x] /\ wire[x] # <<>>
  BY Zenon DEF Receive, pastVars
<1>3. e.type = "message" => e.msg \in Msg
  <2>1. e \in Frames(x, Stored)
    BY <1>2, SeqSteps, Zenon DEF RelayInv
  <2> QED BY <2>1 DEF Frames, Due, Sent, Envelope, Statuses, Notice
<1> HIDE DEF e, r, v, h, c
<1>4. IF e.type = "message"
      THEN rows[x][e.msg] = "none" /\ Put(x, e.msg, "delivered")
      ELSE rows' = rows
  BY <1>2, <1>3, RowPut, Zenon DEF Shape, SaveMessage
<1>5. /\ Updated(wire', wire, x, Tail(wire[x])) /\ Updated(remaining', remaining, x, r)
      /\ Updated(waiter', waiter, x, v)
      /\ Updated(handling', handling, x, h) /\ Updated(verifying', verifying, x, c)
  BY <1>1, MapUpdate, Zenon DEF Shape
<1> QED BY <1>2, <1>4, <1>5, Zenon DEF Takes, e, r, v, h, c

LEMMA AnswerSteps ==
  ASSUME Shape, NEW x \in Agent, NEW m \in Msg, SendConfirmation(x, m)
  PROVE  Answers(x, m)
<1>1. /\ Sets(handling', handling, x, handling[x] \ {m})
      /\ Sets(out', out, x, Append(out[x], Env("confirm", m)))
  BY Zenon DEF SendConfirmation, Sets, Env
<1>2. /\ KeepDB /\ KeepProc /\ KeepFlush /\ KeepPast
      /\ verifying' = verifying /\ queue' = queue /\ wire' = wire /\ m \in handling[x]
  BY Zenon DEF SendConfirmation, dbVars, flushVars, pastVars
<1> QED BY <1>1, <1>2, MapUpdate, Zenon DEF Shape, Answers

LEMMA WaitSteps ==
  ASSUME Shape, NEW x \in Agent, WaitForFlush(x) \/ GraceOver(x) \/ FlushTimeout(x)
  PROVE  Waits(x)
<1>1. /\ KeepDB /\ KeepProc /\ KeepHeld /\ KeepRelay /\ KeepPast
      /\ \/ /\ waiter[x] = "waiting" /\ Sets(remaining', remaining, x, 0)
            /\ Sets(waiter', waiter, x, "timedout")
         \/ /\ up[x] \/ waiter[x] # "idle"
            /\ waiter[x] \in {"idle", "grace"} /\ remaining' = remaining
            /\ \E v \in {"grace", "returned", "waiting"} :
                 /\ Sets(waiter', waiter, x, v)
                 /\ v = "waiting" => ~(remaining[x] <= 0)
  <2>1. /\ KeepDB /\ KeepProc /\ KeepHeld /\ KeepRelay /\ KeepPast
    BY Zenon DEF WaitForFlush, GraceOver, FlushTimeout, procVars, dbVars, relayVars,
      pastVars
  <2>2. CASE FlushTimeout(x)
    BY <2>1, <2>2, Zenon DEF FlushTimeout, Sets
  <2>3. CASE WaitForFlush(x)
    BY <2>1, <2>3, Zenon DEF WaitForFlush, Await, Sets
  <2>4. CASE GraceOver(x)
    BY <2>1, <2>4, Zenon DEF GraceOver, Await, Sets
  <2> QED BY <2>2, <2>3, <2>4, Zenon
<1> QED BY <1>1, MapUpdate, Zenon DEF Shape, Waits

(* The relay knows the addressee of everything that is sent.               *)
LEMMA Addressed ==
  ASSUME RelayInv, NEW x \in Agent, out[x] # <<>>
  PROVE  LET e == Head(out[x])
         IN  /\ e \in Sent(Stored) /\ Dest(e) \in Agent /\ e.msg \in Msg
             /\ e \in Due(Dest(e), Stored)
<1> DEFINE e == Head(out[x])
<1>1. e \in Sent(Stored)
  BY SeqSteps, Zenon DEF RelayInv
<1>2. e.msg \in Msg
  BY <1>1 DEF Sent, Envelope
<1> HIDE DEF e
<1>3. Dest(e) \in Agent
  BY <1>2, DeliveryAssumption, Zenon DEF Dest
<1> QED BY <1>1, <1>2, <1>3, Zenon DEF Due, e

LEMMA RouteSteps ==
  ASSUME Shape, RelayInv, NEW x \in Agent, Route(x)
  PROVE  \E y \in Agent : Routes(x, y)
<1> DEFINE e == Head(out[x])
           y == Dest(e)
<1>1. /\ out[x] # <<>> /\ Sets(out', out, x, Tail(out[x]))
      /\ \/ /\ conn[y] /\ queue' = queue
            /\ Sets(wire', wire, y, Append(wire[y], e))
            /\ Sets(overtaken', overtaken, y, overtaken[y] \/ queue[y] # <<>>)
         \/ /\ wire' = wire /\ overtaken' = overtaken
            /\ Sets(queue', queue, y, Append(queue[y], e))
  BY Zenon DEF Route, Sets
<1>2. /\ KeepDB /\ KeepProc /\ KeepHeld /\ KeepFlush
      /\ announced' = announced /\ lost' = lost
  BY Zenon DEF Route, dbVars, procVars, flushVars
<1>3. y \in Agent
  BY <1>1, Addressed, Zenon
<1> HIDE DEF y
<1>4. /\ out[x] # <<>> /\ Updated(out', out, x, Tail(out[x]))
      /\ \/ /\ conn[y] /\ queue' = queue
            /\ Updated(wire', wire, y, Append(wire[y], e))
            /\ Updated(overtaken', overtaken, y, overtaken[y] \/ queue[y] # <<>>)
         \/ /\ wire' = wire /\ overtaken' = overtaken
            /\ Updated(queue', queue, y, Append(queue[y], e))
  BY <1>1, <1>3, MapUpdate, Zenon DEF Shape
<1>5. y = Dest(e)
  BY DEF y
<1> QED BY <1>2, <1>3, <1>4, <1>5, Zenon DEF Routes

LEMMA DropSteps ==
  ASSUME Shape, NEW x \in Agent, RouteDrops(x)
  PROVE  Drops(x)
<1>1. /\ out[x] # <<>> /\ Sets(out', out, x, Tail(out[x]))
      /\ lost' = lost \cup {Head(out[x]).msg}
      /\ \/ wire' = wire /\ overtaken' = overtaken
         \/ /\ conn[x] /\ Sets(wire', wire, x, Append(wire[x], Notice))
            /\ Sets(overtaken', overtaken, x, overtaken[x] \/ queue[x] # <<>>)
  BY Zenon DEF RouteDrops, Sets
<1>2. /\ KeepDB /\ KeepProc /\ KeepHeld /\ KeepFlush
      /\ announced' = announced /\ queue' = queue
  BY Zenon DEF RouteDrops, dbVars, procVars, flushVars
<1> QED BY <1>1, <1>2, MapUpdate, Zenon DEF Shape, Drops

LEMMA FlushSteps ==
  ASSUME Shape, NEW x \in Agent, Flush(x)
  PROVE  Flushes(x)
<1>1. /\ conn[x] /\ queue[x] # <<>>
      /\ Sets(wire', wire, x, Append(wire[x], Head(queue[x])))
      /\ \/ Sets(queue', queue, x, Tail(queue[x])) /\ overtaken' = overtaken
         \/ /\ queue' = queue
            /\ Sets(overtaken', overtaken, x, overtaken[x] \/ Len(queue[x]) > 1)
  BY Zenon DEF Flush, Sets
<1>2. /\ KeepDB /\ KeepProc /\ KeepHeld /\ KeepFlush
      /\ announced' = announced /\ lost' = lost /\ out' = out
  BY Zenon DEF Flush, dbVars, procVars, flushVars
<1> QED BY <1>1, <1>2, MapUpdate, Zenon DEF Shape, Flushes

LEMMA ExpireSteps ==
  ASSUME Shape, NEW x \in Agent, Expire(x)
  PROVE  Expires(x)
<1>1. Sets(queue', queue, x, Tail(queue[x])) /\ queue[x] # <<>>
  BY Zenon DEF Expire, Sets
<1>2. /\ KeepDB /\ KeepProc /\ KeepHeld /\ KeepFlush
      /\ announced' = announced /\ overtaken' = overtaken /\ out' = out /\ wire' = wire
      /\ lost' = lost \cup {Head(queue[x]).msg}
  BY Zenon DEF Expire, dbVars, procVars, flushVars
<1> QED BY <1>1, <1>2, MapUpdate, Zenon DEF Shape, Expires

(* A step in terms of what it does.                                        *)
Effect(x) ==
  \/ Ends(x) \/ Boots(x) \/ Cuts(x) \/ Takes(x) \/ Waits(x)
  \/ Drops(x) \/ Flushes(x) \/ Expires(x)
  \/ \E m \in Msg : Writes(x, m) \/ Confirms(x, m) \/ Answers(x, m)
  \/ \E y \in Agent : Routes(x, y)

LEMMA NextEffect ==
  ASSUME Shape, RelayInv, [Next]_vars
  PROVE  Keeps \/ \E x \in Agent : Effect(x)
<1>1. CASE UNCHANGED vars
  BY <1>1, Zenon DEF vars, procVars, dbVars, flushVars, relayVars, pastVars, Keeps
<1>2. ASSUME NEW x \in Agent, NEW m \in Msg,
             \/ SendMessage(x, m) \/ ConfirmDelivery(x, m) \/ SendConfirmation(x, m)
      PROVE  Effect(x)
  BY <1>2, SendSteps, ConfirmSteps, AnswerSteps, Zenon DEF Effect
<1>3. ASSUME NEW x \in Agent,
             \/ Exit(x) \/ ReceiveAgain(x) \/ ConfirmationFails(x)
      PROVE  Effect(x)
  BY <1>3, GoneSteps, Zenon DEF Exit, ReceiveAgain, ConfirmationFails, Effect
<1>4. ASSUME NEW x \in Agent,
             \/ Boot(x) \/ CutLink(x) \/ Receive(x) \/ WaitForFlush(x)
             \/ GraceOver(x) \/ FlushTimeout(x)
      PROVE  Effect(x)
  BY <1>4, BootSteps, CutSteps, ReceiveSteps, WaitSteps, Zenon DEF Effect
<1>5. ASSUME NEW x \in Agent,
             Route(x) \/ RouteDrops(x) \/ Flush(x) \/ Expire(x)
      PROVE  Effect(x)
  BY <1>5, RouteSteps, DropSteps, FlushSteps, ExpireSteps, Zenon DEF Effect
<1> QED BY <1>1, <1>2, <1>3, <1>4, <1>5, Zenon DEF Next, Step

LEMMA NextShape ==
  ASSUME Shape, Keeps \/ \E x \in Agent : Effect(x)
  PROVE  Shape'
<1>1. CASE Keeps
  BY <1>1, Zenon DEF Shape, Keeps
<1>2. ASSUME NEW x \in Agent, Ends(x) \/ Boots(x) \/ Cuts(x)
      PROVE  Shape'
  BY <1>2, Zenon DEF Shape, Ends, Boots, Cuts, Updated
<1>3. ASSUME NEW x \in Agent, Takes(x)
      PROVE  Shape'
  <2>1. /\ KeepProc /\ KeepPast /\ out' = out /\ queue' = queue /\ rows' \in RowMap
    BY <1>3, Zenon DEF Takes, Put, Shape
  <2>2. /\ IsMap(wire') /\ IsMap(remaining') /\ IsMap(waiter') /\ IsMap(handling')
        /\ IsMap(verifying')
    BY <1>3, Zenon DEF Takes, Updated
  <2> QED BY <2>1, <2>2, Zenon DEF Shape
<1>4. ASSUME NEW x \in Agent, Waits(x) \/ Drops(x) \/ Flushes(x) \/ Expires(x)
      PROVE  Shape'
  BY <1>4, Zenon DEF Shape, Waits, Drops, Flushes, Expires, Updated
<1>5. ASSUME NEW x \in Agent, NEW m \in Msg,
             Writes(x, m) \/ Confirms(x, m) \/ Answers(x, m)
      PROVE  Shape'
  BY <1>5, Zenon DEF Shape, Writes, Confirms, Answers, Updated, Put
<1>6. ASSUME NEW x \in Agent, NEW y \in Agent, Routes(x, y)
      PROVE  Shape'
  BY <1>6, Zenon DEF Shape, Routes, Updated
<1> QED BY <1>1, <1>2, <1>3, <1>4, <1>5, <1>6, Zenon DEF Effect

-----------------------------------------------------------------------------
(* Sequence numbers                                                        *)

LEMMA NextNumbers ==
  ASSUME SeqInv, SequenceUnique, Keeps \/ \E x \in Agent : Effect(x)
  PROVE  SeqInv' /\ SequenceUnique'
<1>1. CASE seq' = seq /\ nextSeq' = nextSeq
  BY <1>1, Zenon DEF SeqInv, SequenceUnique
<1>2. ASSUME NEW x \in Agent, NEW m \in Msg, From(m) = x,
             seq' = [seq EXCEPT ![m] = nextSeq[x]],
             nextSeq' = [nextSeq EXCEPT ![x] = @ + 1]
      PROVE  SeqInv' /\ SequenceUnique'
  <2>1. /\ seq' \in [Msg -> Nat] /\ nextSeq' \in [Agent -> Nat]
        /\ seq'[m] = nextSeq[x] /\ nextSeq'[x] = nextSeq[x] + 1
        /\ \A n \in Msg : n # m => seq'[n] = seq[n]
        /\ \A y \in Agent : y # x => nextSeq'[y] = nextSeq[y]
    BY <1>2 DEF SeqInv
  <2>2. ASSUME NEW n \in Msg
        PROVE  seq'[n] < nextSeq'[From(n)]
    BY <1>2, <2>1, DeliveryAssumption DEF SeqInv
  <2>3. ASSUME NEW k \in Msg, NEW n \in Msg, k # n, From(k) = From(n), seq'[k] # 0
        PROVE  seq'[k] # seq'[n]
    <3>1. CASE k # m /\ n # m
      BY <2>1, <2>3, <3>1, Zenon DEF SequenceUnique
    <3>2. CASE k = m
      BY <1>2, <2>1, <2>3, <3>2 DEF SeqInv
    <3>3. CASE n = m
      BY <1>2, <2>1, <2>3, <3>3 DEF SeqInv
    <3> QED BY <3>1, <3>2, <3>3, Zenon
  <2> QED BY <2>1, <2>2, <2>3, Zenon DEF SeqInv, SequenceUnique
<1>3. ASSUME NEW x \in Agent, Ends(x) \/ Boots(x) \/ Cuts(x) \/ Takes(x) \/ Waits(x)
      PROVE  seq' = seq /\ nextSeq' = nextSeq
  BY <1>3, Zenon DEF Ends, Boots, Cuts, Takes, Waits
<1>4. ASSUME NEW x \in Agent, Drops(x) \/ Flushes(x) \/ Expires(x)
      PROVE  seq' = seq /\ nextSeq' = nextSeq
  BY <1>4, Zenon DEF Drops, Flushes, Expires
<1>5. ASSUME NEW x \in Agent, NEW m \in Msg, Confirms(x, m) \/ Answers(x, m)
      PROVE  seq' = seq /\ nextSeq' = nextSeq
  BY <1>5, Zenon DEF Confirms, Answers
<1>6. ASSUME NEW x \in Agent, NEW y \in Agent, Routes(x, y)
      PROVE  seq' = seq /\ nextSeq' = nextSeq
  BY <1>6, Zenon DEF Routes
<1>7. ASSUME NEW x \in Agent, NEW m \in Msg, Writes(x, m)
      PROVE  SeqInv' /\ SequenceUnique'
  BY <1>2, <1>7, Zenon DEF Writes
<1> QED BY <1>1, <1>3, <1>4, <1>5, <1>6, <1>7, Zenon DEF Effect, Keeps

-----------------------------------------------------------------------------
(* What is stored, held and under way                                      *)

(* No row is ever taken back.                                              *)
Grows == \A z \in Agent, n \in Msg : rows[z][n] # "none" => rows'[z][n] # "none"

LEMMA PutGrows ==
  ASSUME NEW y \in Agent, NEW m \in Msg, NEW st, st # "none", Put(y, m, st)
  PROVE  Grows
<1>1. ASSUME NEW z \in Agent, NEW n \in Msg, rows[z][n] # "none"
      PROVE  rows'[z][n] # "none"
  <2>1. CASE z = y /\ n = m
    BY <2>1, Zenon DEF Put
  <2>2. CASE ~(z = y /\ n = m)
    <3>1. <<z, n>> # <<y, m>>
      BY <2>2
    <3> QED BY <1>1, <3>1, Zenon DEF Put
  <2> QED BY <2>1, <2>2, Zenon
<1> QED BY <1>1, Zenon DEF Grows

LEMMA FrameFacts ==
  ASSUME NEW x, NEW s, NEW e \in Frames(x, s)
  PROVE  /\ IsEnvelope(e) => e \in Due(x, s) /\ e \in Envelope /\ e.msg \in Msg
         /\ e.type = "message" => To(e.msg) = x
         /\ e.type = "confirm" => e.msg \in s /\ From(e.msg) = x
         /\ e.type = "status" => e.count \in Nat
<1>1. CASE e \in Due(x, s)
  <2>1. e \in Envelope /\ (e.type = "confirm" => e.msg \in s) /\ Dest(e) = x
    BY <1>1, Zenon DEF Due, Sent
  <2>2. e.type \in {"message", "confirm"} /\ e.msg \in Msg
    BY <2>1 DEF Envelope
  <2>3. e.type # "status" /\ (e.type = "confirm" => e.type # "message")
    BY <2>2
  <2> QED BY <1>1, <2>1, <2>2, <2>3, Zenon DEF Dest
<1>2. CASE e \in Statuses \cup {Notice}
  BY <1>2 DEF Statuses, Notice, IsEnvelope
<1> QED BY <1>1, <1>2, Zenon DEF Frames

(* The head of a session.                                                  *)
LEMMA HeadFrame ==
  ASSUME RelayInv, NEW x \in Agent, wire[x] # <<>>
  PROVE  Head(wire[x]) \in Frames(x, Stored)
BY SeqSteps, Zenon DEF RelayInv

LEMMA NextGrows ==
  ASSUME RelayInv, Keeps \/ \E x \in Agent : Effect(x)
  PROVE  Grows /\ Stored \subseteq Stored'
<1>1. Grows
  <2>1. CASE rows' = rows
    BY <2>1, Zenon DEF Grows
  <2>2. ASSUME NEW x \in Agent, Takes(x), rows' # rows
        PROVE  Grows
    <3>1. Head(wire[x]).type = "message" /\ Put(x, Head(wire[x]).msg, "delivered")
      BY <2>2, Zenon DEF Takes
    <3>2. Head(wire[x]).msg \in Msg
      BY <2>2, <3>1, HeadFrame, FrameFacts, Zenon DEF Takes, IsEnvelope
    <3> QED BY <3>1, <3>2, PutGrows, Zenon
  <2>3. ASSUME NEW x \in Agent, NEW m \in Msg, Writes(x, m) \/ Confirms(x, m)
        PROVE  Grows
    BY <2>3, PutGrows, Zenon DEF Writes, Confirms
  <2> QED BY <2>1, <2>2, <2>3, Zenon DEF Effect, Keeps, Ends, Boots, Cuts, Answers,
    Waits, Routes, Drops, Flushes, Expires
<1>2. \A m \in Msg : To(m) \in Agent
  BY DeliveryAssumption, Zenon
<1> QED BY <1>1, <1>2, Zenon DEF Grows, Stored

LEMMA SetsGrow ==
  ASSUME NEW s, NEW t, s \subseteq t
  PROVE  /\ Sent(s) \subseteq Sent(t)
         /\ \A x : Due(x, s) \subseteq Due(x, t) /\ Frames(x, s) \subseteq Frames(x, t)
<1>1. Sent(s) \subseteq Sent(t)
  BY Zenon DEF Sent
<1>2. \A x : Due(x, s) \subseteq Due(x, t)
  BY <1>1, Zenon DEF Due
<1> QED BY <1>1, <1>2, Zenon DEF Frames

LEMMA NextHeld ==
  ASSUME HoldInv, RelayInv, Keeps \/ \E x \in Agent : Effect(x)
  PROVE  HoldInv'
<1>0. Stored \subseteq Stored'
  BY NextGrows, Zenon
<1>1. CASE handling' = handling /\ verifying' = verifying
  BY <1>0, <1>1, Zenon DEF HoldInv
<1>2. ASSUME NEW x \in Agent, Ends(x)
      PROVE  HoldInv'
  BY <1>0, <1>2, Zenon DEF HoldInv, Ends, Updated
<1>3. ASSUME NEW x \in Agent, Takes(x)
      PROVE  HoldInv'
  <2> DEFINE e == Head(wire[x])
  <2>1. e \in Frames(x, Stored)
    BY <1>3, HeadFrame, Zenon DEF Takes
  <2>2. /\ e.type = "message" => e.msg \in Msg /\ To(e.msg) = x
        /\ e.type = "confirm" => e.msg \in Stored /\ From(e.msg) = x
    BY <2>1, FrameFacts, Zenon DEF IsEnvelope
  <2>3. e.type = "message" => e.msg \in Stored'
    <3>1. e.type = "message" => rows'[x][e.msg] = "delivered"
      BY <1>3, Zenon DEF Takes, Put
    <3> QED BY <2>2, <3>1 DEF Stored
  <2>4. /\ Updated(handling', handling, x,
             IF e.type = "message" THEN handling[x] \cup {e.msg} ELSE handling[x])
        /\ Updated(verifying', verifying, x,
             IF e.type = "confirm" THEN verifying[x] \cup {e.msg} ELSE verifying[x])
    BY <1>3, Zenon DEF Takes
  <2> HIDE DEF e
  <2>5. /\ handling'[x] \subseteq Stored'
        /\ verifying'[x] \subseteq {m \in Stored' : From(m) = x}
    BY <1>0, <2>2, <2>3, <2>4, Zenon DEF Updated, HoldInv
  <2> QED BY <1>0, <2>4, <2>5, Zenon DEF Updated, HoldInv
<1>4. ASSUME NEW x \in Agent, NEW m \in Msg, Confirms(x, m) \/ Answers(x, m)
      PROVE  HoldInv'
  BY <1>0, <1>4, Zenon DEF HoldInv, Confirms, Answers, Updated
<1> QED BY <1>1, <1>2, <1>3, <1>4, Zenon DEF Effect, Keeps, Boots, Cuts, Writes,
  Waits, Routes, Drops, Flushes, Expires

LEMMA NextDelivered ==
  ASSUME HoldInv, RelayInv, DeliveredIsStored, Keeps \/ \E x \in Agent : Effect(x)
  PROVE  DeliveredIsStored'
<1>0. Stored \subseteq Stored'
  BY NextGrows, Zenon
<1>1. \A m \in Msg : rows[From(m)][m] = "delivered" => m \in Stored
  BY Zenon DEF DeliveredIsStored, Stored
<1> SUFFICES ASSUME NEW m \in Msg, rows'[From(m)][m] = "delivered"
             PROVE  m \in Stored'
  BY Zenon DEF DeliveredIsStored, Stored
<1>2. From(m) \in Agent /\ To(m) \in Agent /\ From(m) # To(m)
  BY DeliveryAssumption, Zenon
<1>3. CASE rows' = rows
  BY <1>0, <1>1, <1>3, Zenon
<1>4. ASSUME NEW y \in Agent, NEW n \in Msg, NEW st, Put(y, n, st),
             st = "delivered" => n \in Stored'
      PROVE  m \in Stored'
  <2>1. CASE From(m) = y /\ m = n
    BY <1>4, <2>1, Zenon DEF Put
  <2>2. CASE ~(From(m) = y /\ m = n)
    <3>1. <<From(m), m>> # <<y, n>>
      BY <2>2
    <3> QED BY <1>0, <1>1, <1>2, <1>4, <3>1, Zenon DEF Put
  <2> QED BY <2>1, <2>2, Zenon
<1>5. ASSUME NEW x \in Agent, Takes(x), rows' # rows
      PROVE  m \in Stored'
  <2> DEFINE e == Head(wire[x])
  <2>1. e.type = "message" /\ Put(x, e.msg, "delivered")
    BY <1>5, Zenon DEF Takes
  <2>2. e.msg \in Msg /\ To(e.msg) = x
    BY <1>5, <2>1, HeadFrame, FrameFacts, Zenon DEF Takes, IsEnvelope
  <2>3. e.msg \in Stored'
    <3>1. rows'[x][e.msg] = "delivered"
      BY <2>1, Zenon DEF Put
    <3> QED BY <2>2, <3>1 DEF Stored
  <2> QED BY <1>4, <2>1, <2>2, <2>3, Zenon
<1>6. ASSUME NEW x \in Agent, NEW n \in Msg, Writes(x, n)
      PROVE  m \in Stored'
  BY <1>4, <1>6, Zenon DEF Writes
<1>7. ASSUME NEW x \in Agent, NEW n \in Msg, Confirms(x, n)
      PROVE  m \in Stored'
  <2>1. n \in Stored'
    BY <1>0, <1>7, Zenon DEF Confirms, HoldInv
  <2> QED BY <1>4, <1>7, <2>1, Zenon DEF Confirms
<1> QED BY <1>3, <1>5, <1>6, <1>7, Zenon DEF Effect, Keeps, Ends, Boots, Cuts, Answers,
  Waits, Routes, Drops, Flushes, Expires

LEMMA EnvSent ==
  ASSUME NEW s, NEW m \in Msg, NEW t \in {"message", "confirm"},
         t = "confirm" => m \in s
  PROVE  /\ Env(t, m) \in Sent(s) /\ Env(t, m).msg = m /\ Env(t, m).type = t
         /\ IsEnvelope(Env(t, m))
<1>1. Env(t, m) \in Envelope /\ Env(t, m).msg = m /\ Env(t, m).type = t
  BY DEF Env, Envelope
<1> QED BY <1>1, Zenon DEF Sent, IsEnvelope

LEMMA NextRelay ==
  ASSUME HoldInv, RelayInv, Keeps \/ \E x \in Agent : Effect(x)
  PROVE  RelayInv'
<1> DEFINE O == Seq(Sent(Stored'))
           Q(z) == Seq(Due(z, Stored'))
           W(z) == Seq(Frames(z, Stored'))
<1>0. \A z \in Agent : out[z] \in O /\ queue[z] \in Q(z) /\ wire[z] \in W(z)
  <2>1. /\ Sent(Stored) \subseteq Sent(Stored')
        /\ \A z : /\ Due(z, Stored) \subseteq Due(z, Stored')
                  /\ Frames(z, Stored) \subseteq Frames(z, Stored')
    BY NextGrows, SetsGrow, Zenon
  <2> QED BY <2>1, SeqGrows, Zenon DEF RelayInv
<1> SUFFICES \A z \in Agent : out'[z] \in O /\ queue'[z] \in Q(z) /\ wire'[z] \in W(z)
  BY Zenon DEF RelayInv
<1>1. \A z \in Agent : <<>> \in W(z)
  OBVIOUS
<1>2. /\ \A z \in Agent : \A e \in Sent(Stored') : Append(out[z], e) \in O
      /\ \A z \in Agent : \A e \in Due(z, Stored') : /\ Append(queue[z], e) \in Q(z)
                                                  /\ Append(wire[z], e) \in W(z)
      /\ \A z \in Agent : Append(wire[z], Notice) \in W(z)
  BY <1>0, SeqSteps, Zenon DEF Frames
<1>3. \A z \in Agent : /\ out[z] # <<>> => Tail(out[z]) \in O
                       /\ queue[z] # <<>> => /\ Tail(queue[z]) \in Q(z)
                                             /\ Head(queue[z]) \in Due(z, Stored')
                       /\ wire[z] # <<>> => Tail(wire[z]) \in W(z)
  BY <1>0, SeqSteps, Zenon
<1>4. \A z \in Agent : <<Status(Len(queue[z]))>> \in W(z)
  <2>1. ASSUME NEW z \in Agent
        PROVE  <<Status(Len(queue[z]))>> \in W(z)
    <3>1. Len(queue[z]) \in Nat
      BY <1>0, SeqSteps, Zenon
    <3>2. Status(Len(queue[z])) \in Statuses
      BY <3>1 DEF Status, Statuses
    <3>3. Status(Len(queue[z])) \in Frames(z, Stored')
      BY <3>2, Zenon DEF Frames
    <3> QED BY <3>3
  <2> QED BY <2>1, Zenon
<1>5. \A z \in Agent : out[z] # <<>> =>
        Dest(Head(out[z])) \in Agent /\ Head(out[z]) \in Due(Dest(Head(out[z])), Stored')
  BY Addressed, NextGrows, SetsGrow, Zenon
<1> HIDE DEF O, Q, W
<1>6. CASE KeepRelay
  BY <1>0, <1>6, Zenon
<1>7. ASSUME NEW x \in Agent, Ends(x) \/ Boots(x) \/ Cuts(x) \/ Takes(x)
      PROVE  \A z \in Agent : out'[z] \in O /\ queue'[z] \in Q(z) /\ wire'[z] \in W(z)
  BY <1>0, <1>1, <1>3, <1>4, <1>7, Zenon DEF Ends, Boots, Cuts, Takes, Updated
<1>8. ASSUME NEW x \in Agent, NEW m \in Msg, Writes(x, m) \/ Answers(x, m)
      PROVE  \A z \in Agent : out'[z] \in O /\ queue'[z] \in Q(z) /\ wire'[z] \in W(z)
  <2>1. Env("message", m) \in Sent(Stored')
    BY EnvSent, Zenon
  <2>2. m \in handling[x] => Env("confirm", m) \in Sent(Stored')
    BY EnvSent, NextGrows, Zenon DEF HoldInv
  <2> QED BY <1>0, <1>2, <1>8, <2>1, <2>2, Zenon DEF Writes, Answers, Updated
<1>9. ASSUME NEW x \in Agent, NEW y \in Agent, Routes(x, y)
      PROVE  \A z \in Agent : out'[z] \in O /\ queue'[z] \in Q(z) /\ wire'[z] \in W(z)
  <2>1. /\ Tail(out[x]) \in O /\ Append(wire[y], Head(out[x])) \in W(y)
        /\ Append(queue[y], Head(out[x])) \in Q(y)
    BY <1>2, <1>3, <1>5, <1>9, Zenon DEF Routes
  <2> QED BY <1>0, <1>9, <2>1, Zenon DEF Routes, Updated
<1>10. ASSUME NEW x \in Agent, Drops(x)
       PROVE  \A z \in Agent : out'[z] \in O /\ queue'[z] \in Q(z) /\ wire'[z] \in W(z)
  <2>1. Tail(out[x]) \in O /\ Append(wire[x], Notice) \in W(x)
    BY <1>2, <1>3, <1>10, Zenon DEF Drops
  <2> QED BY <1>0, <1>10, <2>1, Zenon DEF Drops, Updated
<1>11. ASSUME NEW x \in Agent, Flushes(x)
       PROVE  \A z \in Agent : out'[z] \in O /\ queue'[z] \in Q(z) /\ wire'[z] \in W(z)
  <2>1. Tail(queue[x]) \in Q(x) /\ Append(wire[x], Head(queue[x])) \in W(x)
    BY <1>2, <1>3, <1>11, Zenon DEF Flushes
  <2> QED BY <1>0, <1>11, <2>1, Zenon DEF Flushes, Updated
<1>12. ASSUME NEW x \in Agent, Expires(x)
       PROVE  \A z \in Agent : out'[z] \in O /\ queue'[z] \in Q(z) /\ wire'[z] \in W(z)
  <2>1. Tail(queue[x]) \in Q(x)
    BY <1>3, <1>12, Zenon DEF Expires
  <2> QED BY <1>0, <1>12, <2>1, Zenon DEF Expires, Updated
<1> QED BY <1>6, <1>7, <1>8, <1>9, <1>10, <1>11, <1>12, Zenon
  DEF Effect, Keeps, Confirms, Waits

-----------------------------------------------------------------------------
(* Sessions and counters                                                   *)

LEMMA NextConn ==
  ASSUME ConnInv, CountInv, Keeps \/ \E x \in Agent : Effect(x)
  PROVE  ConnInv'
<1>1. CASE conn' = conn /\ wire' = wire
  BY <1>1, Zenon DEF ConnInv
<1>2. ASSUME NEW x \in Agent, Ends(x) \/ Boots(x) \/ Cuts(x)
      PROVE  ConnInv'
  BY <1>2, Zenon DEF ConnInv, Ends, Boots, Cuts, Updated
<1>3. ASSUME NEW x \in Agent, Takes(x) \/ Drops(x) \/ Flushes(x)
      PROVE  ConnInv'
  BY <1>3, Zenon DEF ConnInv, Takes, Drops, Flushes, Updated
<1>4. ASSUME NEW x \in Agent, NEW y \in Agent, Routes(x, y)
      PROVE  ConnInv'
  BY <1>4, Zenon DEF ConnInv, Routes, Updated
<1> QED BY <1>1, <1>2, <1>3, <1>4, Zenon DEF Effect, Keeps, Waits, Expires, Writes,
  Confirms, Answers

(* The frames of a session, with r left to count: a status is the first.   *)
StatusFirst(w, r) == \A i \in DOMAIN w : w[i].type = "status" => i = 1 /\ r = -1

LEMMA StatusSteps ==
  ASSUME NEW S, NEW w \in Seq(S), NEW r, StatusFirst(w, r)
  PROVE  /\ \A e \in S : e.type # "status" => StatusFirst(Append(w, e), r)
         /\ w # <<>> => \A k : StatusFirst(Tail(w), k)
         /\ w # <<>> /\ Head(w).type = "status" => r = -1
         /\ r # -1 => \A k : StatusFirst(w, k)
<1>1. ASSUME NEW e \in S, e.type # "status"
      PROVE  StatusFirst(Append(w, e), r)
  BY <1>1 DEF StatusFirst
<1>2. ASSUME w # <<>>
      PROVE  /\ \A i \in DOMAIN Tail(w) : Tail(w)[i].type # "status"
             /\ Head(w).type = "status" => r = -1
  BY <1>2 DEF StatusFirst
<1>3. w # <<>> => \A k : StatusFirst(Tail(w), k)
  BY <1>2, Zenon DEF StatusFirst
<1>4. r # -1 => \A k : StatusFirst(w, k)
  BY Zenon DEF StatusFirst
<1> QED BY <1>1, <1>2, <1>3, <1>4, Zenon

(* Of the counters of one agent.                                           *)
Counted(u, c, r, v, o, w) ==
  /\ c => u
  /\ ~u => r = -1 /\ v = "idle" /\ ~o
  /\ r \in Int
  /\ v = "waiting" => r > 0
  /\ StatusFirst(w, r)

LEMMA CountIs ==
  CountInv <=> \A x \in Agent : Counted(up[x], conn[x], remaining[x], waiter[x],
                                        overtaken[x], wire[x])
BY Zenon DEF CountInv, Counted, StatusFirst

LEMMA CountIsNext ==
  CountInv' <=> \A x \in Agent : Counted(up'[x], conn'[x], remaining'[x], waiter'[x],
                                         overtaken'[x], wire'[x])
BY Zenon DEF CountInv, Counted, StatusFirst

(* Only the counters of y change.                                          *)
LEMMA CountOne ==
  ASSUME CountInv, NEW y \in Agent,
         \A x \in Agent : x # y =>
           /\ up'[x] = up[x] /\ conn'[x] = conn[x] /\ remaining'[x] = remaining[x]
           /\ waiter'[x] = waiter[x] /\ overtaken'[x] = overtaken[x]
           /\ wire'[x] = wire[x],
         Counted(up'[y], conn'[y], remaining'[y], waiter'[y], overtaken'[y], wire'[y])
  PROVE  CountInv'
<1>1. ASSUME NEW x \in Agent
      PROVE  Counted(up'[x], conn'[x], remaining'[x], waiter'[x], overtaken'[x],
                     wire'[x])
  <2>1. CASE x = y
    BY <2>1, Zenon
  <2>2. CASE x # y
    BY <2>2, CountIs, Zenon
  <2> QED BY <2>1, <2>2, Zenon
<1> QED BY <1>1, CountIsNext, Zenon

LEMMA NextCount ==
  ASSUME RelayInv, CountInv, Keeps \/ \E x \in Agent : Effect(x)
  PROVE  CountInv'
<1> DEFINE C(x) == Counted(up'[x], conn'[x], remaining'[x], waiter'[x],
                           overtaken'[x], wire'[x])
<1>0. \A x \in Agent : /\ Counted(up[x], conn[x], remaining[x], waiter[x],
                                  overtaken[x], wire[x])
                       /\ wire[x] \in Seq(Frames(x, Stored))
  BY CountIs, Zenon DEF RelayInv
<1>1. CASE /\ KeepProc /\ KeepFlush /\ overtaken' = overtaken /\ wire' = wire
  BY <1>1, CountIs, CountIsNext, Zenon
<1>2. ASSUME NEW x \in Agent, Ends(x)
      PROVE  CountInv'
  <2>1. StatusFirst(<<>>, -1) /\ -1 \in Int
    BY DEF StatusFirst
  <2>2. C(x)
    BY <1>2, <2>1, Zenon DEF Ends, Updated, Counted
  <2>3. \A z \in Agent : z # x =>
          /\ up'[z] = up[z] /\ conn'[z] = conn[z] /\ remaining'[z] = remaining[z]
          /\ waiter'[z] = waiter[z] /\ overtaken'[z] = overtaken[z]
          /\ wire'[z] = wire[z]
    BY <1>2, Zenon DEF Ends, Updated
  <2> QED BY <2>2, <2>3, CountOne, Zenon
<1>3. ASSUME NEW x \in Agent, Boots(x)
      PROVE  CountInv'
  <2>1. StatusFirst(<<>>, -1) /\ \A n : StatusFirst(<<Status(n)>>, -1)
    BY DEF StatusFirst
  <2>2. C(x)
    BY <1>0, <1>3, <2>1, Zenon DEF Boots, Updated, Counted
  <2> QED BY <1>3, <2>2, CountOne, Zenon DEF Boots, Updated
<1>4. ASSUME NEW x \in Agent, Cuts(x)
      PROVE  CountInv'
  <2>1. \A r : StatusFirst(<<>>, r)
    BY DEF StatusFirst
  <2>2. C(x)
    BY <1>0, <1>4, <2>1, Zenon DEF Cuts, Updated, Counted
  <2> QED BY <1>4, <2>2, CountOne, Zenon DEF Cuts, Updated
<1>5. ASSUME NEW x \in Agent, Takes(x)
      PROVE  CountInv'
  <2> DEFINE e == Head(wire[x])
             n == IF remaining[x] > 0 THEN remaining[x] - 1 ELSE remaining[x]
             v == IF waiter[x] = "waiting" /\ n = 0 THEN "resolved" ELSE waiter[x]
  <2>1. /\ conn[x] /\ wire[x] # <<>> /\ KeepProc /\ overtaken' = overtaken
        /\ Updated(wire', wire, x, Tail(wire[x]))
        /\ Updated(remaining', remaining, x, IF e.type = "status" THEN e.count ELSE n)
        /\ Updated(waiter', waiter, x, v)
    BY <1>5, Zenon DEF Takes
  <2>2. /\ \A k : StatusFirst(Tail(wire[x]), k)
        /\ e.type = "status" => remaining[x] = -1
    BY <1>0, <2>1, StatusSteps, Zenon DEF Counted
  <2>3. e.type = "status" => e.count \in Nat
    BY <2>1, HeadFrame, FrameFacts, Zenon
  <2>4. remaining[x] \in Int /\ (waiter[x] = "waiting" => remaining[x] > 0)
    BY <1>0, Zenon DEF Counted
  <2>5. /\ remaining'[x] \in Int /\ (v = "waiting" => remaining'[x] > 0)
    <3>1. remaining'[x] = IF e.type = "status" THEN e.count ELSE n
      BY <2>1, Zenon DEF Updated
    <3> HIDE DEF e
    <3> QED BY <2>2, <2>3, <2>4, <3>1
  <2>6. up'[x] /\ conn'[x]
    BY <1>0, <2>1, Zenon DEF Counted
  <2> HIDE DEF v
  <2>7. waiter'[x] = v /\ wire'[x] = Tail(wire[x])
    BY <2>1, Zenon DEF Updated
  <2>8. C(x)
    BY <2>2, <2>5, <2>6, <2>7, Zenon DEF Counted
  <2> QED BY <2>1, <2>8, CountOne, Zenon DEF Updated
<1>6. ASSUME NEW x \in Agent, Waits(x)
      PROVE  CountInv'
  <2>0. remaining[x] \in Int
    BY <1>0, Zenon DEF Counted
  <2>1. remaining[x] \in Int /\ 0 \in Int
    BY <2>0
  <2>2. /\ ~(remaining[x] <= 0) => remaining[x] > 0
        /\ remaining[x] > 0 => remaining[x] # -1
    BY <2>1
  <2>3. remaining[x] # -1 => \A k : StatusFirst(wire[x], k)
    BY <1>0, StatusSteps, Zenon DEF Counted
  <2>4. CASE /\ waiter[x] = "waiting" /\ Updated(remaining', remaining, x, 0)
             /\ Updated(waiter', waiter, x, "timedout")
    <3>1. C(x)
      BY <1>0, <1>6, <2>1, <2>2, <2>3, <2>4, Zenon DEF Waits, Counted, Updated
    <3> QED BY <1>6, <2>4, <3>1, CountOne, Zenon DEF Waits, Updated
  <2>5. CASE /\ up[x] \/ waiter[x] # "idle"
             /\ waiter[x] \in {"idle", "grace"} /\ remaining' = remaining
             /\ \E v \in {"grace", "returned", "waiting"} :
                  /\ Updated(waiter', waiter, x, v)
                  /\ v = "waiting" => ~(remaining[x] <= 0)
    <3>1. C(x)
      BY <1>0, <1>6, <2>1, <2>2, <2>5, Zenon DEF Waits, Counted, Updated
    <3> QED BY <1>6, <2>5, <3>1, CountOne, Zenon DEF Waits, Updated
  <2> QED BY <1>6, <2>4, <2>5, Zenon DEF Waits
<1>7. ASSUME NEW y \in Agent, NEW e \in Frames(y, Stored), e.type # "status", conn[y],
             KeepProc, KeepFlush, Updated(wire', wire, y, Append(wire[y], e)),
             \A z \in Agent : z # y => overtaken'[z] = overtaken[z]
      PROVE  CountInv'
  <2>1. StatusFirst(Append(wire[y], e), remaining[y])
    BY <1>0, <1>7, StatusSteps, Zenon DEF Counted
  <2>2. C(y)
    BY <1>0, <1>7, <2>1, Zenon DEF Counted, Updated
  <2> QED BY <1>7, <2>2, CountOne, Zenon DEF Updated
<1>8. ASSUME NEW x \in Agent, NEW y \in Agent, Routes(x, y)
      PROVE  CountInv'
  <2> DEFINE e == Head(out[x])
  <2>1. e \in Due(y, Stored)
    BY <1>8, Addressed, Zenon DEF Routes
  <2>2. e \in Frames(y, Stored) /\ e.type # "status"
    BY <2>1 DEF Frames, Due, Sent, Envelope
  <2> HIDE DEF e
  <2> QED BY <1>1, <1>7, <1>8, <2>2, Zenon DEF Routes, e, Updated
<1>9. ASSUME NEW x \in Agent, Drops(x)
      PROVE  CountInv'
  <2>1. Notice \in Frames(x, Stored) /\ Notice.type # "status"
    BY DEF Notice, Frames
  <2> QED BY <1>1, <1>7, <1>9, <2>1, Zenon DEF Drops, Updated
<1>10. ASSUME NEW x \in Agent, Flushes(x)
       PROVE  CountInv'
  <2>1. Head(queue[x]) \in Due(x, Stored)
    BY <1>10, SeqSteps, Zenon DEF Flushes, RelayInv
  <2>2. Head(queue[x]) \in Frames(x, Stored) /\ Head(queue[x]).type # "status"
    BY <2>1 DEF Frames, Due, Sent, Envelope
  <2> QED BY <1>7, <1>10, <2>2, Zenon DEF Flushes, Updated
<1> QED BY <1>1, <1>2, <1>3, <1>4, <1>5, <1>6, <1>8, <1>9, <1>10, Zenon DEF Effect,
  Keeps, Expires, Writes, Confirms, Answers

-----------------------------------------------------------------------------
(* Nothing vanishes                                                        *)

(* m is held by z, or by the relay for z or from z.                        *)
At(m, z) ==
  \/ m \in handling[z] \/ m \in verifying[z]
  \/ m \in About(out[z]) \/ m \in About(queue[z]) \/ m \in About(wire[z])

Accounted(m) == m \in lost \/ \E z \in Agent : At(m, z)

LEMMA AccountedIs ==
  ASSUME NEW m
  PROVE  (m \in lost \/ OnItsWay(m)) <=> Accounted(m)
BY Zenon DEF OnItsWay, Accounted, At

LEMMA AccountedIsNext ==
  ASSUME NEW m
  PROVE  (m \in lost' \/ OnItsWay(m)') <=> Accounted(m)'
BY Zenon DEF OnItsWay, Accounted, At

LEMMA AboutSteps ==
  ASSUME RelayInv, NEW z \in Agent
  PROVE  /\ \A e : About(out[z]) \subseteq About(Append(out[z], e))
         /\ \A e : About(queue[z]) \subseteq About(Append(queue[z], e))
         /\ \A e : About(wire[z]) \subseteq About(Append(wire[z], e))
         /\ \A e : IsEnvelope(e) => /\ e.msg \in About(Append(out[z], e))
                                    /\ e.msg \in About(Append(queue[z], e))
                                    /\ e.msg \in About(Append(wire[z], e))
<1>1. ASSUME NEW S, NEW s \in Seq(S), NEW e
      PROVE  /\ About(s) \subseteq About(Append(s, e))
             /\ IsEnvelope(e) => e.msg \in About(Append(s, e))
  <2>1. s \in Seq(S \cup {e})
    BY SeqGrows, <1>1
  <2> QED BY <2>1, AboutAppend
<1> QED BY <1>1, Zenon DEF RelayInv

LEMMA AboutHead ==
  ASSUME RelayInv, NEW z \in Agent, NEW m
  PROVE  /\ out[z] # <<>> /\ m \in About(out[z]) =>
              \/ m \in About(Tail(out[z]))
              \/ IsEnvelope(Head(out[z])) /\ Head(out[z]).msg = m
         /\ queue[z] # <<>> /\ m \in About(queue[z]) =>
              \/ m \in About(Tail(queue[z]))
              \/ IsEnvelope(Head(queue[z])) /\ Head(queue[z]).msg = m
         /\ wire[z] # <<>> /\ m \in About(wire[z]) =>
              \/ m \in About(Tail(wire[z]))
              \/ IsEnvelope(Head(wire[z])) /\ Head(wire[z]).msg = m
BY AboutTail, Zenon DEF RelayInv

LEMMA NextLost ==
  ASSUME Keeps \/ \E x \in Agent : Effect(x)
  PROVE  lost \subseteq lost'
<1>1. ASSUME NEW x \in Agent, Ends(x) \/ Boots(x) \/ Cuts(x) \/ Takes(x) \/ Waits(x)
      PROVE  lost \subseteq lost'
  BY <1>1, Zenon DEF Ends, Boots, Cuts, Takes, Waits
<1>2. ASSUME NEW x \in Agent, Drops(x) \/ Flushes(x) \/ Expires(x)
      PROVE  lost \subseteq lost'
  BY <1>2, Zenon DEF Drops, Flushes, Expires
<1>3. ASSUME NEW x \in Agent, NEW m \in Msg,
             Writes(x, m) \/ Confirms(x, m) \/ Answers(x, m)
      PROVE  lost \subseteq lost'
  BY <1>3, Zenon DEF Writes, Confirms, Answers
<1>4. ASSUME NEW x \in Agent, NEW y \in Agent, Routes(x, y)
      PROVE  lost \subseteq lost'
  BY <1>4, Zenon DEF Routes
<1> QED BY <1>1, <1>2, <1>3, <1>4, Zenon DEF Effect, Keeps

(* Whatever a step takes from one place it puts in another, counts as lost *)
(* or has turned into the state of the sender's row.                       *)
LEMMA KeptOrLost ==
  ASSUME HoldInv, RelayInv, ConnInv, CountInv, Keeps \/ \E x \in Agent : Effect(x),
         NEW m \in Msg, Accounted(m)
  PROVE  Accounted(m)' \/ rows'[From(m)][m] = "delivered"
<1> DEFINE D == Accounted(m)' \/ rows'[From(m)][m] = "delivered"
<1>1. /\ m \in lost' => D
      /\ \A z \in Agent : /\ m \in handling'[z] => D
                          /\ m \in verifying'[z] => D
                          /\ m \in About(out'[z]) => D
                          /\ m \in About(queue'[z]) => D
                          /\ m \in About(wire'[z]) => D
  BY Zenon DEF Accounted, At
<1> HIDE DEF D
<1>2. CASE m \in lost
  BY <1>1, <1>2, NextLost, Zenon DEF D
<1> SUFFICES ASSUME NEW z \in Agent, At(m, z)
             PROVE  D
  BY <1>2, Zenon DEF Accounted, D
<1>3. CASE Keeps
  BY <1>1, <1>3, Zenon DEF Keeps, At
<1>4. ASSUME NEW x \in Agent, Ends(x)
      PROVE  D
  <2>1. CASE z = x
    BY <1>1, <1>4, <2>1, Zenon DEF Ends, At
  <2>2. CASE z # x
    BY <1>1, <1>4, <2>2, Zenon DEF Ends, At, Updated
  <2> QED BY <2>1, <2>2, Zenon
<1>5. ASSUME NEW x \in Agent, Boots(x)
      PROVE  D
  <2>1. m \notin About(wire[x])
    BY <1>5, AboutEmpty, Zenon DEF Boots, ConnInv, CountInv
  <2> QED BY <1>1, <1>5, <2>1, Zenon DEF Boots, At, Updated
<1>6. ASSUME NEW x \in Agent, Cuts(x)
      PROVE  D
  BY <1>1, <1>6, Zenon DEF Cuts, At, Updated
<1>7. ASSUME NEW x \in Agent, Takes(x)
      PROVE  D
  <2> DEFINE e == Head(wire[x])
  <2>0. /\ wire[x] # <<>> /\ out' = out /\ queue' = queue
        /\ Updated(wire', wire, x, Tail(wire[x]))
        /\ Updated(handling', handling, x,
             IF e.type = "message" THEN handling[x] \cup {e.msg} ELSE handling[x])
        /\ Updated(verifying', verifying, x,
             IF e.type = "confirm" THEN verifying[x] \cup {e.msg} ELSE verifying[x])
    BY <1>7, Zenon DEF Takes
  <2>1. m \in About(wire[x]) => m \in About(Tail(wire[x])) \/ (IsEnvelope(e) /\ e.msg = m)
    BY <2>0, AboutHead, Zenon
  <2> HIDE DEF e
  <2>2. handling[z] \subseteq handling'[z] /\ verifying[z] \subseteq verifying'[z]
    BY <2>0, Zenon DEF Updated
  <2>3. IsEnvelope(e) => e.msg \in handling'[x] \/ e.msg \in verifying'[x]
    BY <2>0, Zenon DEF Updated, IsEnvelope
  <2>4. m \in About(wire[z]) => D
    <3>1. CASE z = x
      BY <1>1, <2>0, <2>1, <2>3, <3>1, Zenon DEF Updated
    <3>2. CASE z # x
      BY <1>1, <2>0, <3>2, Zenon DEF Updated
    <3> QED BY <3>1, <3>2, Zenon
  <2> QED BY <1>1, <2>0, <2>2, <2>4, Zenon DEF At
<1>8. ASSUME NEW x \in Agent, Waits(x)
      PROVE  D
  BY <1>1, <1>8, Zenon DEF Waits, At
<1>9. ASSUME NEW x \in Agent, NEW n \in Msg, Writes(x, n)
      PROVE  D
  <2>1. About(out[z]) \subseteq About(out'[z])
    BY <1>9, AboutSteps, Zenon DEF Writes, Updated
  <2> QED BY <1>1, <1>9, <2>1, Zenon DEF Writes, At
<1>10. ASSUME NEW x \in Agent, NEW n \in Msg, Confirms(x, n)
       PROVE  D
  <2>1. CASE m = n /\ m \in verifying[z] /\ z = x
    <3>1. From(m) = x
      BY <2>1, Zenon DEF HoldInv
    <3>2. rows'[x][m] = "delivered"
      BY <1>10, <2>1, Zenon DEF Confirms, Put
    <3> QED BY <3>1, <3>2, Zenon DEF D
  <2>2. CASE ~(m = n /\ m \in verifying[z] /\ z = x)
    <3>1. m \in verifying[z] => m \in verifying'[z]
      BY <1>10, <2>2, Zenon DEF Confirms, Updated
    <3> QED BY <1>1, <1>10, <3>1, Zenon DEF Confirms, At
  <2> QED BY <2>1, <2>2, Zenon
<1>11. ASSUME NEW x \in Agent, NEW n \in Msg, Answers(x, n)
       PROVE  D
  <2>1. About(out[z]) \subseteq About(out'[z]) /\ n \in About(out'[x])
    <3>1. IsEnvelope(Env("confirm", n)) /\ Env("confirm", n).msg = n
      BY EnvSent, Zenon
    <3> QED BY <1>11, <3>1, AboutSteps, Zenon DEF Answers, Updated
  <2>2. m \in handling[z] => m \in handling'[z] \/ m = n
    BY <1>11, Zenon DEF Answers, Updated
  <2> QED BY <1>1, <1>11, <2>1, <2>2, Zenon DEF Answers, At
<1>12. ASSUME NEW x \in Agent, NEW y \in Agent, Routes(x, y)
       PROVE  D
  <2> DEFINE e == Head(out[x])
  <2>0. /\ out[x] # <<>> /\ Updated(out', out, x, Tail(out[x]))
        /\ handling' = handling /\ verifying' = verifying
        /\ \/ queue' = queue /\ Updated(wire', wire, y, Append(wire[y], e))
           \/ wire' = wire /\ Updated(queue', queue, y, Append(queue[y], e))
    BY <1>12, Zenon DEF Routes
  <2>1. m \in About(out[x]) => m \in About(Tail(out[x])) \/ (IsEnvelope(e) /\ e.msg = m)
    BY <2>0, AboutHead, Zenon
  <2> HIDE DEF e
  <2>2. About(queue[z]) \subseteq About(queue'[z]) /\ About(wire[z]) \subseteq About(wire'[z])
    BY <2>0, AboutSteps, Zenon DEF Updated
  <2>3. IsEnvelope(e) => e.msg \in About(queue'[y]) \/ e.msg \in About(wire'[y])
    BY <2>0, AboutSteps, Zenon DEF Updated
  <2>4. m \in About(out[z]) => D
    <3>1. CASE z = x
      BY <1>1, <2>0, <2>1, <2>3, <3>1, Zenon DEF Updated
    <3>2. CASE z # x
      BY <1>1, <2>0, <3>2, Zenon DEF Updated
    <3> QED BY <3>1, <3>2, Zenon
  <2> QED BY <1>1, <2>0, <2>2, <2>4, Zenon DEF At
<1>13. ASSUME NEW x \in Agent, Drops(x)
       PROVE  D
  <2>1. m \in About(out[x]) => m \in About(Tail(out[x])) \/ m \in lost'
    BY <1>13, AboutHead, Zenon DEF Drops
  <2>2. About(wire[z]) \subseteq About(wire'[z])
    BY <1>13, AboutSteps, Zenon DEF Drops, Updated
  <2>3. m \in About(out[z]) => m \in About(out'[z]) \/ m \in lost'
    BY <1>13, <2>1, Zenon DEF Drops, Updated
  <2> QED BY <1>1, <1>13, <2>2, <2>3, Zenon DEF Drops, At
<1>14. ASSUME NEW x \in Agent, Flushes(x)
       PROVE  D
  <2>1. /\ About(wire[z]) \subseteq About(wire'[z])
        /\ IsEnvelope(Head(queue[x])) => Head(queue[x]).msg \in About(wire'[x])
    BY <1>14, AboutSteps, Zenon DEF Flushes, Updated
  <2>2. m \in About(queue[x]) => m \in About(Tail(queue[x])) \/ m \in About(wire'[x])
    BY <1>14, <2>1, AboutHead, Zenon DEF Flushes
  <2>3. m \in About(queue[z]) => m \in About(queue'[z]) \/ m \in About(wire'[z])
    BY <1>14, <2>2, Zenon DEF Flushes, Updated
  <2> QED BY <1>1, <1>14, <2>1, <2>3, Zenon DEF Flushes, At
<1>15. ASSUME NEW x \in Agent, Expires(x)
       PROVE  D
  <2>1. m \in About(queue[x]) => m \in About(Tail(queue[x])) \/ m \in lost'
    BY <1>15, AboutHead, Zenon DEF Expires
  <2>2. m \in About(queue[z]) => m \in About(queue'[z]) \/ m \in lost'
    BY <1>15, <2>1, Zenon DEF Expires, Updated
  <2> QED BY <1>1, <1>15, <2>2, Zenon DEF Expires, At
<1> QED BY <1>3, <1>4, <1>5, <1>6, <1>7, <1>8, <1>9, <1>10, <1>11, <1>12, <1>13, <1>14,
  <1>15, Zenon DEF Effect

LEMMA NextVanishes ==
  ASSUME HoldInv, RelayInv, ConnInv, CountInv, NothingVanishes,
         Keeps \/ \E x \in Agent : Effect(x)
  PROVE  NothingVanishes'
<1> SUFFICES ASSUME NEW m \in Msg, rows'[From(m)][m] = "sent"
             PROVE  Accounted(m)'
  BY AccountedIsNext, Zenon DEF NothingVanishes
<1>0. From(m) \in Agent /\ rows'[From(m)][m] # "delivered"
  BY DeliveryAssumption
<1>1. CASE rows[From(m)][m] = "sent"
  <2>1. Accounted(m)
    BY <1>1, AccountedIs, Zenon DEF NothingVanishes
  <2> QED BY <1>0, <2>1, KeptOrLost, Zenon
<1>2. CASE rows[From(m)][m] # "sent"
  <2>1. ASSUME NEW y \in Agent, NEW n, NEW st, Put(y, n, st), st = "sent" => n # m
        PROVE  FALSE
    <3>1. CASE From(m) = y /\ m = n
      BY <2>1, <3>1, Zenon DEF Put
    <3>2. CASE ~(From(m) = y /\ m = n)
      <4>1. <<From(m), m>> # <<y, n>>
        BY <3>2
      <4> QED BY <1>0, <1>2, <2>1, <4>1, Zenon DEF Put
    <3> QED BY <3>1, <3>2, Zenon
  <2>2. rows' # rows
    BY <1>2, Zenon
  <2>3. PICK x \in Agent : Writes(x, m)
    <3>1. ASSUME NEW x \in Agent, Takes(x)
          PROVE  FALSE
      <4>1. Put(x, Head(wire[x]).msg, "delivered")
        BY <2>2, <3>1, Zenon DEF Takes
      <4> QED BY <2>1, <4>1, Zenon
    <3>2. ASSUME NEW x \in Agent, NEW n \in Msg, Confirms(x, n)
          PROVE  FALSE
      BY <2>1, <3>2, Zenon DEF Confirms
    <3>3. ASSUME NEW x \in Agent, NEW n \in Msg, Writes(x, n)
          PROVE  n = m
      BY <2>1, <3>3, Zenon DEF Writes
    <3>4. PICK x \in Agent : Effect(x)
      BY <2>2, Zenon DEF Keeps
    <3>5. PICK n \in Msg : Writes(x, n)
      BY <2>2, <3>1, <3>2, <3>4, Zenon DEF Effect, Ends, Boots, Cuts, Waits, Drops,
        Flushes, Expires, Answers, Routes
    <3> QED BY <3>3, <3>5, Zenon
  <2>4. m \in lost' \/ m \in About(out'[x])
    <3>1. IsEnvelope(Env("message", m)) /\ Env("message", m).msg = m
      BY EnvSent, Zenon
    <3> QED BY <2>3, <3>1, AboutSteps, Zenon DEF Writes, Updated
  <2> QED BY <2>4, Zenon DEF Accounted, At
<1> QED BY <1>1, <1>2, Zenon

-----------------------------------------------------------------------------
(* The flush                                                               *)

LEMMA LeftAppend ==
  ASSUME NEW S, NEW w \in Seq(S), NEW r, NEW f, f.type # "status"
  PROVE  Left(Append(w, f), r) = Left(w, r)
<1>1. CASE w = <<>>
  <2>1. Append(w, f) # <<>> /\ Head(Append(w, f)) = f
    BY <1>1
  <2> QED BY <1>1, <2>1, Zenon DEF Left
<1>2. CASE w # <<>>
  <2>1. Append(w, f) # <<>> /\ Head(Append(w, f)) = Head(w)
    BY <1>2
  <2> QED BY <1>2, <2>1, Zenon DEF Left
<1> QED BY <1>1, <1>2, Zenon

LEMMA LeftTail ==
  ASSUME NEW S, NEW w \in Seq(S), NEW r, StatusFirst(w, r), w # <<>>
  PROVE  \A k : Left(Tail(w), k) = k
<1>1. ASSUME Tail(w) # <<>>
      PROVE  Head(Tail(w)).type # "status"
  BY <1>1 DEF StatusFirst
<1> QED BY <1>1, Zenon DEF Left

LEMMA HereGrows ==
  ASSUME RelayInv, Keeps \/ \E x \in Agent : Effect(x), NEW z \in Agent,
         NEW e \in Envelope, Here(z, e)
  PROVE  Here(z, e)'
<1>1. e.msg \in Msg
  BY DEF Envelope
<1> QED BY <1>1, NextGrows, NextLost, Zenon DEF Here, Grows

(* The agents a step does not concern.                                     *)
LEMMA FlushSame ==
  ASSUME RelayInv, Keeps \/ \E x \in Agent : Effect(x), NEW z \in Agent, Flushed(z),
         up'[z] = up[z], conn'[z] = conn[z], remaining'[z] = remaining[z],
         waiter'[z] = waiter[z], announced'[z] = announced[z],
         overtaken'[z] = overtaken[z], wire'[z] = wire[z], queue'[z] = queue[z]
  PROVE  Flushed(z)'
<1>1. \A e \in announced[z] : /\ Pending(z, e) => Pending(z, e)'
                              /\ Here(z, e) => Here(z, e)'
  BY HereGrows, Zenon DEF Pending, Flushed
<1> QED BY <1>1, Zenon DEF Flushed

(* A step that only changes what is under way to z.                        *)
LEMMA FlushMoves ==
  ASSUME RelayInv, Keeps \/ \E x \in Agent : Effect(x), NEW z \in Agent, Flushed(z),
         up'[z] = up[z], conn'[z] = conn[z], waiter'[z] = waiter[z],
         announced'[z] = announced[z], ~overtaken'[z] => ~overtaken[z],
         \A e \in announced[z] :
           e.type = "message" /\ ~overtaken'[z] /\
           Within(wire[z], queue[z], e, Left(wire[z], remaining[z])) =>
             \/ Here(z, e)'
             \/ Within(wire'[z], queue'[z], e, Left(wire'[z], remaining'[z]))
  PROVE  Flushed(z)'
<1>1. ASSUME NEW e \in announced[z], e.type = "message", up[z], ~overtaken'[z]
      PROVE  Here(z, e)' \/ Pending(z, e)'
  <2>1. CASE Here(z, e)
    BY <1>1, <2>1, HereGrows, Zenon DEF Flushed
  <2>2. CASE Pending(z, e)
    BY <1>1, <2>2, Zenon DEF Pending
  <2> QED BY <1>1, <2>1, <2>2, Zenon DEF Flushed
<1> QED BY <1>1, Zenon DEF Flushed

LEMMA Sequences ==
  ASSUME RelayInv, CountInv, NEW z \in Agent
  PROVE  /\ wire[z] \in Seq(Frames(z, Stored)) /\ queue[z] \in Seq(Due(z, Stored))
         /\ StatusFirst(wire[z], remaining[z])
         /\ remaining[z] \in Int /\ Left(wire[z], remaining[z]) \in Int
<1>1. /\ wire[z] \in Seq(Frames(z, Stored)) /\ queue[z] \in Seq(Due(z, Stored))
      /\ StatusFirst(wire[z], remaining[z]) /\ remaining[z] \in Int
  BY CountIs, Zenon DEF RelayInv, Counted
<1>2. CASE wire[z] # <<>> /\ Head(wire[z]).type = "status"
  <2>1. Head(wire[z]).count \in Nat
    BY <1>2, HeadFrame, FrameFacts, Zenon
  <2>2. Left(wire[z], remaining[z]) = 1 + Head(wire[z]).count
    BY <1>2, Zenon DEF Left
  <2>3. Left(wire[z], remaining[z]) \in Int
    BY <2>1, <2>2
  <2> QED BY <1>1, <2>3, Zenon
<1>3. CASE ~(wire[z] # <<>> /\ Head(wire[z]).type = "status")
  BY <1>1, <1>3, Zenon DEF Left
<1> QED BY <1>2, <1>3, Zenon

(* A frame the relay sends to y behind the whole backlog.                  *)
LEMMA LiveFlush ==
  ASSUME RelayInv, CountInv, Keeps \/ \E x \in Agent : Effect(x), NEW y \in Agent,
         Flushed(y), KeepProc, KeepFlush, announced' = announced,
         NEW f, f.type # "status",
         \/ wire' = wire /\ overtaken' = overtaken /\ queue'[y] = Append(queue[y], f)
         \/ /\ wire'[y] = Append(wire[y], f) /\ queue' = queue
            /\ overtaken'[y] = (overtaken[y] \/ queue[y] # <<>>)
  PROVE  Flushed(y)'
<1>1. ASSUME NEW e, ~overtaken'[y],
             Within(wire[y], queue[y], e, Left(wire[y], remaining[y]))
      PROVE  Within(wire'[y], queue'[y], e, Left(wire'[y], remaining'[y]))
  <2>1. /\ Within(wire[y], Append(queue[y], f), e, Left(wire[y], remaining[y]))
        /\ queue[y] = <<>> =>
             Within(Append(wire[y], f), queue[y], e, Left(wire[y], remaining[y]))
    BY <1>1, Sequences, WithinAppend, Zenon
  <2>2. Left(Append(wire[y], f), remaining[y]) = Left(wire[y], remaining[y])
    <3>1. wire[y] \in Seq(Frames(y, Stored))
      BY Sequences, Zenon
    <3> QED BY <3>1, LeftAppend, Zenon
  <2> QED BY <1>1, <2>1, <2>2, Zenon
<1>2. ~overtaken'[y] => ~overtaken[y]
  BY Zenon
<1> QED BY <1>1, <1>2, FlushMoves, Zenon

(* A new session: the announcement comes first and counts the backlog.     *)
LEMMA BootFlush ==
  ASSUME RelayInv, CountInv, Keeps \/ \E x \in Agent : Effect(x), NEW x \in Agent,
         Boots(x)
  PROVE  Flushed(x)'
<1> DEFINE q == queue[x]
<1>1. q \in Seq(Due(x, Stored)) /\ announced'[x] = Range(q)
  BY Zenon DEF Boots, Updated, RelayInv
<1>2. Range(q) \subseteq Envelope
  BY <1>1 DEF Due, Sent, Range
<1>3. waiter'[x] # "resolved"
  <2>1. waiter[x] = "idle"
    BY CountIs, Zenon DEF Counted, Boots
  <2> QED BY <2>1, Zenon DEF Boots
<1>4. ASSUME NEW e \in Range(q)
      PROVE  Within(wire'[x], queue'[x], e, Left(wire'[x], remaining'[x]))
  <2>1. q # <<>>
    BY <1>4 DEF Range
  <2>2. wire'[x] = <<Status(Len(q))>> /\ queue'[x] = q
    BY <2>1, Zenon DEF Boots, Updated
  <2>3. Left(<<Status(Len(q))>>, remaining'[x]) = 1 + Len(q)
    BY <1>1 DEF Left, Status
  <2>4. Within(<<Status(Len(q))>>, q, e, 1 + Len(q))
    <3>1. PICK j \in DOMAIN q : q[j] = e
      BY <1>4 DEF Range
    <3>2. Len(<<Status(Len(q))>>) + j <= 1 + Len(q)
      BY <1>1
    <3> QED BY <3>1, <3>2, Zenon DEF Within
  <2> QED BY <2>2, <2>3, <2>4, Zenon
<1> QED BY <1>1, <1>2, <1>3, <1>4, Zenon DEF Flushed, Pending

(* A frame that arrives is one less to come, and a message is stored.      *)
LEMMA TakeFlush ==
  ASSUME RelayInv, CountInv, Keeps \/ \E x \in Agent : Effect(x), NEW x \in Agent,
         Takes(x), Flushed(x)
  PROVE  Flushed(x)'
<1> DEFINE h == Head(wire[x])
           r == remaining[x]
           n == IF r > 0 THEN r - 1 ELSE r
           l == Left(wire[x], r)
<1>1. /\ conn[x] /\ wire[x] # <<>> /\ KeepProc /\ KeepPast /\ queue' = queue
      /\ wire'[x] = Tail(wire[x])
      /\ remaining'[x] = IF h.type = "status" THEN h.count ELSE n
      /\ waiter'[x] = IF waiter[x] = "waiting" /\ n = 0 THEN "resolved" ELSE waiter[x]
      /\ h.type = "message" => Put(x, h.msg, "delivered")
  BY Zenon DEF Takes, Updated
<1>2. /\ r \in Int /\ l \in Int /\ StatusFirst(wire[x], r)
      /\ wire[x] \in Seq(Frames(x, Stored)) /\ queue[x] \in Seq(Due(x, Stored))
      /\ waiter[x] = "waiting" => r > 0
  BY Sequences, CountIs, Zenon DEF Counted
<1>3. /\ \A k : Left(Tail(wire[x]), k) = k
      /\ h.type = "status" => r = -1 /\ h.count \in Nat
  <2>1. h.type = "status" => h.count \in Nat
    BY <1>1, HeadFrame, FrameFacts, Zenon
  <2>2. h.type = "status" => r = -1
    BY <1>1, <1>2, StatusSteps, Zenon
  <2>3. \A k : Left(Tail(wire[x]), k) = k
    BY <1>1, <1>2, LeftTail, Zenon
  <2> QED BY <2>1, <2>2, <2>3, Zenon
<1>4. l = IF h.type = "status" THEN 1 + h.count ELSE r
  BY <1>1, Zenon DEF Left
<1>5. ASSUME NEW e \in Envelope, e.type = "message",
             Within(wire[x], queue[x], e, l), waiter[x] # "resolved"
      PROVE  \/ Here(x, e)'
             \/ /\ waiter'[x] # "resolved"
                /\ Within(wire'[x], queue'[x], e, Left(wire'[x], remaining'[x]))
  <2>1. CASE e = h
    <3>1. rows'[x][e.msg] = "delivered"
      BY <1>1, <1>5, <2>1, Zenon DEF Put
    <3> QED BY <3>1, Zenon DEF Here
  <2>2. CASE Within(Tail(wire[x]), queue[x], e, l - 1)
    <3> HIDE DEF h
    <3>1. wire'[x] \in Seq(Frames(x, Stored))
      BY <1>1, <1>2, SeqSteps, Zenon
    <3>2. l - 1 \in Int
      BY <1>2
    <3>3. l - 1 > 0
      BY <1>1, <1>2, <2>2, <3>1, <3>2, WithinPositive, Zenon
    <3> HIDE DEF l
    <3>4. remaining'[x] = l - 1 /\ ~(waiter[x] = "waiting" /\ n = 0)
      BY <1>1, <1>2, <1>3, <1>4, <3>3
    <3>5. waiter'[x] # "resolved"
      BY <1>1, <1>5, <3>4, Zenon
    <3>6. Left(wire'[x], remaining'[x]) = l - 1
      BY <1>1, <1>3, <3>4, Zenon
    <3> QED BY <1>1, <2>2, <3>5, <3>6, Zenon
  <2> QED BY <1>1, <1>2, <1>5, <2>1, <2>2, WithinReceive, Zenon
<1> HIDE DEF n, h
<1>6. ASSUME NEW e \in announced[x], e.type = "message", up[x], ~overtaken[x]
      PROVE  Here(x, e)' \/ Pending(x, e)'
  <2>1. e \in Envelope
    BY <1>6, Zenon DEF Flushed
  <2>2. CASE Here(x, e)
    BY <2>1, <2>2, HereGrows, Zenon
  <2>3. CASE Pending(x, e) /\ waiter[x] = "timedout"
    <3>1. waiter'[x] = "timedout"
      BY <1>1, <2>3, Zenon
    <3> QED BY <3>1, Zenon DEF Pending
  <2>4. CASE Pending(x, e) /\ waiter[x] # "timedout"
    <3>1. Within(wire[x], queue[x], e, l) /\ waiter[x] # "resolved"
      BY <1>1, <2>4, Zenon DEF Pending
    <3> QED BY <1>5, <1>6, <2>1, <3>1, Zenon DEF Pending
  <2> QED BY <1>6, <2>2, <2>3, <2>4, Zenon DEF Flushed
<1> QED BY <1>1, <1>6, Zenon DEF Flushed

(* waitForFlush() moves on; only the count resolves it.                    *)
LEMMA WaitFlush ==
  ASSUME RelayInv, CountInv, Keeps \/ \E x \in Agent : Effect(x), NEW x \in Agent,
         Waits(x), Flushed(x)
  PROVE  Flushed(x)'
<1>1. \/ waiter'[x] = "timedout"
      \/ /\ waiter[x] \in {"idle", "grace"} /\ remaining' = remaining
         /\ waiter'[x] \in {"grace", "returned", "waiting"}
  BY Zenon DEF Waits, Updated
<1>2. KeepProc /\ KeepRelay /\ KeepPast
  BY Zenon DEF Waits
<1>3. ASSUME NEW e \in announced[x]
      PROVE  /\ Here(x, e) => Here(x, e)'
             /\ Pending(x, e) => Pending(x, e)'
  <2>1. Here(x, e) => Here(x, e)'
    BY <1>3, HereGrows, Zenon DEF Flushed
  <2>2. Pending(x, e) => Pending(x, e)'
    BY <1>1, <1>2, Zenon DEF Pending
  <2> QED BY <2>1, <2>2, Zenon
<1> QED BY <1>2, <1>3, Zenon DEF Flushed

(* The relay sends, repeats or expires the head of the backlog.            *)
LEMMA HeadFlush ==
  ASSUME RelayInv, CountInv, Keeps \/ \E x \in Agent : Effect(x), NEW x \in Agent,
         Flushes(x) \/ Expires(x), Flushed(x)
  PROVE  Flushed(x)'
<1> DEFINE h == Head(queue[x])
           l == Left(wire[x], remaining[x])
<1>1. /\ wire[x] \in Seq(Frames(x, Stored)) /\ queue[x] \in Seq(Due(x, Stored))
      /\ l \in Int
  BY Sequences, Zenon
<1>2. queue[x] # <<>> /\ KeepProc /\ KeepFlush /\ announced' = announced
  BY Zenon DEF Flushes, Expires
<1>3. h.type # "status"
  <2>1. h \in Due(x, Stored)
    BY <1>1, <1>2, SeqSteps, Zenon
  <2> HIDE DEF h
  <2> QED BY <2>1 DEF Due, Sent, Envelope
<1>4. Left(Append(wire[x], h), remaining[x]) = l
  <2> HIDE DEF h
  <2> QED BY <1>1, <1>3, LeftAppend, Zenon
<1> HIDE DEF l
<1>5. ASSUME NEW e, Within(wire[x], queue[x], e, l)
      PROVE  /\ Within(Append(wire[x], h), Tail(queue[x]), e, l)
             /\ ~(Len(queue[x]) > 1) => Within(Append(wire[x], h), queue[x], e, l)
             /\ e = h \/ Within(wire[x], Tail(queue[x]), e, l)
  BY <1>1, <1>2, <1>5, WithinFlush, Zenon
<1>6. CASE Flushes(x)
  <2>1. /\ wire'[x] = Append(wire[x], h)
        /\ \/ queue'[x] = Tail(queue[x]) /\ overtaken'[x] = overtaken[x]
           \/ /\ queue'[x] = queue[x]
              /\ overtaken'[x] = (overtaken[x] \/ Len(queue[x]) > 1)
    BY <1>6, Zenon DEF Flushes, Updated
  <2> HIDE DEF h
  <2>2. ~overtaken'[x] => ~overtaken[x]
    BY <2>1, Zenon
  <2>3. ASSUME NEW e, ~overtaken'[x], Within(wire[x], queue[x], e, l)
        PROVE  Within(wire'[x], queue'[x], e, Left(wire'[x], remaining'[x]))
    BY <1>2, <1>4, <1>5, <2>1, <2>3, Zenon
  <2> QED BY <1>2, <2>2, <2>3, FlushMoves, Zenon DEF l
<1>7. CASE Expires(x)
  <2>1. /\ wire' = wire /\ queue'[x] = Tail(queue[x]) /\ overtaken' = overtaken
        /\ h.msg \in lost'
    BY <1>7, Zenon DEF Expires, Updated
  <2>2. ASSUME NEW e, Within(wire[x], queue[x], e, l)
        PROVE  \/ Here(x, e)'
               \/ Within(wire'[x], queue'[x], e, Left(wire'[x], remaining'[x]))
    BY <1>2, <1>5, <2>1, <2>2, Zenon DEF Here, l
  <2> QED BY <1>2, <2>1, <2>2, FlushMoves, Zenon DEF l
<1> QED BY <1>6, <1>7, Zenon

FlushOther(z) ==
  /\ up'[z] = up[z] /\ conn'[z] = conn[z] /\ remaining'[z] = remaining[z]
  /\ waiter'[z] = waiter[z] /\ announced'[z] = announced[z]
  /\ overtaken'[z] = overtaken[z] /\ wire'[z] = wire[z] /\ queue'[z] = queue[z]

LEMMA FlushOne ==
  ASSUME RelayInv, FlushInv, Keeps \/ \E x \in Agent : Effect(x), NEW y \in Agent,
         \A z \in Agent : z # y => FlushOther(z), Flushed(y)'
  PROVE  FlushInv'
<1>1. ASSUME NEW z \in Agent, z # y
      PROVE  Flushed(z)'
  BY <1>1, FlushSame, Zenon DEF FlushOther, FlushInv
<1> QED BY <1>1, Zenon DEF FlushInv

LEMMA NextFlush ==
  ASSUME RelayInv, CountInv, FlushInv, Keeps \/ \E x \in Agent : Effect(x)
  PROVE  FlushInv'
<1>0. \A x \in Agent : Flushed(x)
  BY Zenon DEF FlushInv
<1>1. CASE Keeps
  BY <1>0, <1>1, FlushSame, Zenon DEF Keeps, FlushInv
<1>2. ASSUME NEW x \in Agent, NEW m \in Msg,
             Writes(x, m) \/ Confirms(x, m) \/ Answers(x, m)
      PROVE  FlushInv'
  <2>1. \A z \in Agent : FlushOther(z)
    BY <1>2, Zenon DEF Writes, Confirms, Answers, FlushOther
  <2> QED BY <1>0, <2>1, FlushSame, Zenon DEF FlushOther, FlushInv
<1>3. ASSUME NEW x \in Agent, Ends(x)
      PROVE  FlushInv'
  <2>1. \A z \in Agent : z # x => FlushOther(z)
    BY <1>3, Zenon DEF Ends, Updated, FlushOther
  <2>2. Flushed(x)'
    BY <1>3, Zenon DEF Ends, Updated, Flushed
  <2> QED BY <2>1, <2>2, FlushOne, Zenon
<1>4. ASSUME NEW x \in Agent, Boots(x)
      PROVE  FlushInv'
  <2>1. \A z \in Agent : z # x => FlushOther(z)
    BY <1>4, Zenon DEF Boots, Updated, FlushOther
  <2> QED BY <1>4, <2>1, BootFlush, FlushOne, Zenon
<1>5. ASSUME NEW x \in Agent, Cuts(x)
      PROVE  FlushInv'
  <2>1. \A z \in Agent : z # x => FlushOther(z)
    BY <1>5, Zenon DEF Cuts, Updated, FlushOther
  <2>2. /\ KeepFlush /\ up' = up /\ announced' = announced /\ overtaken' = overtaken
        /\ ~conn'[x]
    BY <1>5, Zenon DEF Cuts, Updated
  <2>3. \A e \in announced[x] : /\ Here(x, e) => Here(x, e)'
                                /\ Pending(x, e) => Pending(x, e)'
    BY <1>0, <2>2, HereGrows, Zenon DEF Pending, Flushed
  <2>4. Flushed(x)'
    BY <1>0, <2>2, <2>3, Zenon DEF Flushed
  <2> QED BY <2>1, <2>4, FlushOne, Zenon
<1>6. ASSUME NEW x \in Agent, Takes(x)
      PROVE  FlushInv'
  <2>1. \A z \in Agent : z # x => FlushOther(z)
    BY <1>6, Zenon DEF Takes, Updated, FlushOther
  <2> QED BY <1>0, <1>6, <2>1, TakeFlush, FlushOne, Zenon
<1>7. ASSUME NEW x \in Agent, Waits(x)
      PROVE  FlushInv'
  <2>1. \A z \in Agent : z # x => FlushOther(z)
    BY <1>7, Zenon DEF Waits, Updated, FlushOther
  <2> QED BY <1>0, <1>7, <2>1, WaitFlush, FlushOne, Zenon
<1>8. ASSUME NEW x \in Agent, NEW y \in Agent, Routes(x, y)
      PROVE  FlushInv'
  <2> DEFINE f == Head(out[x])
  <2>1. \A z \in Agent : z # y => FlushOther(z)
    BY <1>8, Zenon DEF Routes, Updated, FlushOther
  <2>2. f \in Due(y, Stored)
    BY <1>8, Addressed, Zenon DEF Routes
  <2>3. /\ KeepProc /\ KeepFlush /\ announced' = announced
        /\ \/ wire' = wire /\ overtaken' = overtaken /\ queue'[y] = Append(queue[y], f)
           \/ /\ wire'[y] = Append(wire[y], f) /\ queue' = queue
              /\ overtaken'[y] = (overtaken[y] \/ queue[y] # <<>>)
    BY <1>8, Zenon DEF Routes, Updated
  <2> HIDE DEF f
  <2>4. f.type # "status"
    BY <2>2 DEF Due, Sent, Envelope
  <2>5. Flushed(y)'
    BY <1>0, <2>3, <2>4, LiveFlush, Zenon
  <2> QED BY <2>1, <2>5, FlushOne, Zenon
<1>9. ASSUME NEW x \in Agent, Drops(x)
      PROVE  FlushInv'
  <2>1. \A z \in Agent : z # x => FlushOther(z)
    BY <1>9, Zenon DEF Drops, Updated, FlushOther
  <2>2. Notice.type # "status"
    BY DEF Notice
  <2>3. CASE wire' = wire /\ overtaken' = overtaken
    <3>1. FlushOther(x)
      BY <1>9, <2>3, Zenon DEF Drops, FlushOther
    <3> QED BY <1>0, <2>1, <3>1, FlushSame, FlushOne, Zenon DEF FlushOther
  <2>4. CASE /\ wire'[x] = Append(wire[x], Notice)
             /\ overtaken'[x] = (overtaken[x] \/ queue[x] # <<>>)
    <3>1. KeepProc /\ KeepFlush /\ announced' = announced /\ queue' = queue
      BY <1>9, Zenon DEF Drops
    <3>2. Flushed(x)'
      BY <1>0, <2>2, <2>4, <3>1, LiveFlush, Zenon
    <3> QED BY <2>1, <3>2, FlushOne, Zenon
  <2> QED BY <1>9, <2>3, <2>4, Zenon DEF Drops, Updated
<1>10. ASSUME NEW x \in Agent, Flushes(x) \/ Expires(x)
       PROVE  FlushInv'
  <2>1. \A z \in Agent : z # x => FlushOther(z)
    BY <1>10, Zenon DEF Flushes, Expires, Updated, FlushOther
  <2> QED BY <1>0, <1>10, <2>1, HeadFlush, FlushOne, Zenon
<1> QED BY <1>1, <1>2, <1>3, <1>4, <1>5, <1>6, <1>7, <1>8, <1>9, <1>10, Zenon DEF Effect

-----------------------------------------------------------------------------
(* The theorems                                                            *)

LEMMA InitInv == Init => IInv
<1> SUFFICES ASSUME Init PROVE IInv
  OBVIOUS
<1>1. Shape
  BY DEF Init, Shape, IsMap, RowMap
<1>2. RelayInv
  BY DEF Init, RelayInv
<1>3. HoldInv /\ ConnInv
  BY DEF Init, HoldInv, ConnInv
<1>7. DeliveredIsStored /\ NothingVanishes
  <2>1. \A m \in Msg : rows[From(m)][m] = "none"
    BY DeliveryAssumption DEF Init
  <2> QED BY <2>1 DEF DeliveredIsStored, NothingVanishes
<1>8. SequenceUnique
  BY DEF Init, SequenceUnique
<1>4. CountInv
  BY DEF Init, CountInv
<1>5. SeqInv
  <2>1. seq \in [Msg -> Nat] /\ nextSeq \in [Agent -> Nat]
    BY DEF Init
  <2>2. ASSUME NEW m \in Msg PROVE seq[m] = 0 /\ nextSeq[From(m)] = 1
    BY DeliveryAssumption DEF Init
  <2>3. ASSUME NEW m \in Msg PROVE seq[m] < nextSeq[From(m)]
    BY <2>2
  <2> QED BY <2>1, <2>3, Zenon DEF SeqInv
<1>6. FlushInv
  BY DEF Init, FlushInv, Flushed
<1> QED BY <1>1, <1>2, <1>3, <1>4, <1>5, <1>6, <1>7, <1>8, Zenon DEF IInv

LEMMA NextInv == IInv /\ [Next]_vars => IInv'
<1> SUFFICES ASSUME IInv, [Next]_vars PROVE IInv'
  OBVIOUS
<1>1. Keeps \/ \E x \in Agent : Effect(x)
  BY NextEffect, Zenon DEF IInv
<1> QED BY <1>1, NextShape, NextNumbers, NextHeld, NextDelivered, NextRelay, NextConn,
           NextCount, NextVanishes, NextFlush, Zenon DEF IInv

LEMMA Inductive == Spec => []IInv
BY InitInv, NextInv, PTL DEF Spec

(* What pinch-status shows as delivered is in the recipient's database,    *)
(* whatever the relay dropped, repeated or expired and whichever process   *)
(* ended between handling an envelope and confirming it.                   *)
THEOREM DeliveredIsInDatabase == Spec => []DeliveredIsStored
<1>1. IInv => DeliveredIsStored
  BY Zenon DEF IInv
<1> QED BY <1>1, Inductive, PTL

(* sendMessage() never gives two messages of a sender the same sequence    *)
(* number, across restarts and sends that fail after the row is written.   *)
THEOREM SequencesAreUnique == Spec => []SequenceUnique
<1>1. IInv => SequenceUnique
  BY Zenon DEF IInv
<1> QED BY <1>1, Inductive, PTL

(* A message that stays "sent" is on its way, in the hands of a process,   *)
(* confirmed on the way back, or was lost in one of the ways the code      *)
(* accepts: the relay, the agents and the links forget nothing else.       *)
THEOREM NothingIsForgotten == Spec => []NothingVanishes
<1>1. IInv => NothingVanishes
  BY Zenon DEF IInv
<1> QED BY <1>1, Inductive, PTL

(* When waitForFlush() resolves in a session that was sent nothing but its *)
(* backlog, each message the relay announced is in the database or lost.   *)
THEOREM FlushIsComplete == Spec => []FlushedIsStored
<1>1. IInv => FlushedIsStored
  <2> SUFFICES ASSUME IInv, NEW x \in Agent, waiter[x] = "resolved", ~overtaken[x],
                      NEW e \in announced[x], e.type = "message"
               PROVE  e.msg \in lost \/ rows[x][e.msg] # "none"
    BY Zenon DEF FlushedIsStored
  <2>1. up[x]
    BY CountIs, Zenon DEF IInv, Counted
  <2>2. Here(x, e) \/ Pending(x, e)
    BY <2>1, Zenon DEF IInv, FlushInv, Flushed
  <2> QED BY <2>2, Zenon DEF Here, Pending
<1> QED BY <1>1, Inductive, PTL
=============================================================================
