---------------------------- MODULE LoginProofs -----------------------------
(***************************************************************************)
(* What the login promises, for any time to live, sweep interval, sets of  *)
(* keys, codes and sockets, any number of attempts and of faults.          *)
(*                                                                         *)
(* The registry comes first: its theorems need nothing of the client. The  *)
(* client and the relay share IInv. Its core is Handshake, which relates   *)
(* for one socket the client's handlers, the frames under way and the      *)
(* progress of wsHandler; the other conjuncts relate the sockets to the    *)
(* fields of the one client they all act on.                               *)
(***************************************************************************)
EXTENDS Login, TLAPS

USE DEF requestVars, timeVars, regVars

(* What the sweeps that failed so far add to the life of an entry.         *)
Slack == SweepEvery * (1 + sweepFaults)

(* Arithmetic of the intervals that failed sweeps add.                     *)
LEMMA SlackGrows ==
  ASSUME NEW n \in Nat, NEW m \in Nat
  PROVE  /\ m * (1 + n) \in Nat /\ m <= m * (1 + n)
         /\ m * (1 + (n + 1)) = m * (1 + n) + m
<1>1. m * (1 + n) = m + m * n /\ m * n \in Nat
  OBVIOUS
<1>2. m * (1 + (n + 1)) = m + m + m * n
  OBVIOUS
<1> QED
  BY <1>1, <1>2

(* The step of the registry in a step of the whole system.                 *)
LEMMA RegistryStep ==
  ASSUME [Next]_vars
  PROVE  RegNext \/ StopRegistry \/ BootRegistry \/ UNCHANGED regVars
<1>1. ASSUME NEW i \in Socket, ServerStep(i) PROVE UNCHANGED regVars
  BY <1>1 DEF ServerStep, Upgrade, UpgradeFails, Authenticate, CheckKey,
              RegisterClient, SendResult, PumpFrame, SessionEnds
<1> QED
  BY <1>1 DEF Next, Stop, Boot, vars

(* The entries that a step leaves in the bucket or puts there.             *)
LEMMA PendingStep ==
  ASSUME RegNext \/ StopRegistry \/ BootRegistry \/ UNCHANGED regVars
  PROVE  \/ pending' \subseteq pending
         \/ \E r \in registering, c \in Code :
              /\ c \notin CodesOut /\ running /\ UNCHANGED <<running, timeVars>>
              /\ pending' = pending \cup {[code |-> c, key |-> r.key, at |-> r.at]}
              /\ registering' = registering \ {r}
<1>1. ASSUME NEW r \in registering, NEW c \in Code, DrawCode(r, c)
      PROVE  \/ pending' = pending
             \/ /\ c \notin CodesOut /\ running /\ UNCHANGED <<running, timeVars>>
                /\ pending' = pending \cup {[code |-> c, key |-> r.key, at |-> r.at]}
                /\ registering' = registering \ {r}
  BY <1>1, Zenon DEF DrawCode
<1>2. ASSUME NEW k \in Key, Register(k) PROVE pending' = pending
  BY <1>2 DEF Register
<1>3. ASSUME NEW c \in Code, Verify(c) \/ Claim(c) PROVE pending' \subseteq pending
  BY <1>3 DEF Verify, Claim
<1>4. CASE TickerSweep \/ Tick
  BY <1>4 DEF TickerSweep, Tick, Swept
<1>5. CASE StopRegistry \/ BootRegistry \/ UNCHANGED regVars
  BY <1>5 DEF StopRegistry, BootRegistry, Swept
<1> QED
  BY <1>1, <1>2, <1>3, <1>4, <1>5 DEF RegNext

-----------------------------------------------------------------------------
(* An entry is younger than its time to live at the next sweep, plus one   *)
(* interval for each sweep that failed; a request is younger than a tick.  *)
AgeInv ==
  /\ clock \in Nat /\ due \in Nat /\ sweepFaults \in Nat
  /\ running \in BOOLEAN
  /\ running => clock <= due /\ due <= clock + SweepEvery
  /\ ~running => registering = {}
  /\ \A r \in registering : r.at = clock
  /\ \A e \in pending : e.at \in Nat /\ due < e.at + TTL + Slack

OneEntryPerCode == \A e, f \in pending : e.code = f.code => e = f

RegInv == AgeInv /\ OneEntryPerCode

(* RegisterPending adds an entry under a free code only.                   *)
LEMMA NextOneEntry ==
  ASSUME OneEntryPerCode,
         RegNext \/ StopRegistry \/ BootRegistry \/ UNCHANGED regVars
  PROVE  OneEntryPerCode'
BY PendingStep DEF OneEntryPerCode, CodesOut

(* The sweeps keep up with the entries.                                    *)
LEMMA NextAge ==
  ASSUME AgeInv, RegNext \/ StopRegistry \/ BootRegistry \/ UNCHANGED regVars
  PROVE  AgeInv'
<1> /\ clock \in Nat /\ due \in Nat /\ sweepFaults \in Nat
    /\ running \in BOOLEAN /\ TTL \in Nat \ {0} /\ SweepEvery \in Nat \ {0}
  BY KeyRegistryAssumption DEF AgeInv
<1>1. Slack \in Nat /\ SweepEvery <= Slack
  BY SlackGrows DEF Slack
<1>2. ASSUME UNCHANGED <<running, timeVars>>,
             registering' \subseteq registering,
             \A e \in pending' : e.at \in Nat /\ due < e.at + TTL + Slack
      PROVE  AgeInv'
  BY <1>2 DEF AgeInv, Slack
<1>3. ASSUME NEW k \in Key, Register(k) PROVE AgeInv'
  BY <1>3 DEF Register, AgeInv, Slack
<1>4. ASSUME NEW r \in registering, NEW c \in Code, DrawCode(r, c) PROVE AgeInv'
  <2>1. running /\ UNCHANGED <<running, timeVars>>
    BY <1>4 DEF DrawCode
  <2>2. r.at = clock /\ due <= clock + SweepEvery
    BY <2>1 DEF AgeInv
  <2>3. CASE pending' = pending \cup {[code |-> c, key |-> r.key, at |-> r.at]}
             /\ registering' = registering \ {r}
    <3>1. r.at \in Nat /\ due < r.at + TTL + Slack
      BY <1>1, <2>2
    <3> QED
      BY <1>2, <2>1, <2>3, <3>1 DEF AgeInv
  <2>4. CASE pending' = pending /\ \A q \in registering' : q.at = r.at \/ q \in registering
    BY <2>1, <2>2, <2>4 DEF AgeInv, Slack
  <2>5. [r EXCEPT !.draws = @ + 1].at = r.at
    OBVIOUS
  <2> QED
    BY <1>4, <2>3, <2>4, <2>5, Zenon DEF DrawCode
<1>5. ASSUME NEW c \in Code, Verify(c) \/ Claim(c) PROVE AgeInv'
  <2>1. UNCHANGED <<running, registering, timeVars>> /\ pending' \subseteq pending
    BY <1>5 DEF Verify, Claim
  <2> QED
    BY <1>2, <2>1 DEF AgeInv
<1>6. CASE TickerSweep
  <2>1. /\ running /\ clock = due /\ due' = clock + SweepEvery
        /\ UNCHANGED <<running, registering, clock>>
    BY <1>6 DEF TickerSweep
  <2>2. CASE pending' = Swept /\ UNCHANGED sweepFaults
    <3>1. \A e \in pending' : e.at \in Nat /\ e.at + TTL > clock
      BY <2>2 DEF Swept, AgeInv
    <3>2. Slack' = Slack
      BY <2>2 DEF Slack
    <3>3. \A e \in pending' : e.at \in Nat /\ due' < e.at + TTL + Slack'
      BY <1>1, <2>1, <3>1, <3>2
    <3> QED
      BY <2>1, <2>2, <3>3 DEF AgeInv
  <2>3. CASE sweepFaults' = sweepFaults + 1 /\ UNCHANGED pending
    <3>1. Slack' = Slack + SweepEvery
      BY <2>3, SlackGrows DEF Slack
    <3>2. \A e \in pending' : e.at \in Nat /\ due' < e.at + TTL + Slack'
      BY <1>1, <2>1, <2>3, <3>1 DEF AgeInv
    <3> QED
      BY <2>1, <2>3, <3>2 DEF AgeInv
  <2> QED
    BY <1>6, <2>2, <2>3 DEF TickerSweep
<1>7. CASE Tick
  BY <1>7 DEF Tick, AgeInv, Slack
<1>8. CASE StopRegistry
  BY <1>8, Zenon DEF StopRegistry, AgeInv, Slack
<1>9. CASE BootRegistry
  <2>1. /\ ~running /\ running' = TRUE /\ due' = clock + SweepEvery
        /\ pending' = Swept /\ UNCHANGED <<registering, clock, sweepFaults>>
    BY <1>9 DEF BootRegistry
  <2>2. \A e \in pending' : e.at \in Nat /\ e.at + TTL > clock
    BY <2>1 DEF Swept, AgeInv
  <2>3. Slack' = Slack
    BY <2>1 DEF Slack
  <2>4. \A e \in pending' : e.at \in Nat /\ due' < e.at + TTL + Slack'
    BY <1>1, <2>1, <2>2, <2>3
  <2> QED
    BY <2>1, <2>4 DEF AgeInv
<1>10. CASE UNCHANGED regVars
  BY <1>10 DEF AgeInv, Slack
<1> QED
  BY <1>3, <1>4, <1>5, <1>6, <1>7, <1>8, <1>9, <1>10 DEF RegNext

(* Within Login, only the registry touches its buckets.                    *)
LEMMA RegInvariant == Spec => []RegInv
<1>1. Init => RegInv
  BY KeyRegistryAssumption DEF Init, RegInit, RegInv, AgeInv, OneEntryPerCode
<1>2. RegInv /\ [Next]_vars => RegInv'
  BY RegistryStep, NextAge, NextOneEntry DEF RegInv
<1> QED
  BY <1>1, <1>2, PTL DEF Spec

-----------------------------------------------------------------------------
(* A claim code that is out stands for one registration until it is        *)
(* claimed or swept, however many agents register at the same time.        *)
THEOREM CodeIsNotTakenOver == Spec => CodeNotTakenOver
<1>1. ASSUME RegInv, [Next]_vars
      PROVE  \A e \in pending, f \in pending' : e.code = f.code => e = f
  BY <1>1, RegistryStep, PendingStep DEF RegInv, OneEntryPerCode, CodesOut
<1>2. RegInv /\ [Next]_vars =>
        [\A e \in pending, f \in pending' : e.code = f.code => e = f]_regVars
  BY <1>1
<1> QED
  BY <1>2, RegInvariant, PTL DEF Spec, CodeNotTakenOver

(* No registration is approved after its time to live plus one sweep       *)
(* interval, and one more for each sweep that failed, however claims,      *)
(* sweeps, crashes and restarts of the relay interleave.                   *)
THEOREM ClaimIsInTime == Spec => ClaimedInTime
<1> DEFINE InTime ==
      \A k \in approved' \ approved :
        \E e \in pending :
          /\ e.key = k /\ e.code \in claiming
          /\ clock < e.at + TTL + SweepEvery * (1 + sweepFaults)
<1>1. ASSUME RegInv, NEW c \in Code, Claim(c) PROVE InTime
  <2> SUFFICES ASSUME NEW k \in approved' \ approved
               PROVE  \E e \in pending :
                        /\ e.key = k /\ e.code \in claiming
                        /\ clock < e.at + TTL + SweepEvery * (1 + sweepFaults)
    OBVIOUS
  <2>1. running /\ c \in claiming /\ \E e \in pending : e.code = c /\ e.key = k
    BY <1>1 DEF Claim
  <2>2. PICK e \in pending : e.code = c /\ e.key = k
    BY <2>1
  <2>3. /\ clock \in Nat /\ due \in Nat /\ clock <= due /\ e.at \in Nat
        /\ due < e.at + TTL + Slack
    BY <1>1, <2>1 DEF RegInv, AgeInv
  <2>4. Slack \in Nat /\ TTL \in Nat
    BY <1>1, KeyRegistryAssumption, SlackGrows DEF Slack, RegInv, AgeInv
  <2>5. clock < e.at + TTL + Slack
    BY <2>3, <2>4
  <2> QED
    BY <2>1, <2>2, <2>5 DEF Slack
<1>2. ASSUME RegNext \/ StopRegistry \/ BootRegistry \/ UNCHANGED regVars,
             ~\E c \in Code : Claim(c)
      PROVE  approved' = approved
  BY <1>2 DEF RegNext, Register, DrawCode, Verify, TickerSweep, Tick,
              StopRegistry, BootRegistry
<1>3. RegInv /\ [Next]_vars => [InTime]_regVars
  BY <1>1, <1>2, RegistryStep
<1> QED
  BY <1>3, RegInvariant, PTL DEF Spec, ClaimedInTime

-----------------------------------------------------------------------------
(* The client and the relay                                                *)

Frames == {"challenge", "ok", "fail", "env"}

Has(c, f) == \E k \in DOMAIN c : c[k] = f

(* What follows a verdict: nothing a refusal, frames of the session only   *)
(* an acceptance.                                                          *)
FailLast(c) == \A k \in DOMAIN c : c[k] = "fail" => k = Len(c)
Orderly(c) ==
  \A k \in DOMAIN c : c[k] = "env" => \E j \in DOMAIN c : j < k /\ c[j] = "ok"

(* One socket: the client's handshake a, readyState r and promise p, the   *)
(* link l, the frames c under way to the client, the relay's progress s,   *)
(* and whether the key was admissible (m).                                 *)
Handshake(a, r, p, l, c, s, m) ==
  /\ c \in Seq(Frames)
  /\ p \in {"none", "pending", "resolved", "rejected"}
  /\ a = "done" \/ Has(c, "ok") => m /\ s \in {"live", "over"}
  /\ s \in {"admitted", "registered", "live"} => m
  /\ FailLast(c) /\ (Has(c, "fail") => s = "over")
  /\ a # "done" => Orderly(c)
  /\ s = "live" /\ l = "up" /\ r \in {"open", "closing"} => a = "done" \/ Has(c, "ok")
  /\ p = "none" => r = "none"
  /\ p \in {"none", "pending"} => a # "done"
  /\ p = "resolved" => a = "done"
  /\ p = "rejected" /\ a # "done" /\ r \notin {"ending", "closed"}
       => s = "over" /\ c = <<>>

Admissible == LockedMode => IsApproved(Me)

Shook(i) == Handshake(authState[i], ready[i], promise[i], link[i], toClient[i], srv[i],
                      Admissible)

(* Only the latest socket's connect() can be pending; the timers follow    *)
(* the promises; a loop waits only while nothing is pending.               *)
LoopInv ==
  /\ ws \in 0 .. MaxSockets
  /\ \A i \in Socket : promise[i] = "none" <=> i > ws
  /\ \A i \in Socket : promise[i] = "pending" => i = ws
  /\ byLoop \subseteq Socket
  /\ authTimer = {i \in Socket : promise[i] = "pending"}
  /\ waiting \in {0, 1}
  /\ waiting = 1 => /\ ~authenticated /\ ws # 0
                    /\ \A i \in Socket : promise[i] # "pending"

FlagInv ==
  /\ authenticated \in BOOLEAN /\ heartbeat = authenticated
  /\ intervals = (IF authenticated THEN 1 ELSE 0)
  /\ authenticated => ws \in Socket /\ authState[ws] = "done"

LeaveInv ==
  /\ leavingWs \in Nat /\ leavingWs <= ws
  /\ leaving = "no" => leavingWs = 0

SessionInv ==
  /\ session \in 0 .. MaxSockets
  /\ \A i \in Socket : srv[i] \in {"registered", "live"} <=> session = i

ShookInv == \A i \in Socket : Shook(i)

(* LossIsHandled, without its cardinality.                                 *)
Handled ==
  \/ ~autoReconnect \/ leaving # "no" \/ silenced \/ gaveUp
  \/ \A i \in Socket : authState[i] # "done"
  \/ authenticated \/ waiting = 1
  \/ \E i \in Socket : i \in byLoop /\ promise[i] = "pending"

IsMap(f) == f = [i \in Socket |-> f[i]]

Shape ==
  /\ IsMap(authState) /\ IsMap(ready) /\ IsMap(promise) /\ IsMap(link)
  /\ IsMap(toClient) /\ IsMap(srv)

IInv == Shape /\ ShookInv /\ LoopInv /\ FlagInv /\ LeaveInv /\ SessionInv /\ Handled

-----------------------------------------------------------------------------
(* Lemmas about the frames of a socket                                     *)

LEMMA FramesEmpty ==
  /\ <<>> \in Seq(Frames) /\ FailLast(<<>>) /\ Orderly(<<>>)
  /\ \A f : ~Has(<<>>, f)
BY DEF FailLast, Orderly, Has

LEMMA FramesRead ==
  ASSUME NEW c \in Seq(Frames), c # <<>>
  PROVE  /\ Tail(c) \in Seq(Frames) /\ Has(c, Head(c))
         /\ FailLast(c) => FailLast(Tail(c)) /\ (Head(c) = "fail" => Tail(c) = <<>>)
         /\ Orderly(c) => Head(c) # "env" /\ (Head(c) # "ok" => Orderly(Tail(c)))
         /\ \A f : Has(Tail(c), f) => Has(c, f)
         /\ \A f : Has(c, f) /\ Head(c) # f => Has(Tail(c), f)
<1> DEFINE t == Tail(c)
<1>1. /\ \A k \in DOMAIN t : k \in Nat /\ k + 1 \in DOMAIN c /\ t[k] = c[k + 1]
      /\ \A k \in DOMAIN c : k \in Nat /\ (k = 1 \/ (k - 1 \in DOMAIN t /\ t[k - 1] = c[k]))
      /\ Len(t) = Len(c) - 1 /\ Len(c) \in Nat /\ t \in Seq(Frames)
      /\ 1 \in DOMAIN c /\ c[1] = Head(c) /\ \A k \in DOMAIN c : k >= 1
      /\ Len(c) = 1 => t = <<>>
  OBVIOUS
<1> HIDE DEF t
<1>2. Has(c, Head(c))
  BY <1>1, Zenon DEF Has
<1>3. ASSUME FailLast(c)
      PROVE  FailLast(t) /\ (Head(c) = "fail" => t = <<>>)
  <2>1. ASSUME NEW k \in DOMAIN t, t[k] = "fail" PROVE k = Len(t)
    <3>1. k + 1 = Len(c)
      BY <1>1, <1>3, <2>1, Zenon DEF FailLast
    <3> QED BY <1>1, <3>1
  <2>2. Head(c) = "fail" => t = <<>>
    BY <1>1, <1>3, Zenon DEF FailLast
  <2> QED BY <2>1, <2>2, Zenon DEF FailLast
<1>4. ASSUME Orderly(c)
      PROVE  Head(c) # "env" /\ (Head(c) # "ok" => Orderly(t))
  <2>1. Head(c) # "env"
    BY <1>1, <1>4 DEF Orderly
  <2>2. ASSUME Head(c) # "ok", NEW k \in DOMAIN t, t[k] = "env"
        PROVE  \E j \in DOMAIN t : j < k /\ t[j] = "ok"
    <3>1. PICK j \in DOMAIN c : j < k + 1 /\ c[j] = "ok"
      BY <1>1, <1>4, <2>2, Zenon DEF Orderly
    <3>2. j - 1 \in DOMAIN t /\ t[j - 1] = "ok"
      BY <1>1, <2>2, <3>1, Zenon
    <3>3. j - 1 < k
      BY <1>1, <3>1
    <3> QED BY <3>2, <3>3, Zenon
  <2> QED BY <2>1, <2>2, Zenon DEF Orderly
<1>5. /\ \A f : Has(t, f) => Has(c, f)
      /\ \A f : Has(c, f) /\ Head(c) # f => Has(t, f)
  BY <1>1, Zenon DEF Has
<1> QED BY <1>1, <1>2, <1>3, <1>4, <1>5, Zenon DEF t

LEMMA FramesWrite ==
  ASSUME NEW c \in Seq(Frames), NEW f \in Frames
  PROVE  /\ Append(c, f) \in Seq(Frames)
         /\ \A g : Has(Append(c, f), g) <=> Has(c, g) \/ f = g
         /\ ~Has(c, "fail") => FailLast(Append(c, f))
         /\ Orderly(c) /\ (f # "env" \/ Has(c, "ok")) => Orderly(Append(c, f))
<1> DEFINE d == Append(c, f)
<1>1. /\ \A k \in DOMAIN c : k \in DOMAIN d /\ d[k] = c[k] /\ k < Len(d)
      /\ \A k \in DOMAIN d : k = Len(d) \/ (k \in DOMAIN c /\ d[k] = c[k])
      /\ Len(d) \in DOMAIN d /\ d[Len(d)] = f /\ d \in Seq(Frames)
  OBVIOUS
<1> HIDE DEF d
<1>2. \A g : Has(d, g) <=> Has(c, g) \/ f = g
  BY <1>1, Zenon DEF Has
<1>3. ~Has(c, "fail") => FailLast(d)
  BY <1>1, Zenon DEF Has, FailLast
<1>4. Orderly(c) /\ (f # "env" \/ Has(c, "ok")) => Orderly(d)
  BY <1>1, Zenon DEF Has, Orderly
<1> QED BY <1>1, <1>2, <1>3, <1>4, Zenon DEF d

-----------------------------------------------------------------------------
(* What may happen to a socket                                             *)

LEMMA Fresh ==
  ASSUME NEW a, NEW l, NEW c, NEW s, NEW m, Handshake(a, "none", "none", l, c, s, m)
  PROVE  Handshake(a, "connecting", "pending", l, c, s, m)
BY Zenon DEF Handshake

Settle(p) == IF p = "pending" THEN "rejected" ELSE p
Accept(p) == IF p = "pending" THEN "resolved" ELSE p
Close(r) == CASE r = "open" -> "closing" [] r = "connecting" -> "ending" [] OTHER -> r
Shut(l) == IF l = "up" THEN "closed" ELSE l

LEMMA CloseFacts ==
  ASSUME NEW r
  PROVE  /\ Close(r) \in {"open", "closing"} <=> r \in {"open", "closing"}
         /\ r \in {"ending", "closed", "none"} => Close(r) = r
BY DEF Close

LEMMA Closes ==
  ASSUME NEW a, NEW r, NEW p, NEW l, NEW c, NEW s, NEW m,
         Handshake(a, r, p, l, c, s, m)
  PROVE  Handshake(a, Close(r), p, l, c, s, m)
BY CloseFacts, Zenon DEF Handshake

LEMMA Clears ==
  ASSUME NEW a, NEW r, NEW p, NEW l, NEW c, NEW s, NEW m,
         Handshake(a, r, p, l, c, s, m), p # "none",
         NEW q \in {"ending", "closed"}
  PROVE  /\ Handshake(a, q, p, l, <<>>, s, m)
         /\ Handshake(a, q, Settle(p), l, <<>>, s, m)
BY FramesEmpty, Zenon DEF Handshake, Settle

LEMMA Breaks ==
  ASSUME NEW a, NEW r, NEW p, NEW l, NEW c, NEW s, NEW m,
         Handshake(a, r, p, l, c, s, m)
  PROVE  Handshake(a, r, p, "cut", <<>>, s, m)
BY FramesEmpty, Zenon DEF Handshake

LEMMA Reading ==
  ASSUME NEW a, NEW r \in {"open", "closing"}, NEW p, NEW l, NEW c, NEW s, NEW m,
         Handshake(a, r, p, l, c, s, m), c # <<>>
  PROVE  /\ a # "done" => p = "pending" /\ Head(c) # "env"
         /\ a # "done" /\ Head(c) = "challenge" =>
              Handshake("awaiting_result", r, p, l, Tail(c), s, m)
         /\ a # "done" /\ Head(c) = "ok" =>
              Handshake("done", r, Accept(p), l, Tail(c), s, m)
         /\ a # "done" /\ Head(c) = "fail" =>
              Handshake(a, Close(r), Settle(p), l, Tail(c), s, m)
         /\ a = "done" => Handshake(a, r, p, l, Tail(c), s, m)
<1>1. /\ Tail(c) \in Seq(Frames) /\ Has(c, Head(c))
      /\ FailLast(Tail(c)) /\ (Head(c) = "fail" => Tail(c) = <<>>)
      /\ Orderly(c) => Head(c) # "env" /\ (Head(c) # "ok" => Orderly(Tail(c)))
      /\ \A f : Has(Tail(c), f) => Has(c, f)
      /\ \A f : Has(c, f) /\ Head(c) # f => Has(Tail(c), f)
  BY FramesRead, Zenon DEF Handshake
<1>2. a # "done" => p = "pending" /\ Head(c) # "env"
  BY <1>1, Zenon DEF Handshake
<1>3. a # "done" /\ Head(c) = "challenge" =>
        Handshake("awaiting_result", r, p, l, Tail(c), s, m)
  BY <1>1, <1>2, Zenon DEF Handshake
<1>4. a # "done" /\ Head(c) = "ok" =>
        Handshake("done", r, Accept(p), l, Tail(c), s, m)
  BY <1>1, <1>2, Zenon DEF Handshake, Accept
<1>5. a # "done" /\ Head(c) = "fail" =>
        Handshake(a, Close(r), Settle(p), l, Tail(c), s, m)
  BY <1>1, <1>2, CloseFacts, FramesEmpty, Zenon DEF Handshake, Settle
<1>6. a = "done" => Handshake(a, r, p, l, Tail(c), s, m)
  BY <1>1, Zenon DEF Handshake
<1> QED BY <1>2, <1>3, <1>4, <1>5, <1>6, Zenon

LEMMA Upgrades ==
  ASSUME NEW a, NEW p, NEW l, NEW c, NEW m,
         Handshake(a, "connecting", p, l, c, "none", m)
  PROVE  Handshake(a, "open", p, l, Append(c, "challenge"), "challenged", m)
<1>1. "challenge" \in Frames
  BY Zenon DEF Frames
<1>2. /\ Append(c, "challenge") \in Seq(Frames)
      /\ \A g : Has(Append(c, "challenge"), g) <=> Has(c, g) \/ "challenge" = g
      /\ ~Has(c, "fail") => FailLast(Append(c, "challenge"))
      /\ Orderly(c) => Orderly(Append(c, "challenge"))
  BY <1>1, FramesWrite, Zenon DEF Handshake
<1> QED BY <1>2, Zenon DEF Handshake

LEMMA Shuts ==
  ASSUME NEW a, NEW r, NEW p, NEW l, NEW c, NEW s, NEW m,
         Handshake(a, r, p, l, c, s, m)
  PROVE  /\ Handshake(a, r, p, Shut(l), c, s, m)
         /\ Handshake(a, r, p, l, c, "over", m)
         /\ Handshake(a, r, p, Shut(l), c, "over", m)
BY Zenon DEF Handshake, Shut

LEMMA Refuses ==
  ASSUME NEW a, NEW r, NEW p, NEW l, NEW c, NEW s \in {"challenged", "proved", "admitted"},
         NEW m, Handshake(a, r, p, l, c, s, m)
  PROVE  Handshake(a, r, p, Shut(l), Append(c, "fail"), "over", m)
<1>1. "fail" \in Frames
  BY Zenon DEF Frames
<1>2. /\ Append(c, "fail") \in Seq(Frames)
      /\ \A g : Has(Append(c, "fail"), g) <=> Has(c, g) \/ "fail" = g
      /\ ~Has(c, "fail") => FailLast(Append(c, "fail"))
      /\ Orderly(c) => Orderly(Append(c, "fail"))
  BY <1>1, FramesWrite, Zenon DEF Handshake
<1> QED BY <1>2, Zenon DEF Handshake, Shut

LEMMA Advances ==
  ASSUME NEW a, NEW r, NEW p, NEW l, NEW c, NEW s \in {"challenged", "proved", "admitted"},
         NEW m, Handshake(a, r, p, l, c, s, m)
  PROVE  /\ Handshake(a, r, p, l, c, "proved", m)
         /\ m => Handshake(a, r, p, l, c, "admitted", m)
         /\ m => Handshake(a, r, p, l, c, "registered", m)
BY Zenon DEF Handshake

LEMMA Answers ==
  ASSUME NEW a, NEW r, NEW p, NEW l, NEW c, NEW m,
         Handshake(a, r, p, l, c, "registered", m)
  PROVE  /\ Handshake(a, r, p, l, Append(c, "ok"), "live", m)
         /\ ~(l = "up" /\ r \in {"open", "closing"}) => Handshake(a, r, p, l, c, "live", m)
<1>1. "ok" \in Frames
  BY Zenon DEF Frames
<1>2. /\ Append(c, "ok") \in Seq(Frames)
      /\ \A g : Has(Append(c, "ok"), g) <=> Has(c, g) \/ "ok" = g
      /\ ~Has(c, "fail") => FailLast(Append(c, "ok"))
      /\ Orderly(c) => Orderly(Append(c, "ok"))
  BY <1>1, FramesWrite, Zenon DEF Handshake
<1> QED BY <1>2, Zenon DEF Handshake

LEMMA Pumps ==
  ASSUME NEW a, NEW r \in {"open", "closing"}, NEW p, NEW c, NEW m,
         Handshake(a, r, p, "up", c, "live", m)
  PROVE  Handshake(a, r, p, "up", Append(c, "env"), "live", m)
<1>1. "env" \in Frames
  BY Zenon DEF Frames
<1>2. /\ Append(c, "env") \in Seq(Frames)
      /\ \A g : Has(Append(c, "env"), g) <=> Has(c, g) \/ "env" = g
      /\ ~Has(c, "fail") => FailLast(Append(c, "env"))
      /\ Orderly(c) /\ Has(c, "ok") => Orderly(Append(c, "env"))
  BY <1>1, FramesWrite, Zenon DEF Handshake
<1> QED BY <1>2, Zenon DEF Handshake

-----------------------------------------------------------------------------
(* Maps, and the steps that concern one socket                             *)

Sets(g, f, x, v) == g = [f EXCEPT ![x] = v]
Updated(g, f, x, v) ==
  IsMap(g) /\ g[x] = v /\ \A z \in Socket : z # x => g[z] = f[z]

LEMMA MapUpdate ==
  ASSUME NEW f, NEW g, NEW x \in Socket, NEW v, IsMap(f), Sets(g, f, x, v)
  PROVE  Updated(g, f, x, v)
BY DEF IsMap, Sets, Updated

LEMMA MapSame ==
  ASSUME NEW f, NEW x, IsMap(f)
  PROVE  Updated(f, f, x, f[x])
BY Zenon DEF Updated

Moves(y, a, r, p, l, c, s) ==
  /\ Updated(authState', authState, y, a) /\ Updated(ready', ready, y, r)
  /\ Updated(promise', promise, y, p) /\ Updated(link', link, y, l)
  /\ Updated(toClient', toClient, y, c) /\ Updated(srv', srv, y, s)

(* The other sockets stay as they are.                                     *)
LEMMA OneSocket ==
  ASSUME ShookInv, NEW y \in Socket, approved' = approved,
         NEW a, NEW r, NEW p, NEW l, NEW c, NEW s,
         Moves(y, a, r, p, l, c, s), Handshake(a, r, p, l, c, s, Admissible)
  PROVE  Shape' /\ ShookInv'
<1>1. Admissible' = Admissible
  BY Zenon DEF Admissible, IsApproved
<1>2. ASSUME NEW z \in Socket, z # y PROVE Shook(z)'
  BY <1>1, <1>2, Zenon DEF Moves, Updated, Shook, ShookInv
<1>3. Shook(y)'
  BY <1>1, Zenon DEF Moves, Updated, Shook
<1>4. Shape'
  BY Zenon DEF Moves, Updated, Shape
<1> QED BY <1>2, <1>3, <1>4, Zenon DEF ShookInv

-----------------------------------------------------------------------------
(* What the steps do to the client's fields                                *)

KeepFlags ==
  /\ authenticated' = authenticated /\ heartbeat' = heartbeat
  /\ intervals' = intervals
KeepLoop ==
  /\ waiting' = waiting /\ byLoop' = byLoop /\ gaveUp' = gaveUp
  /\ autoReconnect' = autoReconnect
KeepLeave == leaving' = leaving /\ leavingWs' = leavingWs
KeepServer == srv' = srv /\ session' = session /\ approved' = approved

Quiet ==
  /\ ws' = ws /\ promise' = promise /\ authTimer' = authTimer /\ silenced' = silenced
  /\ KeepFlags /\ KeepLoop /\ KeepLeave
  /\ \A i \in Socket : authState'[i] = "done" <=> authState[i] = "done"

Opens(y) ==
  /\ y = ws + 1 /\ ws' = y /\ authState' = authState /\ silenced' = silenced
  /\ Updated(promise', promise, y, "pending") /\ authTimer' = authTimer \cup {y}
  /\ KeepFlags /\ KeepLeave /\ gaveUp' = gaveUp /\ autoReconnect' = autoReconnect
  /\ \/ ws = 0 /\ waiting' = waiting /\ byLoop' = byLoop
     \/ waiting > 0 /\ waiting' = waiting - 1 /\ byLoop' = byLoop \cup {y}

Leaves ==
  /\ ws' = ws /\ promise' = promise /\ authTimer' = authTimer /\ authState' = authState
  /\ waiting' = waiting /\ byLoop' = byLoop
  /\ Cleanup \/ KeepFlags
  /\ leaving' # "no" /\ leavingWs' \in {0, leavingWs, ws}

Accepts(i) ==
  /\ ws' = ws /\ authTimer' = authTimer \ {i} /\ silenced' = silenced
  /\ KeepLoop /\ KeepLeave /\ promise[i] = "pending"
  /\ Updated(promise', promise, i, "resolved") /\ Updated(authState', authState, i, "done")
  /\ authenticated' = TRUE /\ heartbeat' = TRUE /\ intervals' = intervals + 1

Rejects(i) ==
  /\ Updated(promise', promise, i, Settle(promise[i]))
  /\ gaveUp => gaveUp'
  /\ \/ /\ promise[i] = "pending" /\ i \in byLoop
        /\ \/ waiting' = waiting + 1
           \/ waiting' = waiting /\ gaveUp'
     \/ ~(promise[i] = "pending" /\ i \in byLoop) /\ waiting' = waiting

Fails(i) ==
  /\ ws' = ws /\ authState' = authState /\ authTimer' = authTimer \ {i}
  /\ byLoop' = byLoop /\ autoReconnect' = autoReconnect
  /\ authState[i] # "done" /\ promise[i] # "none" /\ Rejects(i)
  /\ silenced => silenced'
  /\ leaving' = "no" => leaving = "no"
  /\ \/ KeepFlags /\ promise[i] = "pending"
     \/ Cleanup /\ (authenticated /\ i # ws => silenced')
  /\ KeepLeave \/ leavingWs' = 0

Loses(i) ==
  /\ ws' = ws /\ authState' = authState /\ promise' = promise
  /\ authTimer' = authTimer \ {i} /\ byLoop' = byLoop /\ gaveUp' = gaveUp
  /\ autoReconnect' = autoReconnect /\ authState[i] = "done" /\ Cleanup
  /\ silenced => silenced'
  /\ leaving' = "no" => leaving = "no"
  /\ authenticated /\ i # ws => silenced'
  /\ waiting' = IF authenticated /\ autoReconnect THEN waiting + 1 ELSE waiting
  /\ KeepLeave \/ leavingWs' = 0

Beats ==
  /\ ws' = ws /\ authState' = authState /\ promise' = promise /\ authTimer' = authTimer
  /\ KeepLoop /\ KeepLeave /\ Cleanup /\ silenced'

ClientEffect ==
  \/ Quiet \/ Leaves \/ Beats
  \/ \E i \in Socket : Opens(i) \/ Accepts(i) \/ Fails(i) \/ Loses(i)

(* ... and to the relay's.                                                 *)
In(s) == s \in {"registered", "live"}

ServerEffect ==
  \/ srv' = srv /\ session' = session
  \/ session' = 0 /\ \A z \in Socket : ~In(srv'[z])
  \/ \E i \in Socket :
       /\ \A z \in Socket : z # i => srv'[z] = srv[z]
       /\ \/ session' = session /\ (In(srv'[i]) <=> In(srv[i]))
          \/ session = 0 /\ session' = i /\ In(srv'[i])
          \/ In(srv[i]) /\ ~In(srv'[i]) /\ session' = 0

Does == Shape' /\ ShookInv' /\ ClientEffect /\ ServerEffect

-----------------------------------------------------------------------------
(* The client's steps                                                      *)

LEMMA ConnectDoes ==
  ASSUME Shape, ShookInv, LoopInv, KeepServer, NEW loop, Connect(loop),
         UNCHANGED <<flagVars, autoReconnect, gaveUp, leaveVars, silenced, wireVars>>,
         \/ ws = 0 /\ waiting' = waiting /\ ~loop
         \/ waiting > 0 /\ waiting' = waiting - 1 /\ loop
  PROVE  Does
<1> DEFINE y == ws + 1
<1>1. y \in Socket /\ y > ws
  BY RelayClientAssumption DEF LoopInv, Connect, Socket
<1>2. /\ Sets(ready', ready, y, "connecting") /\ Sets(promise', promise, y, "pending")
      /\ authState' = authState /\ ws' = y /\ authTimer' = authTimer \cup {y}
      /\ byLoop' = IF loop THEN byLoop \cup {y} ELSE byLoop
  BY Zenon DEF Connect, Sets
<1> HIDE DEF y
<1>3. link' = link /\ toClient' = toClient /\ srv' = srv /\ approved' = approved
  BY Zenon DEF wireVars, KeepServer
<1>4. Moves(y, authState[y], "connecting", "pending", link[y], toClient[y], srv[y])
  BY <1>1, <1>2, <1>3, MapUpdate, MapSame, Zenon DEF Shape, Moves
<1>5. Handshake(authState[y], ready[y], promise[y], link[y], toClient[y], srv[y], Admissible)
  BY <1>1, Zenon DEF ShookInv, Shook
<1>6. promise[y] = "none"
  BY <1>1, Zenon DEF LoopInv
<1>7. ready[y] = "none"
  BY <1>5, <1>6, Zenon DEF Handshake
<1>8. Handshake(authState[y], "connecting", "pending", link[y], toClient[y], srv[y],
                Admissible)
  BY <1>5, <1>6, <1>7, Fresh, Zenon
<1>9. Opens(y)
  BY <1>2, <1>4, Zenon DEF Opens, Moves, KeepFlags, KeepLeave, flagVars, leaveVars, y
<1>10. Shape' /\ ShookInv'
  BY <1>1, <1>3, <1>4, <1>8, OneSocket, Zenon
<1> QED BY <1>1, <1>9, <1>10, Zenon DEF Does, ClientEffect, ServerEffect, KeepServer

(* A socket that exists, as its handlers find it.                          *)
LEMMA SocketIs ==
  ASSUME ShookInv, LoopInv, NEW i \in Socket
  PROVE  /\ Handshake(authState[i], ready[i], promise[i], link[i], toClient[i], srv[i],
                      Admissible)
         /\ ready[i] # "none" => promise[i] # "none"
         /\ i = ws => promise[i] # "none"
<1>1. Handshake(authState[i], ready[i], promise[i], link[i], toClient[i], srv[i],
                Admissible)
  BY Zenon DEF ShookInv, Shook
<1>2. i = ws => ~(i > ws)
  BY RelayClientAssumption DEF LoopInv, Socket
<1> QED BY <1>1, <1>2, Zenon DEF Handshake, LoopInv

LEMMA ClosingIs ==
  ASSUME Shape, NEW i \in Socket
  PROVE  /\ Updated(Closing(i), ready, i, Close(ready[i]))
         /\ Updated(Ending(i), ready, i, IF ready[i] = "closed" THEN "closed" ELSE "ending")
<1>1. Sets(Closing(i), ready, i, Close(ready[i]))
  BY Zenon DEF Closing, Close, Sets
<1>2. Sets(Ending(i), ready, i, IF ready[i] = "closed" THEN "closed" ELSE "ending")
  BY Zenon DEF Ending, Sets
<1> QED BY <1>1, <1>2, MapUpdate, Zenon DEF Shape

LEMMA LeaveDoes ==
  ASSUME Shape, ShookInv, LoopInv, LeaveInv, KeepServer,
         Disconnect \/ DisconnectAsync
  PROVE  Does
<1>1. ws \in Socket
  BY RelayClientAssumption DEF LoopInv, Disconnect, DisconnectAsync, Socket
<1>2. /\ ready' = Closing(ws) /\ leaving' # "no" /\ leavingWs' \in {leavingWs, ws}
      /\ ws' = ws /\ authState' = authState /\ promise' = promise
      /\ authTimer' = authTimer /\ waiting' = waiting /\ byLoop' = byLoop
      /\ Cleanup \/ KeepFlags
      /\ link' = link /\ toClient' = toClient
  BY Zenon DEF Disconnect, DisconnectAsync, flagVars, wireVars, KeepFlags
<1>3. Moves(ws, authState[ws], Close(ready[ws]), promise[ws], link[ws], toClient[ws],
            srv[ws])
  BY <1>1, <1>2, ClosingIs, MapSame, Zenon DEF Shape, Moves, KeepServer
<1>4. Handshake(authState[ws], Close(ready[ws]), promise[ws], link[ws], toClient[ws],
                srv[ws], Admissible)
  BY <1>1, SocketIs, Closes, Zenon
<1>5. Shape' /\ ShookInv'
  BY <1>1, <1>3, <1>4, OneSocket, Zenon DEF KeepServer
<1>6. Leaves
  BY <1>2, Zenon DEF Leaves
<1> QED BY <1>5, <1>6, Zenon DEF Does, ClientEffect, ServerEffect, KeepServer

LEMMA LeaveTimeoutDoes ==
  ASSUME Shape, ShookInv, LoopInv, LeaveInv, KeepServer, NEW i \in Socket,
         LeaveTimeout(i)
  PROVE  Does
<1> DEFINE r == IF ready[i] = "closed" THEN "closed" ELSE "ending"
<1>1. /\ ready' = Ending(i) /\ leaving' = "left" /\ leavingWs' = 0
      /\ ws' = ws /\ authState' = authState /\ promise' = promise
      /\ authTimer' = authTimer /\ waiting' = waiting /\ byLoop' = byLoop
      /\ Cleanup /\ link' = link /\ i = leavingWs
      /\ Sets(toClient', toClient, i, <<>>)
  BY Zenon DEF LeaveTimeout, Left, loopVars, Sets
<1>2. Moves(i, authState[i], r, promise[i], link[i], <<>>, srv[i])
  BY <1>1, ClosingIs, MapUpdate, MapSame, Zenon DEF Shape, Moves, KeepServer
<1>3. promise[i] # "none"
  <2>1. i <= ws => ~(i > ws)
    BY RelayClientAssumption DEF LoopInv, Socket
  <2> QED BY <1>1, <2>1, Zenon DEF LoopInv, LeaveInv
<1>4. r \in {"ending", "closed"}
  BY Zenon
<1> HIDE DEF r
<1>5. Handshake(authState[i], r, promise[i], link[i], <<>>, srv[i], Admissible)
  BY <1>3, <1>4, SocketIs, Clears, Zenon
<1>6. Shape' /\ ShookInv'
  BY <1>2, <1>5, OneSocket, Zenon DEF KeepServer
<1>7. Leaves
  BY <1>1, Zenon DEF Leaves
<1> QED BY <1>6, <1>7, Zenon DEF Does, ClientEffect, ServerEffect, KeepServer

(* A frame the client reads.                                               *)
LEMMA ReadIs ==
  ASSUME ShookInv, LoopInv, NEW i \in Socket, ready[i] \in {"open", "closing"},
         toClient[i] # <<>>
  PROVE  LET a == authState[i]
             t == Tail(toClient[i])
             H(b, r, p) == Handshake(b, r, p, link[i], t, srv[i], Admissible)
         IN  /\ a # "done" => promise[i] = "pending" /\ Head(toClient[i]) # "env"
             /\ a # "done" /\ Head(toClient[i]) = "challenge" =>
                  H("awaiting_result", ready[i], promise[i])
             /\ a # "done" /\ Head(toClient[i]) = "ok" =>
                  H("done", ready[i], Accept(promise[i]))
             /\ a # "done" /\ Head(toClient[i]) = "fail" =>
                  H(a, Close(ready[i]), Settle(promise[i]))
             /\ a = "done" => H(a, ready[i], promise[i])
<1>1. Handshake(authState[i], ready[i], promise[i], link[i], toClient[i], srv[i],
                Admissible)
  BY SocketIs, Zenon
<1> QED BY <1>1, Reading, Zenon

LEMMA FrameIs ==
  ASSUME Shape, ShookInv, LoopInv, NEW i \in Socket, NEW f, Frame(i, f)
  PROVE  /\ Updated(toClient', toClient, i, Tail(toClient[i]))
         /\ ready[i] \in {"open", "closing"} /\ toClient[i] # <<>>
         /\ Head(toClient[i]) = f
         /\ authState[i] # "done" => promise[i] = "pending" /\ f # "env" /\ i = ws
<1>1. /\ Sets(toClient', toClient, i, Tail(toClient[i]))
      /\ ready[i] \in {"open", "closing"} /\ toClient[i] # <<>>
      /\ Head(toClient[i]) = f
  BY Zenon DEF Frame, Sets
<1>2. authState[i] # "done" => promise[i] = "pending" /\ f # "env"
  BY <1>1, ReadIs, Zenon
<1> QED BY <1>1, <1>2, MapUpdate, Zenon DEF Shape, LoopInv

LEMMA ChallengeDoes ==
  ASSUME Shape, ShookInv, LoopInv, KeepServer, NEW i \in Socket, OnChallenge(i)
  PROVE  Does
<1>1. /\ Frame(i, "challenge") /\ authState[i] = "awaiting_challenge"
      /\ Sets(authState', authState, i, "awaiting_result")
      /\ UNCHANGED <<ws, ready, promise, authTimer, flagVars, loopVars, leaveVars,
                     silenced, link>>
  BY Zenon DEF OnChallenge, Sets
<1>2. Updated(authState', authState, i, "awaiting_result")
  BY <1>1, MapUpdate, Zenon DEF Shape
<1>3. Moves(i, "awaiting_result", ready[i], promise[i], link[i], Tail(toClient[i]), srv[i])
  BY <1>1, <1>2, FrameIs, MapSame, Zenon DEF Shape, Moves, KeepServer
<1>4. Handshake("awaiting_result", ready[i], promise[i], link[i], Tail(toClient[i]),
                srv[i], Admissible)
  BY <1>1, FrameIs, ReadIs, Zenon
<1>5. Shape' /\ ShookInv'
  BY <1>3, <1>4, OneSocket, Zenon DEF KeepServer
<1>6. Quiet
  BY <1>1, <1>2, Zenon DEF Quiet, KeepFlags, KeepLoop, KeepLeave, flagVars, loopVars,
    leaveVars, Updated
<1> QED BY <1>5, <1>6, Zenon DEF Does, ClientEffect, ServerEffect, KeepServer

LEMMA EnvelopeDoes ==
  ASSUME Shape, ShookInv, LoopInv, KeepServer, NEW i \in Socket, OnEnvelope(i)
  PROVE  Does
<1>1. /\ Frame(i, "env") /\ authState[i] = "done"
      /\ UNCHANGED <<stateVars, flagVars, loopVars, leaveVars, silenced, link>>
  BY Zenon DEF OnEnvelope
<1>2. Moves(i, authState[i], ready[i], promise[i], link[i], Tail(toClient[i]), srv[i])
  BY <1>1, FrameIs, MapSame, Zenon DEF Shape, Moves, KeepServer, stateVars
<1>3. Handshake(authState[i], ready[i], promise[i], link[i], Tail(toClient[i]),
                srv[i], Admissible)
  BY <1>1, FrameIs, ReadIs, Zenon
<1>4. Shape' /\ ShookInv'
  BY <1>2, <1>3, OneSocket, Zenon DEF KeepServer
<1>5. Quiet
  BY <1>1, Zenon DEF Quiet, KeepFlags, KeepLoop, KeepLeave, stateVars, flagVars,
    loopVars, leaveVars
<1> QED BY <1>4, <1>5, Zenon DEF Does, ClientEffect, ServerEffect, KeepServer

LEMMA AcceptedDoes ==
  ASSUME Shape, ShookInv, LoopInv, KeepServer, NEW i \in Socket, OnAccepted(i)
  PROVE  Does
<1>1. /\ Frame(i, "ok") /\ authState[i] = "awaiting_result"
      /\ Sets(authState', authState, i, "done")
      /\ Sets(promise', promise, i, Accept(promise[i]))
      /\ authTimer' = authTimer \ {i} /\ authenticated' = TRUE
      /\ heartbeat' = TRUE /\ intervals' = intervals + 1
      /\ UNCHANGED <<ws, ready, autoReconnect, waiting, byLoop, gaveUp, leaveVars,
                     silenced, link>>
  BY Zenon DEF OnAccepted, Sets, Accept
<1>2. /\ Updated(authState', authState, i, "done")
      /\ Updated(promise', promise, i, Accept(promise[i]))
  BY <1>1, MapUpdate, Zenon DEF Shape
<1>3. Moves(i, "done", ready[i], Accept(promise[i]), link[i], Tail(toClient[i]), srv[i])
  BY <1>1, <1>2, FrameIs, MapSame, Zenon DEF Shape, Moves, KeepServer
<1>4. Handshake("done", ready[i], Accept(promise[i]), link[i], Tail(toClient[i]),
                srv[i], Admissible)
  BY <1>1, FrameIs, ReadIs, Zenon
<1>5. Shape' /\ ShookInv'
  BY <1>3, <1>4, OneSocket, Zenon DEF KeepServer
<1>6. Accepts(i)
  <2>1. promise[i] = "pending"
    BY <1>1, FrameIs, Zenon
  <2> QED BY <1>1, <1>2, <2>1, Zenon DEF Accepts, Accept, KeepLoop, KeepLeave, leaveVars
<1> QED BY <1>5, <1>6, Zenon DEF Does, ClientEffect, ServerEffect, KeepServer

LEMMA RejectIs ==
  ASSUME Shape, NEW i \in Socket, Reject(i)
  PROVE  Rejects(i)
<1>1. Sets(promise', promise, i, Settle(promise[i]))
  BY Zenon DEF Reject, Sets, Settle
<1>3. gaveUp => gaveUp'
  BY Zenon DEF Reject
<1>2. \/ /\ promise[i] = "pending" /\ i \in byLoop
         /\ \/ waiting' = waiting + 1
            \/ waiting' = waiting /\ gaveUp'
      \/ ~(promise[i] = "pending" /\ i \in byLoop) /\ waiting' = waiting
  BY Zenon DEF Reject
<1> QED BY <1>1, <1>2, <1>3, MapUpdate, Zenon DEF Rejects, Shape

LEMMA RefusedDoes ==
  ASSUME Shape, ShookInv, LoopInv, KeepServer, NEW i \in Socket, OnRefused(i)
  PROVE  Does
<1>0. PICK f \in {"fail", "env"} : Frame(i, f)
  BY Zenon DEF OnRefused
<1>1. /\ authState[i] # "done" /\ authTimer' = authTimer \ {i}
      /\ ready' = Closing(ws) /\ Reject(i)
      /\ UNCHANGED <<ws, authState, flagVars, autoReconnect, byLoop, leaveVars,
                     silenced, link>>
  BY Zenon DEF OnRefused
<1>2. /\ i = ws /\ promise[i] = "pending" /\ f = "fail" /\ Head(toClient[i]) = f
      /\ ready[i] \in {"open", "closing"} /\ toClient[i] # <<>>
      /\ Updated(toClient', toClient, i, Tail(toClient[i]))
  BY <1>0, <1>1, FrameIs, Zenon
<1>3. Rejects(i)
  BY <1>1, RejectIs, Zenon
<1>4. Moves(i, authState[i], Close(ready[i]), Settle(promise[i]), link[i],
            Tail(toClient[i]), srv[i])
  BY <1>1, <1>2, <1>3, ClosingIs, MapSame, Zenon DEF Shape, Moves, KeepServer, Rejects
<1>5. Handshake(authState[i], Close(ready[i]), Settle(promise[i]), link[i],
                Tail(toClient[i]), srv[i], Admissible)
  BY <1>1, <1>2, ReadIs, Zenon
<1>6. Shape' /\ ShookInv'
  BY <1>4, <1>5, OneSocket, Zenon DEF KeepServer
<1>7. Fails(i)
  BY <1>1, <1>2, <1>3, Zenon DEF Fails, KeepFlags, KeepLeave, flagVars, leaveVars
<1> QED BY <1>6, <1>7, Zenon DEF Does, ClientEffect, ServerEffect, KeepServer

LEMMA AuthTimeoutDoes ==
  ASSUME Shape, ShookInv, LoopInv, KeepServer, NEW i \in Socket, AuthTimeout(i)
  PROVE  Does
<1> DEFINE r == IF ready[i] = "closed" THEN "closed" ELSE "ending"
<1>1. /\ i \in authTimer /\ authTimer' = authTimer \ {i}
      /\ ready' = Ending(ws) /\ Reject(i)
      /\ Sets(toClient', toClient, ws, <<>>)
      /\ UNCHANGED <<ws, authState, flagVars, autoReconnect, byLoop, leaveVars,
                     silenced, link>>
  BY Zenon DEF AuthTimeout, Sets
<1>2. i = ws /\ promise[i] = "pending"
  BY <1>1, Zenon DEF LoopInv
<1>3. Rejects(i)
  BY <1>1, RejectIs, Zenon
<1>4. Moves(i, authState[i], r, Settle(promise[i]), link[i], <<>>, srv[i])
  <2>1. Updated(toClient', toClient, i, <<>>) /\ Updated(ready', ready, i, r)
    BY <1>1, <1>2, ClosingIs, MapUpdate, Zenon DEF Shape
  <2> QED BY <1>1, <1>3, <2>1, MapSame, Zenon DEF Shape, Moves, KeepServer, Rejects
<1>5. r \in {"ending", "closed"}
  BY Zenon
<1> HIDE DEF r
<1>6. Handshake(authState[i], ready[i], promise[i], link[i], toClient[i], srv[i],
                Admissible)
  BY SocketIs, Zenon
<1>7. Handshake(authState[i], r, Settle(promise[i]), link[i], <<>>, srv[i], Admissible)
  <2>1. promise[i] # "none"
    BY <1>2, Zenon
  <2> QED BY <1>5, <1>6, <2>1, Clears, Zenon
<1>8. Shape' /\ ShookInv'
  BY <1>4, <1>7, OneSocket, Zenon DEF KeepServer
<1>9. Fails(i)
  BY <1>1, <1>2, <1>3, <1>6, Zenon DEF Fails, KeepFlags, KeepLeave, flagVars, leaveVars,
    Handshake
<1> QED BY <1>8, <1>9, Zenon DEF Does, ClientEffect, ServerEffect, KeepServer

LEMMA CloseDoes ==
  ASSUME Shape, ShookInv, LoopInv, KeepServer, NEW i \in Socket, OnClose(i)
  PROVE  Does
<1>1. /\ authTimer' = authTimer \ {i}
      /\ Sets(ready', ready, i, "closed") /\ Sets(toClient', toClient, i, <<>>)
      /\ Cleanup
      /\ UNCHANGED <<ws, authState, autoReconnect, byLoop, link>>
  BY Zenon DEF OnClose, Sets
<1>2. /\ silenced => silenced'
      /\ authenticated /\ i # ws => silenced'
      /\ leaving' = "no" => leaving = "no"
      /\ KeepLeave \/ leavingWs' = 0
  BY Zenon DEF OnClose, Left, leaveVars, KeepLeave
<1>3. promise[i] # "none"
  <2>1. ready[i] # "none"
    BY Zenon DEF OnClose, Ends
  <2> QED BY <2>1, SocketIs, Zenon
<1>4. Updated(ready', ready, i, "closed") /\ Updated(toClient', toClient, i, <<>>)
  BY <1>1, MapUpdate, Zenon DEF Shape
<1>5. /\ Handshake(authState[i], "closed", promise[i], link[i], <<>>, srv[i], Admissible)
      /\ Handshake(authState[i], "closed", Settle(promise[i]), link[i], <<>>, srv[i],
                   Admissible)
  <2>1. Handshake(authState[i], ready[i], promise[i], link[i], toClient[i], srv[i],
                  Admissible)
    BY SocketIs, Zenon
  <2>2. "closed" \in {"ending", "closed"}
    BY Zenon
  <2> QED BY <1>3, <2>1, <2>2, Clears, Zenon
<1>6. CASE authState[i] # "done"
  <2>1. Rejects(i)
    BY <1>6, RejectIs, Zenon DEF OnClose
  <2>2. Moves(i, authState[i], "closed", Settle(promise[i]), link[i], <<>>, srv[i])
    BY <1>1, <1>4, <2>1, MapSame, Zenon DEF Shape, Moves, KeepServer, Rejects
  <2>3. Shape' /\ ShookInv'
    BY <1>5, <2>2, OneSocket, Zenon DEF KeepServer
  <2>4. Fails(i)
    BY <1>1, <1>2, <1>3, <1>6, <2>1, Zenon DEF Fails
  <2> QED BY <2>3, <2>4, Zenon DEF Does, ClientEffect, ServerEffect, KeepServer
<1>7. CASE authState[i] = "done"
  <2>1. /\ promise' = promise /\ gaveUp' = gaveUp
        /\ waiting' = IF authenticated /\ autoReconnect THEN waiting + 1 ELSE waiting
    BY <1>7, Zenon DEF OnClose
  <2>2. Moves(i, authState[i], "closed", promise[i], link[i], <<>>, srv[i])
    BY <1>1, <1>4, <2>1, MapSame, Zenon DEF Shape, Moves, KeepServer
  <2>3. Shape' /\ ShookInv'
    BY <1>5, <2>2, OneSocket, Zenon DEF KeepServer
  <2>4. Loses(i)
    BY <1>1, <1>2, <1>7, <2>1, Zenon DEF Loses
  <2> QED BY <2>3, <2>4, Zenon DEF Does, ClientEffect, ServerEffect, KeepServer
<1> QED BY <1>6, <1>7, Zenon

LEMMA HeartbeatDoes ==
  ASSUME Shape, ShookInv, LoopInv, FlagInv, KeepServer, HeartbeatEnds
  PROVE  Does
<1>1. authenticated /\ ws \in Socket
  <2>1. authenticated
    BY DEF FlagInv, HeartbeatEnds
  <2> QED BY <2>1, Zenon DEF FlagInv
<1>2. /\ Cleanup /\ silenced'
      /\ UNCHANGED <<ws, authState, promise, authTimer, loopVars, leaveVars, link>>
  BY <1>1, Zenon DEF HeartbeatEnds
<1>3. Handshake(authState[ws], ready[ws], promise[ws], link[ws], toClient[ws], srv[ws],
                Admissible) /\ promise[ws] # "none"
  BY <1>1, SocketIs, Zenon
<1>4. ASSUME UNCHANGED <<ready, toClient>>
      PROVE  Shape' /\ ShookInv'
  <2>1. Moves(ws, authState[ws], ready[ws], promise[ws], link[ws], toClient[ws], srv[ws])
    BY <1>2, <1>4, MapSame, Zenon DEF Shape, Moves, KeepServer
  <2> QED BY <1>1, <1>3, <2>1, OneSocket, Zenon DEF KeepServer
<1>5. ASSUME ready' = Ending(ws), Sets(toClient', toClient, ws, <<>>)
      PROVE  Shape' /\ ShookInv'
  <2> DEFINE r == IF ready[ws] = "closed" THEN "closed" ELSE "ending"
  <2>1. Updated(toClient', toClient, ws, <<>>) /\ Updated(ready', ready, ws, r)
    BY <1>1, <1>5, ClosingIs, MapUpdate, Zenon DEF Shape
  <2>2. Moves(ws, authState[ws], r, promise[ws], link[ws], <<>>, srv[ws])
    BY <1>2, <2>1, MapSame, Zenon DEF Shape, Moves, KeepServer
  <2>3. r \in {"ending", "closed"}
    BY Zenon
  <2> HIDE DEF r
  <2>4. Handshake(authState[ws], r, promise[ws], link[ws], <<>>, srv[ws], Admissible)
    BY <1>3, <2>3, Clears, Zenon
  <2> QED BY <1>1, <2>2, <2>4, OneSocket, Zenon DEF KeepServer
<1>6. Shape' /\ ShookInv'
  BY <1>4, <1>5, Zenon DEF HeartbeatEnds, Sets
<1>7. Beats
  BY <1>2, Zenon DEF Beats, KeepLoop, KeepLeave, loopVars, leaveVars
<1> QED BY <1>6, <1>7, Zenon DEF Does, ClientEffect, ServerEffect, KeepServer

LEMMA CutDoes ==
  ASSUME Shape, ShookInv, LoopInv, KeepServer, NEW i \in Socket, Cut(i)
  PROVE  Does
<1>1. /\ Sets(link', link, i, "cut") /\ Sets(toClient', toClient, i, <<>>)
      /\ UNCHANGED <<stateVars, flagVars, loopVars, leaveVars, silenced>>
  BY Zenon DEF Cut, Sets
<1>2. Updated(link', link, i, "cut") /\ Updated(toClient', toClient, i, <<>>)
  BY <1>1, MapUpdate, Zenon DEF Shape
<1>3. Moves(i, authState[i], ready[i], promise[i], "cut", <<>>, srv[i])
  BY <1>1, <1>2, MapSame, Zenon DEF Shape, Moves, KeepServer, stateVars
<1>4. Handshake(authState[i], ready[i], promise[i], "cut", <<>>, srv[i], Admissible)
  BY SocketIs, Breaks, Zenon
<1>5. Shape' /\ ShookInv'
  BY <1>3, <1>4, OneSocket, Zenon DEF KeepServer
<1>6. Quiet
  BY <1>1, Zenon DEF Quiet, KeepFlags, KeepLoop, KeepLeave, stateVars, flagVars,
    loopVars, leaveVars
<1> QED BY <1>5, <1>6, Zenon DEF Does, ClientEffect, ServerEffect, KeepServer

LEMMA ClientDoes ==
  ASSUME Shape, ShookInv, LoopInv, FlagInv, LeaveInv, ClientNext,
         UNCHANGED <<regVars, serverVars>>
  PROVE  Does
<1>1. KeepServer
  BY Zenon DEF KeepServer, serverVars
<1>2. CASE Start \/ Reconnect
  <2>1. CASE Start
    BY <1>1, <2>1, ConnectDoes, Zenon DEF Start
  <2>2. CASE Reconnect
    BY <1>1, <2>2, ConnectDoes, Zenon DEF Reconnect
  <2> QED BY <1>2, <2>1, <2>2, Zenon
<1>3. ASSUME NEW i \in Socket, SocketEvent(i) PROVE Does
  BY <1>1, <1>3, ChallengeDoes, AcceptedDoes, RefusedDoes, EnvelopeDoes, AuthTimeoutDoes,
    CloseDoes, LeaveTimeoutDoes, Zenon DEF SocketEvent
<1> QED BY <1>1, <1>2, <1>3, LeaveDoes, HeartbeatDoes, CutDoes, Zenon DEF ClientNext

-----------------------------------------------------------------------------
(* The relay's steps                                                       *)

LEMMA ServerQuiet ==
  ASSUME UNCHANGED clientSide
  PROVE  Quiet
BY Zenon DEF clientSide, Quiet, KeepFlags, KeepLoop, KeepLeave, flagVars, loopVars,
  leaveVars

(* A step of wsHandler for one socket.                                     *)
LEMMA ServerSocket ==
  ASSUME ShookInv, NEW i \in Socket, UNCHANGED <<clientSide, regVars>>,
         NEW r, NEW l, NEW c, NEW s,
         Moves(i, authState[i], r, promise[i], l, c, s),
         Handshake(authState[i], r, promise[i], l, c, s, Admissible),
         \/ session' = session /\ (In(s) <=> In(srv[i]))
         \/ session = 0 /\ session' = i /\ In(s)
         \/ In(srv[i]) /\ ~In(s) /\ session' = 0
  PROVE  Does
<1>1. Shape' /\ ShookInv'
  BY OneSocket, Zenon DEF regVars
<1>2. Quiet
  BY ServerQuiet, Zenon
<1>3. ServerEffect
  BY Zenon DEF ServerEffect, Moves, Updated
<1> QED BY <1>1, <1>2, <1>3, Zenon DEF Does, ClientEffect

LEMMA ShutIs ==
  ASSUME Shape, NEW i \in Socket,
         link' = [link EXCEPT ![i] = IF @ = "up" THEN "closed" ELSE @]
  PROVE  Updated(link', link, i, Shut(link[i]))
<1>1. Sets(link', link, i, Shut(link[i]))
  BY Zenon DEF Sets, Shut
<1> QED BY <1>1, MapUpdate, Zenon DEF Shape

LEMMA WriteIs ==
  ASSUME Shape, NEW i \in Socket, NEW f, WriteFrame(i, f)
  PROVE  \/ /\ link[i] = "up" /\ ready[i] \in {"open", "closing"}
            /\ Updated(toClient', toClient, i, Append(toClient[i], f))
         \/ /\ ~(link[i] = "up" /\ ready[i] \in {"open", "closing"})
            /\ Updated(toClient', toClient, i, toClient[i])
<1>1. CASE link[i] = "up" /\ ready[i] \in {"open", "closing"}
  <2>1. Sets(toClient', toClient, i, Append(toClient[i], f))
    BY <1>1, Zenon DEF WriteFrame, Reads, Sets
  <2> QED BY <1>1, <2>1, MapUpdate, Zenon DEF Shape
<1>2. CASE ~(link[i] = "up" /\ ready[i] \in {"open", "closing"})
  BY <1>2, MapSame, Zenon DEF WriteFrame, Reads, Shape
<1> QED BY <1>1, <1>2, Zenon

LEMMA UpgradeDoes ==
  ASSUME Shape, ShookInv, LoopInv, NEW i \in Socket, Upgrade(i)
  PROVE  Does
<1>1. /\ ready[i] = "connecting" /\ srv[i] = "none"
      /\ Sets(ready', ready, i, "open") /\ Sets(srv', srv, i, "challenged")
      /\ Sets(toClient', toClient, i, Append(toClient[i], "challenge"))
      /\ UNCHANGED <<clientSide, regVars>> /\ link' = link /\ session' = session
  BY Zenon DEF Upgrade, Sets
<1>2. Moves(i, authState[i], "open", promise[i], link[i], Append(toClient[i], "challenge"),
            "challenged")
  BY <1>1, MapUpdate, MapSame, Zenon DEF Shape, Moves, clientSide
<1>3. Handshake(authState[i], "open", promise[i], link[i],
                Append(toClient[i], "challenge"), "challenged", Admissible)
  <2>1. Handshake(authState[i], "connecting", promise[i], link[i], toClient[i], "none",
                  Admissible)
    BY <1>1, SocketIs, Zenon
  <2> QED BY <2>1, Upgrades, Zenon
<1>4. In("challenged") <=> In(srv[i])
  BY <1>1, Zenon DEF In
<1> QED BY <1>1, <1>2, <1>3, <1>4, ServerSocket, Zenon

LEMMA UpgradeFailsDoes ==
  ASSUME Shape, ShookInv, LoopInv, NEW i \in Socket, UpgradeFails(i)
  PROVE  Does
<1>1. /\ Sets(link', link, i, Shut(link[i]))
      /\ UNCHANGED <<clientSide, regVars>> /\ ready' = ready /\ toClient' = toClient
      /\ srv' = srv /\ session' = session
  BY Zenon DEF UpgradeFails, Sets, Shut, serverVars
<1>2. Moves(i, authState[i], ready[i], promise[i], Shut(link[i]), toClient[i], srv[i])
  BY <1>1, MapUpdate, MapSame, Zenon DEF Shape, Moves, clientSide
<1>3. Handshake(authState[i], ready[i], promise[i], Shut(link[i]), toClient[i], srv[i],
                Admissible)
  BY SocketIs, Shuts, Zenon
<1> QED BY <1>1, <1>2, <1>3, ServerSocket, Zenon

LEMMA RefuseDoes ==
  ASSUME Shape, ShookInv, LoopInv, NEW i \in Socket, Refuse(i), ready' = ready,
         UNCHANGED <<clientSide, regVars>>, srv[i] \in {"challenged", "proved", "admitted"}
  PROVE  Does
<1>1. /\ Sets(srv', srv, i, "over") /\ WriteFrame(i, "fail") /\ session' = session
      /\ link' = [link EXCEPT ![i] = IF @ = "up" THEN "closed" ELSE @]
  BY Zenon DEF Refuse, Sets
<1>2. Updated(srv', srv, i, "over") /\ Updated(link', link, i, Shut(link[i]))
  BY <1>1, ShutIs, MapUpdate, Zenon DEF Shape
<1>3. Handshake(authState[i], ready[i], promise[i], link[i], toClient[i], srv[i],
                Admissible)
  BY SocketIs, Zenon
<1>4. /\ Handshake(authState[i], ready[i], promise[i], Shut(link[i]), toClient[i], "over",
                   Admissible)
      /\ Handshake(authState[i], ready[i], promise[i], Shut(link[i]),
                   Append(toClient[i], "fail"), "over", Admissible)
  BY <1>3, Shuts, Refuses, Zenon
<1>5. In("over") <=> In(srv[i])
  BY Zenon DEF In
<1>6. ASSUME NEW c, Updated(toClient', toClient, i, c)
      PROVE  Moves(i, authState[i], ready[i], promise[i], Shut(link[i]), c, "over")
  BY <1>2, <1>6, MapSame, Zenon DEF Shape, Moves, clientSide
<1>7. CASE Updated(toClient', toClient, i, toClient[i])
  BY <1>1, <1>4, <1>5, <1>6, <1>7, ServerSocket, Zenon
<1>8. CASE Updated(toClient', toClient, i, Append(toClient[i], "fail"))
  BY <1>1, <1>4, <1>5, <1>6, <1>8, ServerSocket, Zenon
<1> QED BY <1>1, <1>7, <1>8, WriteIs, Zenon

(* wsHandler gets past one of its tests.                                   *)
LEMMA AdvanceDoes ==
  ASSUME Shape, ShookInv, LoopInv, NEW i \in Socket, ready' = ready,
         UNCHANGED <<clientSide, regVars>>, toClient' = toClient, link' = link,
         srv[i] \in {"challenged", "proved", "admitted"}, NEW s,
         Sets(srv', srv, i, s),
         \/ s = "proved" /\ session' = session
         \/ s = "admitted" /\ session' = session /\ Admissible
         \/ s = "registered" /\ session = 0 /\ session' = i /\ srv[i] = "admitted"
  PROVE  Does
<1>1. Moves(i, authState[i], ready[i], promise[i], link[i], toClient[i], s)
  BY MapUpdate, MapSame, Zenon DEF Shape, Moves, clientSide
<1>2. Handshake(authState[i], ready[i], promise[i], link[i], toClient[i], srv[i],
                Admissible)
  BY SocketIs, Zenon
<1>3. srv[i] = "admitted" => Admissible
  BY <1>2, Zenon DEF Handshake
<1>4. Handshake(authState[i], ready[i], promise[i], link[i], toClient[i], s, Admissible)
  BY <1>2, <1>3, Advances, Zenon
<1>5. \/ session' = session /\ (In(s) <=> In(srv[i]))
      \/ session = 0 /\ session' = i /\ In(s)
  BY Zenon DEF In
<1> QED BY <1>1, <1>4, <1>5, ServerSocket, Zenon

LEMMA AuthenticateDoes ==
  ASSUME Shape, ShookInv, LoopInv, NEW i \in Socket, Authenticate(i)
  PROVE  Does
<1>1. /\ srv[i] = "challenged" /\ ready' = ready /\ UNCHANGED <<clientSide, regVars>>
      /\ \/ /\ Sets(srv', srv, i, "proved") /\ session' = session
            /\ toClient' = toClient /\ link' = link
         \/ Refuse(i)
  BY Zenon DEF Authenticate, Sets
<1>2. srv[i] \in {"challenged", "proved", "admitted"}
  BY <1>1, Zenon
<1> QED BY <1>1, <1>2, AdvanceDoes, RefuseDoes, Zenon

LEMMA CheckKeyDoes ==
  ASSUME Shape, ShookInv, LoopInv, NEW i \in Socket, CheckKey(i)
  PROVE  Does
<1>1. /\ srv[i] = "proved" /\ ready' = ready /\ UNCHANGED <<clientSide, regVars>>
      /\ \/ /\ Sets(srv', srv, i, "admitted") /\ session' = session /\ Admissible
            /\ toClient' = toClient /\ link' = link
         \/ Refuse(i)
  BY Zenon DEF CheckKey, Sets, Admissible
<1>2. srv[i] \in {"challenged", "proved", "admitted"}
  BY <1>1, Zenon
<1> QED BY <1>1, <1>2, AdvanceDoes, RefuseDoes, Zenon

LEMMA RegisterDoes ==
  ASSUME Shape, ShookInv, LoopInv, NEW i \in Socket, RegisterClient(i)
  PROVE  Does
<1>1. /\ srv[i] = "admitted" /\ ready' = ready /\ UNCHANGED <<clientSide, regVars>>
      /\ \/ /\ Sets(srv', srv, i, "registered") /\ session = 0 /\ session' = i
            /\ toClient' = toClient /\ link' = link
         \/ Refuse(i)
  BY Zenon DEF RegisterClient, Sets
<1>2. srv[i] \in {"challenged", "proved", "admitted"}
  BY <1>1, Zenon
<1> QED BY <1>1, <1>2, AdvanceDoes, RefuseDoes, Zenon

(* The session ends: the write of the verdict fails, or a pump notices.    *)
LEMMA EndDoes ==
  ASSUME Shape, ShookInv, LoopInv, NEW i \in Socket, ready' = ready,
         UNCHANGED <<clientSide, regVars>>, toClient' = toClient, In(srv[i]),
         session' = 0, srv' = [srv EXCEPT ![i] = "over"],
         link' = [link EXCEPT ![i] = IF @ = "up" THEN "closed" ELSE @]
  PROVE  Does
<1>1. Updated(srv', srv, i, "over") /\ Updated(link', link, i, Shut(link[i]))
  BY ShutIs, MapUpdate, Zenon DEF Shape, Sets
<1>2. Moves(i, authState[i], ready[i], promise[i], Shut(link[i]), toClient[i], "over")
  BY <1>1, MapSame, Zenon DEF Shape, Moves, clientSide
<1>3. Handshake(authState[i], ready[i], promise[i], Shut(link[i]), toClient[i], "over",
                Admissible)
  BY SocketIs, Shuts, Zenon
<1>4. ~In("over")
  BY Zenon DEF In
<1> QED BY <1>2, <1>3, <1>4, ServerSocket, Zenon

LEMMA SendResultDoes ==
  ASSUME Shape, ShookInv, LoopInv, NEW i \in Socket, SendResult(i)
  PROVE  Does
<1>1. srv[i] = "registered" /\ ready' = ready /\ UNCHANGED <<clientSide, regVars>>
  BY Zenon DEF SendResult
<1>2. CASE /\ srv' = [srv EXCEPT ![i] = "live"] /\ WriteFrame(i, "ok")
           /\ UNCHANGED <<session, link>>
  <2>1. Updated(srv', srv, i, "live")
    BY <1>2, MapUpdate, Zenon DEF Shape, Sets
  <2>2. ASSUME NEW c, Updated(toClient', toClient, i, c)
        PROVE  Moves(i, authState[i], ready[i], promise[i], link[i], c, "live")
    BY <1>1, <1>2, <2>1, <2>2, MapSame, Zenon DEF Shape, Moves, clientSide
  <2>3. Handshake(authState[i], ready[i], promise[i], link[i], toClient[i], "registered",
                  Admissible)
    BY <1>1, SocketIs, Zenon
  <2>4. In("live") <=> In(srv[i])
    BY <1>1, Zenon DEF In
  <2>5. CASE Updated(toClient', toClient, i, Append(toClient[i], "ok"))
    <3>1. Handshake(authState[i], ready[i], promise[i], link[i],
                    Append(toClient[i], "ok"), "live", Admissible)
      BY <2>3, Answers, Zenon
    <3> QED BY <1>1, <1>2, <2>2, <2>4, <2>5, <3>1, ServerSocket, Zenon
  <2>6. CASE /\ ~(link[i] = "up" /\ ready[i] \in {"open", "closing"})
             /\ Updated(toClient', toClient, i, toClient[i])
    <3>1. Handshake(authState[i], ready[i], promise[i], link[i], toClient[i], "live",
                    Admissible)
      BY <2>3, <2>6, Answers, Zenon
    <3> QED BY <1>1, <1>2, <2>2, <2>4, <2>6, <3>1, ServerSocket, Zenon
  <2> QED BY <1>2, <2>5, <2>6, WriteIs, Zenon
<1>3. CASE /\ srv' = [srv EXCEPT ![i] = "over"] /\ session' = 0 /\ toClient' = toClient
           /\ link' = [link EXCEPT ![i] = IF @ = "up" THEN "closed" ELSE @]
  <2>1. In(srv[i])
    BY <1>1, Zenon DEF In
  <2> QED BY <1>1, <1>3, <2>1, EndDoes, Zenon
<1> QED BY <1>2, <1>3, Zenon DEF SendResult

LEMMA PumpDoes ==
  ASSUME Shape, ShookInv, LoopInv, NEW i \in Socket, PumpFrame(i)
  PROVE  Does
<1>1. /\ srv[i] = "live" /\ WriteFrame(i, "env") /\ UNCHANGED <<clientSide, regVars>>
      /\ UNCHANGED <<ready, link, srv, session>>
  BY Zenon DEF PumpFrame
<1>2. ASSUME NEW c, Updated(toClient', toClient, i, c)
      PROVE  Moves(i, authState[i], ready[i], promise[i], link[i], c, srv[i])
  BY <1>1, <1>2, MapSame, Zenon DEF Shape, Moves, clientSide
<1>3. Handshake(authState[i], ready[i], promise[i], link[i], toClient[i], srv[i],
                Admissible)
  BY SocketIs, Zenon
<1>4. CASE /\ link[i] = "up" /\ ready[i] \in {"open", "closing"}
           /\ Updated(toClient', toClient, i, Append(toClient[i], "env"))
  <2>1. Handshake(authState[i], ready[i], promise[i], link[i],
                  Append(toClient[i], "env"), srv[i], Admissible)
    BY <1>1, <1>3, <1>4, Pumps, Zenon
  <2> QED BY <1>1, <1>2, <1>4, <2>1, ServerSocket, Zenon
<1>5. CASE Updated(toClient', toClient, i, toClient[i])
  BY <1>1, <1>2, <1>3, <1>5, ServerSocket, Zenon
<1> QED BY <1>1, <1>4, <1>5, WriteIs, Zenon

LEMMA ServerDoes ==
  ASSUME Shape, ShookInv, LoopInv, NEW i \in Socket, ServerStep(i)
  PROVE  Does
<1>1. CASE SessionEnds(i)
  <2>1. /\ In(srv[i]) /\ session' = 0 /\ toClient' = toClient /\ ready' = ready
        /\ srv' = [srv EXCEPT ![i] = "over"] /\ UNCHANGED <<clientSide, regVars>>
        /\ link' = [link EXCEPT ![i] = IF @ = "up" THEN "closed" ELSE @]
    BY <1>1, Zenon DEF SessionEnds, In
  <2> QED BY <2>1, EndDoes, Zenon
<1> QED BY <1>1, UpgradeDoes, UpgradeFailsDoes, AuthenticateDoes, CheckKeyDoes,
  RegisterDoes, SendResultDoes, PumpDoes, Zenon DEF ServerStep

(* The relay dies.                                                         *)
LEMMA StopDoes ==
  ASSUME Shape, ShookInv, LoopInv, Stop
  PROVE  Does
<1>0. UNCHANGED clientSide /\ ready' = ready /\ toClient' = toClient
  BY Zenon DEF Stop
<1>1. /\ srv' = [i \in Socket |-> IF srv[i] = "none" THEN "none" ELSE "over"]
      /\ session' = 0
      /\ link' = [i \in Socket |->
                    IF srv[i] # "none" /\ link[i] = "up" THEN "closed" ELSE link[i]]
      /\ approved' = approved
  BY Zenon DEF Stop, StopRegistry
<1>2. authState' = authState /\ promise' = promise /\ Admissible' = Admissible
  BY <1>0, <1>1, Zenon DEF clientSide, Admissible, IsApproved
<1>3. ASSUME NEW i \in Socket
      PROVE  /\ srv'[i] = IF srv[i] = "none" THEN "none" ELSE "over"
             /\ link'[i] = link[i] \/ link'[i] = Shut(link[i])
  BY <1>1, Zenon DEF Shut
<1>4. ASSUME NEW i \in Socket PROVE Shook(i)'
  <2>1. Handshake(authState[i], ready[i], promise[i], link[i], toClient[i], srv[i],
                  Admissible)
    BY <1>4, SocketIs, Zenon
  <2>2. Handshake(authState[i], ready[i], promise[i], link'[i], toClient[i], srv'[i],
                  Admissible)
    BY <1>3, <1>4, <2>1, Shuts, Zenon
  <2> QED BY <1>0, <1>2, <2>2, Zenon DEF Shook
<1>5. Shape'
  <2>1. IsMap(srv') /\ IsMap(link')
    BY <1>1 DEF IsMap
  <2> QED BY <1>0, <1>2, <2>1, Zenon DEF Shape
<1>6. ServerEffect
  <2>1. \A z \in Socket : ~In(srv'[z])
    BY <1>3, Zenon DEF In
  <2> QED BY <1>1, <2>1, Zenon DEF ServerEffect
<1>7. Quiet
  BY <1>0, ServerQuiet, Zenon
<1> QED BY <1>4, <1>5, <1>6, <1>7, Zenon DEF Does, ClientEffect, ShookInv

(* The registry only adds approved keys.                                   *)
LEMMA RegistryDoes ==
  ASSUME Shape, ShookInv, LoopInv, RegNext \/ BootRegistry \/ UNCHANGED regVars,
         UNCHANGED <<clientVars, serverVars>>
  PROVE  Does
<1>1. approved \subseteq approved'
  BY DEF RegNext, BootRegistry, Register, DrawCode, Verify, Claim, TickerSweep, Tick
<1>2. Admissible => Admissible'
  BY <1>1, Zenon DEF Admissible, IsApproved
<1>3. /\ UNCHANGED <<ws, authState, ready, promise, authTimer, link, toClient, srv, session>>
      /\ UNCHANGED <<flagVars, loopVars, leaveVars, silenced>>
  BY Zenon DEF clientVars, serverVars, stateVars, wireVars
<1>4. ASSUME NEW i \in Socket PROVE Shook(i)'
  <2>1. Handshake(authState[i], ready[i], promise[i], link[i], toClient[i], srv[i],
                  Admissible)
    BY <1>4, SocketIs, Zenon
  <2>2. Handshake(authState[i], ready[i], promise[i], link[i], toClient[i], srv[i],
                  Admissible')
    BY <1>2, <2>1, Zenon DEF Handshake
  <2> QED BY <1>3, <2>2, Zenon DEF Shook
<1>5. Shape'
  BY <1>3, Zenon DEF Shape
<1>6. Quiet
  BY <1>3, Zenon DEF Quiet, KeepFlags, KeepLoop, KeepLeave, flagVars, loopVars, leaveVars
<1> QED BY <1>3, <1>4, <1>5, <1>6, Zenon DEF Does, ClientEffect, ServerEffect, ShookInv

LEMMA NextDoes ==
  ASSUME IInv, [Next]_vars
  PROVE  Does
<1>1. Shape /\ ShookInv /\ LoopInv /\ FlagInv /\ LeaveInv
  BY Zenon DEF IInv
<1>2. CASE UNCHANGED vars
  BY <1>1, <1>2, RegistryDoes, Zenon DEF vars
<1>3. CASE Next
  BY <1>1, <1>3, ClientDoes, ServerDoes, StopDoes, RegistryDoes, Zenon DEF Next, Boot
<1> QED BY <1>2, <1>3, Zenon

-----------------------------------------------------------------------------
(* The invariants of the client's fields                                   *)

LEMMA NextSession ==
  ASSUME SessionInv, ServerEffect
  PROVE  SessionInv'
<1>1. \A i \in Socket : In(srv[i]) <=> session = i
  BY Zenon DEF SessionInv, In
<1>2. 0 \in 0 .. MaxSockets /\ 0 \notin Socket /\ Socket \subseteq 0 .. MaxSockets
  BY RelayClientAssumption DEF Socket
<1>3. session' \in 0 .. MaxSockets
  BY <1>2, Zenon DEF ServerEffect, SessionInv
<1>4. \A i \in Socket : In(srv'[i]) <=> session' = i
  BY <1>1, <1>2, Zenon DEF ServerEffect
<1> QED BY <1>3, <1>4, Zenon DEF SessionInv, In

(* cleanup() leaves no interval running.                                   *)
LEMMA CleanFlags ==
  ASSUME FlagInv, Cleanup
  PROVE  FlagInv' /\ ~authenticated'
<1>1. intervals' = 0
  BY DEF FlagInv, Cleanup
<1> QED BY <1>1, Zenon DEF FlagInv, Cleanup

LEMMA KeptFlags ==
  ASSUME FlagInv, KeepFlags, ws' = ws, authState' = authState
  PROVE  FlagInv'
BY Zenon DEF FlagInv, KeepFlags

LEMMA NextFlags ==
  ASSUME ShookInv, LoopInv, FlagInv, ClientEffect
  PROVE  FlagInv'
<1>0. \A i \in Socket : promise[i] = "pending" => i = ws /\ ~authenticated
  BY Zenon DEF LoopInv, FlagInv, ShookInv, Shook, Handshake
<1>1. CASE Quiet
  <2>1. ws \in Socket => (authState'[ws] = "done" <=> authState[ws] = "done")
    BY <1>1, Zenon DEF Quiet
  <2> QED BY <1>1, <2>1, Zenon DEF Quiet, KeepFlags, FlagInv
<1>2. ASSUME NEW y \in Socket, Opens(y) PROVE FlagInv'
  <2>1. ~authenticated
    <3>1. waiting > 0 => waiting = 1
      BY DEF LoopInv
    <3>2. ws = 0 => ws \notin Socket
      BY DEF Socket
    <3> QED BY <1>2, <3>1, <3>2, Zenon DEF Opens, LoopInv, FlagInv
  <2> QED BY <1>2, <2>1, Zenon DEF Opens, KeepFlags, FlagInv
<1>3. CASE Leaves
  BY <1>3, CleanFlags, KeptFlags, Zenon DEF Leaves
<1>4. CASE Beats
  BY <1>4, CleanFlags, Zenon DEF Beats
<1>5. ASSUME NEW i \in Socket, Accepts(i) PROVE FlagInv'
  <2>1. i = ws /\ ~authenticated
    BY <1>0, <1>5, Zenon DEF Accepts
  <2>2. intervals' = 1
    BY <1>5, <2>1 DEF Accepts, FlagInv
  <2> QED BY <1>5, <2>1, <2>2, Zenon DEF Accepts, FlagInv, Updated
<1>6. ASSUME NEW i \in Socket, Fails(i) PROVE FlagInv'
  BY <1>6, CleanFlags, KeptFlags, Zenon DEF Fails
<1>7. ASSUME NEW i \in Socket, Loses(i) PROVE FlagInv'
  BY <1>7, CleanFlags, Zenon DEF Loses
<1> QED BY <1>1, <1>2, <1>3, <1>4, <1>5, <1>6, <1>7, Zenon DEF ClientEffect

LEMMA NextLeave ==
  ASSUME LoopInv, LeaveInv, ClientEffect
  PROVE  LeaveInv'
<1>0. ws \in Nat /\ 0 \in Nat /\ 0 <= ws /\ ws <= ws
  BY RelayClientAssumption DEF LoopInv
<1>1. CASE ws' = ws /\ (KeepLeave \/ (leavingWs' = 0 /\ (leaving' = "no" => leaving = "no")))
  BY <1>0, <1>1, Zenon DEF LeaveInv, KeepLeave
<1>2. CASE Leaves
  BY <1>0, <1>2, Zenon DEF LeaveInv, Leaves
<1>3. ASSUME NEW y \in Socket, Opens(y) PROVE LeaveInv'
  <2>1. leavingWs <= ws + 1
    BY <1>0 DEF LeaveInv
  <2> QED BY <1>3, <2>1, Zenon DEF LeaveInv, Opens, KeepLeave
<1> QED BY <1>1, <1>2, <1>3, Zenon DEF ClientEffect, Quiet, Beats, Accepts, Fails, Loses

(* The rest of LoopInv follows from what happens to one promise.           *)
LEMMA NextPromise ==
  ASSUME LoopInv, NEW i \in Socket, NEW p, p \notin {"none", "pending"},
         promise[i] # "none", Updated(promise', promise, i, p), ws' = ws,
         byLoop' = byLoop, authTimer' = authTimer \ {i}
  PROVE  /\ ws' \in 0 .. MaxSockets /\ byLoop' \subseteq Socket
         /\ \A z \in Socket : promise'[z] = "none" <=> z > ws'
         /\ \A z \in Socket : promise'[z] = "pending" => z = ws'
         /\ authTimer' = {z \in Socket : promise'[z] = "pending"}
         /\ promise[i] = "pending" => \A z \in Socket : promise'[z] # "pending"
<1>1. /\ \A z \in Socket : promise'[z] = "pending" <=> z # i /\ promise[z] = "pending"
      /\ \A z \in Socket : promise'[z] = "none" <=> promise[z] = "none"
  BY Zenon DEF Updated
<1>2. authTimer' = {z \in Socket : promise'[z] = "pending"}
  BY <1>1, Zenon DEF LoopInv
<1> QED BY <1>1, <1>2, Zenon DEF LoopInv

LEMMA NextLoop ==
  ASSUME ShookInv, LoopInv, FlagInv, FlagInv', ClientEffect
  PROVE  LoopInv'
<1>0. /\ \A i \in Socket : promise[i] = "pending" => i = ws /\ ~authenticated /\ waiting = 0
      /\ \A i \in Socket : promise[i] = "pending" => authState[i] # "done"
      /\ \A i \in Socket : authState[i] = "done" => promise[i] # "none"
  BY Zenon DEF LoopInv, FlagInv, ShookInv, Shook, Handshake
<1>1. ASSUME ws' = ws, promise' = promise, authTimer' = authTimer, byLoop' = byLoop,
             waiting' = waiting, authenticated' => authenticated
      PROVE  LoopInv'
  BY <1>1, Zenon DEF LoopInv
<1>2. ASSUME NEW y \in Socket, Opens(y) PROVE LoopInv'
  <2>1. waiting > 0 => waiting = 1 /\ waiting - 1 = 0
    BY DEF LoopInv
  <2>2. waiting' = 0 /\ \A i \in Socket : promise[i] # "pending"
    <3>1. ws = 0 => ws \notin Socket
      BY DEF Socket
    <3> QED BY <1>0, <1>2, <2>1, <3>1, Zenon DEF Opens, LoopInv
  <2>3. /\ \A z \in Socket : z # y => (z > y <=> z > ws)
        /\ ~(y > y) /\ y \in 0 .. MaxSockets
    BY <1>2, RelayClientAssumption DEF Opens, Socket, LoopInv
  <2>4. /\ ws' = y /\ authTimer' = authTimer \cup {y} /\ promise'[y] = "pending"
        /\ \A z \in Socket : z # y => promise'[z] = promise[z]
        /\ byLoop' = byLoop \/ byLoop' = byLoop \cup {y}
    BY <1>2, Zenon DEF Opens, Updated
  <2>5. authTimer' = {z \in Socket : promise'[z] = "pending"}
    BY <2>2, <2>4, Zenon DEF LoopInv
  <2>6. \A z \in Socket : promise'[z] = "none" <=> z > ws'
    BY <2>3, <2>4 DEF LoopInv
  <2>7. byLoop' \subseteq Socket
    BY <2>4, Zenon DEF LoopInv
  <2>8. waiting' \in {0, 1} /\ waiting' # 1
    BY <2>2
  <2> QED BY <2>2, <2>3, <2>4, <2>5, <2>6, <2>7, <2>8, Zenon DEF LoopInv
<1>3. ASSUME NEW i \in Socket, Accepts(i) PROVE LoopInv'
  <2>1. waiting' = 0
    BY <1>0, <1>3, Zenon DEF Accepts, KeepLoop
  <2>2. waiting' \in {0, 1} /\ waiting' # 1
    BY <2>1
  <2>3. "resolved" \notin {"none", "pending"} /\ promise[i] # "none" /\ ws' = ws
        /\ byLoop' = byLoop /\ authTimer' = authTimer \ {i}
        /\ Updated(promise', promise, i, "resolved")
    BY <1>3, Zenon DEF Accepts, KeepLoop
  <2> QED BY <2>2, <2>3, NextPromise, Zenon DEF LoopInv
<1>4. ASSUME NEW i \in Socket, Fails(i) PROVE LoopInv'
  <2>1. /\ Settle(promise[i]) \notin {"none", "pending"} /\ promise[i] # "none" /\ ws' = ws
        /\ byLoop' = byLoop /\ authTimer' = authTimer \ {i}
        /\ Updated(promise', promise, i, Settle(promise[i]))
    BY <1>4, Zenon DEF Fails, Rejects, Settle
  <2>2. /\ ws' \in 0 .. MaxSockets /\ byLoop' \subseteq Socket
        /\ \A z \in Socket : promise'[z] = "none" <=> z > ws'
        /\ \A z \in Socket : promise'[z] = "pending" => z = ws'
        /\ authTimer' = {z \in Socket : promise'[z] = "pending"}
        /\ promise[i] = "pending" => \A z \in Socket : promise'[z] # "pending"
    <3> HIDE DEF Settle
    <3> QED BY <2>1, NextPromise, Zenon
  <2>3. \A z \in Socket : promise'[z] = "pending" => promise[z] = "pending"
    BY <2>1, Zenon DEF Updated
  <2>4. authenticated' => authenticated
    BY <1>4, Zenon DEF Fails, KeepFlags, Cleanup
  <2>5. i = ws' => ws' # 0
    BY DEF Socket
  <2>6. CASE waiting' = waiting
    BY <2>1, <2>2, <2>3, <2>4, <2>6, Zenon DEF LoopInv
  <2>7. CASE waiting' = waiting + 1 /\ promise[i] = "pending"
    <3>1. waiting = 0 /\ i = ws /\ ~authenticated
      BY <1>0, <2>7, Zenon
    <3>2. waiting' = 1 /\ 1 \in {0, 1}
      BY <2>7, <3>1
    <3> QED BY <2>1, <2>2, <2>4, <2>5, <2>7, <3>1, <3>2, Zenon DEF LoopInv
  <2> QED BY <1>4, <2>6, <2>7, Zenon DEF Fails, Rejects
<1>5. ASSUME NEW i \in Socket, Loses(i) PROVE LoopInv'
  <2>1. authTimer' = authTimer
    BY <1>0, <1>5, Zenon DEF Loses, LoopInv
  <2>2. /\ ws' = ws /\ promise' = promise /\ byLoop' = byLoop /\ ~authenticated'
        /\ waiting' = IF authenticated /\ autoReconnect THEN waiting + 1 ELSE waiting
    BY <1>5, Zenon DEF Loses, Cleanup
  <2>3. CASE waiting' = waiting
    BY <1>1, <2>1, <2>2, <2>3, Zenon
  <2>4. CASE authenticated /\ waiting' = waiting + 1
    <3>1. waiting # 1 /\ \A z \in Socket : promise[z] # "pending"
      BY <1>0, <2>4, Zenon DEF LoopInv
    <3>2. waiting' = 1 /\ waiting' \in {0, 1}
      BY <2>4, <3>1 DEF LoopInv
    <3>3. ws # 0
      BY <2>4 DEF FlagInv, Socket
    <3> QED BY <2>1, <2>2, <3>1, <3>2, <3>3, Zenon DEF LoopInv
  <2> QED BY <2>2, <2>3, <2>4, Zenon
<1>6. CASE Quiet \/ Leaves \/ Beats
  BY <1>1, <1>6, Zenon DEF Quiet, Leaves, Beats, KeepLoop, KeepFlags, Cleanup
<1> QED BY <1>2, <1>3, <1>4, <1>5, <1>6, Zenon DEF ClientEffect

LEMMA NextHandled ==
  ASSUME LoopInv, FlagInv, Handled, ClientEffect, ShookInv
  PROVE  Handled'
<1>0. \A i \in Socket : promise[i] = "pending" => i = ws /\ ~authenticated /\ waiting = 0
  BY Zenon DEF LoopInv, FlagInv, ShookInv, Shook, Handshake
<1>1. CASE Quiet
  BY <1>1, Zenon DEF Quiet, KeepFlags, KeepLoop, KeepLeave, Handled
<1>2. CASE Leaves
  BY <1>2, Zenon DEF Leaves, Handled
<1>3. CASE Beats
  BY <1>3, Zenon DEF Beats, Handled
<1>4. ASSUME NEW y \in Socket, Opens(y) PROVE Handled'
  <2>1. CASE ws = 0 /\ waiting' = waiting /\ byLoop' = byLoop
    <3>1. ASSUME NEW i \in Socket PROVE promise[i] # "pending"
      BY <1>0, <2>1 DEF Socket
    <3>2. authenticated' = authenticated /\ waiting' = waiting
      BY <1>4, <2>1, Zenon DEF Opens, KeepFlags
    <3> QED BY <1>4, <2>1, <3>1, <3>2, Zenon DEF Opens, KeepLeave, Handled
  <2>2. CASE byLoop' = byLoop \cup {y}
    BY <1>4, <2>2, Zenon DEF Opens, Updated, Handled
  <2> QED BY <1>4, <2>1, <2>2, Zenon DEF Opens
<1>5. ASSUME NEW i \in Socket, Accepts(i) PROVE Handled'
  BY <1>5, Zenon DEF Accepts, Handled
<1>6. ASSUME NEW i \in Socket, Fails(i) PROVE Handled'
  <2>1. /\ authState' = authState /\ autoReconnect' = autoReconnect /\ byLoop' = byLoop
        /\ silenced => silenced'
        /\ gaveUp => gaveUp'
        /\ leaving' = "no" => leaving = "no"
        /\ \A z \in Socket : z # i => promise'[z] = promise[z]
    BY <1>6, Zenon DEF Fails, Rejects, Updated
  <2>2. silenced' \/ (authenticated => authenticated')
    BY <1>6, Zenon DEF Fails, KeepFlags, FlagInv
  <2>3. CASE promise[i] = "pending" /\ i \in byLoop
    <3>1. waiting = 0
      BY <1>0, <2>3, Zenon
    <3>2. waiting + 1 = 1
      BY <3>1
    <3>3. waiting' = 1 \/ gaveUp'
      BY <1>6, <2>3, <3>2, Zenon DEF Fails, Rejects
    <3> QED BY <3>3, Zenon DEF Handled
  <2>4. CASE ~(promise[i] = "pending" /\ i \in byLoop)
    <3>1. waiting' = waiting
      BY <1>6, <2>4, Zenon DEF Fails, Rejects
    <3> QED BY <2>1, <2>2, <2>4, <3>1, Zenon DEF Handled
  <2> QED BY <2>3, <2>4, Zenon
<1>7. ASSUME NEW i \in Socket, Loses(i) PROVE Handled'
  <2>1. /\ authState' = authState /\ autoReconnect' = autoReconnect /\ byLoop' = byLoop
        /\ silenced => silenced'
        /\ gaveUp' = gaveUp /\ promise' = promise
        /\ leaving' = "no" => leaving = "no"
        /\ waiting' = IF authenticated /\ autoReconnect THEN waiting + 1 ELSE waiting
    BY <1>7, Zenon DEF Loses
  <2>2. CASE authenticated /\ autoReconnect
    <3>1. waiting # 1
      BY <2>2, Zenon DEF LoopInv
    <3>2. waiting' = 1
      BY <2>1, <2>2, <3>1 DEF LoopInv
    <3> QED BY <3>2, Zenon DEF Handled
  <2>3. CASE ~(authenticated /\ autoReconnect)
    BY <2>1, <2>3, Zenon DEF Handled
  <2> QED BY <2>2, <2>3, Zenon
<1> QED BY <1>1, <1>2, <1>3, <1>4, <1>5, <1>6, <1>7, Zenon DEF ClientEffect

-----------------------------------------------------------------------------
(* The theorems about the client and the login                             *)
LEMMA InitInv == Init => IInv
<1> SUFFICES ASSUME Init PROVE IInv
  OBVIOUS
<1> USE DEF Init, ClientInit, RegInit
<1>1. Shape
  BY DEF Shape, IsMap
<1>2. ShookInv
  <2>1. ASSUME NEW i \in Socket PROVE Shook(i)
    <3>1. /\ authState[i] = "awaiting_challenge" /\ ready[i] = "none"
          /\ promise[i] = "none" /\ toClient[i] = <<>> /\ srv[i] = "none"
      BY <2>1
    <3> QED BY <3>1, FramesEmpty, Zenon DEF Shook, Handshake
  <2> QED BY <2>1, Zenon DEF ShookInv
<1>3. LoopInv
  <2>1. \A i \in Socket : promise[i] = "none" /\ i > ws
    BY DEF Socket
  <2>2. ws \in 0 .. MaxSockets /\ waiting \in {0, 1} /\ waiting # 1
    BY RelayClientAssumption
  <2>3. authTimer = {} /\ byLoop = {}
    BY Zenon
  <2> QED BY <2>1, <2>2, <2>3, Zenon DEF LoopInv
<1>4. FlagInv
  BY Zenon DEF FlagInv
<1>5. LeaveInv
  BY DEF LeaveInv
<1>6. SessionInv
  BY RelayClientAssumption DEF SessionInv, Socket
<1>7. Handled
  BY DEF Handled
<1> QED BY <1>1, <1>2, <1>3, <1>4, <1>5, <1>6, <1>7, Zenon DEF IInv

LEMMA NextInv == IInv /\ [Next]_vars => IInv'
<1> SUFFICES ASSUME IInv, [Next]_vars PROVE IInv'
  OBVIOUS
<1>1. Shape' /\ ShookInv' /\ ClientEffect /\ ServerEffect
  BY NextDoes, Zenon DEF Does
<1>2. FlagInv'
  BY <1>1, NextFlags, Zenon DEF IInv
<1> QED BY <1>1, <1>2, NextLoop, NextLeave, NextSession, NextHandled, Zenon DEF IInv

LEMMA Inductive == Spec => []IInv
BY InitInv, NextInv, PTL DEF Spec

(* As long as the promise of a connect() is pending, the timer that will   *)
(* reject it is armed.                                                     *)
THEOREM ConnectHasTimer == Spec => []ConnectIsTimed
<1>1. IInv => ConnectIsTimed
  BY Zenon DEF IInv, LoopInv, ConnectIsTimed
<1> QED BY <1>1, Inductive, PTL

(* The client counts as authenticated only on a connection the relay       *)
(* accepted; in locked mode only an approved key gets that far; the hub's  *)
(* table and wsHandler agree on the session; and no frame of the session   *)
(* overtakes the verdict.                                                  *)
THEOREM LoginsAgree == Spec => []LoginAgreed
<1>1. IInv => LoginAgreed
  <2> SUFFICES ASSUME IInv PROVE LoginAgreed
    OBVIOUS
  <2>1. \A i \in Socket : Handshake(authState[i], ready[i], promise[i], link[i],
                                    toClient[i], srv[i], Admissible)
    BY Zenon DEF IInv, ShookInv, Shook
  <2>2. authenticated => ws \in Socket /\ authState[ws] = "done"
    BY Zenon DEF IInv, FlagInv
  <2>3. authenticated => srv[ws] \in {"live", "over"}
    BY <2>1, <2>2, Zenon DEF Handshake
  <2>4. LockedMode => \A i \in Socket :
          srv[i] \in {"admitted", "registered", "live"} \/ authState[i] = "done"
            => IsApproved(Me)
    BY <2>1, Zenon DEF Handshake, Admissible
  <2>5. ASSUME NEW i \in Socket, authState[i] # "done", toClient[i] # <<>>
        PROVE  Head(toClient[i]) # "env"
    <3>1. toClient[i] \in Seq(Frames) /\ Orderly(toClient[i])
      BY <2>1, <2>5, Zenon DEF Handshake
    <3> QED BY <2>5, <3>1, FramesRead, Zenon
  <2> QED BY <2>2, <2>3, <2>4, <2>5, Zenon DEF IInv, SessionInv, LoginAgreed
<1> QED BY <1>1, Inductive, PTL

-----------------------------------------------------------------------------
(* Counting the reconnect loops                                            *)

INSTANCE FiniteSetTheorems

LEMMA AtMostOne ==
  ASSUME NEW S, NEW x, S \subseteq {x}
  PROVE  Cardinality(S) = IF S = {} THEN 0 ELSE 1
<1>1. CASE S = {}
  BY <1>1, FS_EmptySet, Zenon
<1>2. CASE S # {}
  <2>1. S = {x}
    BY <1>2, Zenon
  <2>2. Cardinality({x}) = 1
    BY FS_Singleton, Zenon
  <2> QED BY <1>2, <2>1, <2>2, Zenon
<1> QED BY <1>1, <1>2, Zenon

(* attemptReconnect() calls that have not returned, counted.               *)
LEMMA LoopsAre ==
  ASSUME LoopInv
  PROVE  /\ Cardinality({i \in byLoop : promise[i] = "pending"}) =
              IF \E i \in Socket : i \in byLoop /\ promise[i] = "pending" THEN 1 ELSE 0
         /\ Cardinality({i \in Socket \ byLoop : promise[i] = "pending"}) =
              IF \E i \in Socket : i \notin byLoop /\ promise[i] = "pending" THEN 1 ELSE 0
<1> DEFINE S == {i \in byLoop : promise[i] = "pending"}
           T == {i \in Socket \ byLoop : promise[i] = "pending"}
<1>1. S \subseteq {ws} /\ T \subseteq {ws}
  BY Zenon DEF LoopInv
<1>0. byLoop \subseteq Socket
  BY Zenon DEF LoopInv
<1>2. /\ S = {} <=> ~\E i \in Socket : i \in byLoop /\ promise[i] = "pending"
      /\ T = {} <=> ~\E i \in Socket : i \notin byLoop /\ promise[i] = "pending"
  BY <1>0
<1> HIDE DEF S, T
<1>3. /\ Cardinality(S) = IF S = {} THEN 0 ELSE 1
      /\ Cardinality(T) = IF T = {} THEN 0 ELSE 1
  <2>1. Cardinality(S) = IF S = {} THEN 0 ELSE 1
    BY <1>1, AtMostOne, Zenon
  <2>2. Cardinality(T) = IF T = {} THEN 0 ELSE 1
    BY <1>1, AtMostOne, Zenon
  <2> QED BY <2>1, <2>2, Zenon
<1>4. /\ Cardinality(S) =
           IF \E i \in Socket : i \in byLoop /\ promise[i] = "pending" THEN 1 ELSE 0
      /\ Cardinality(T) =
           IF \E i \in Socket : i \notin byLoop /\ promise[i] = "pending" THEN 1 ELSE 0
  BY <1>2, <1>3, Zenon
<1> QED BY <1>4, Zenon DEF S, T

(* Whatever old and new sockets report and in whatever order, there is one *)
(* heartbeat interval while the client is authenticated and none           *)
(* otherwise, at most one connect() or attemptReconnect() at a time, and   *)
(* none of them while the client is connected.                             *)
THEOREM ClientHasOneOfEach == Spec => []OneOfEach
<1>1. IInv => OneOfEach
  <2> SUFFICES ASSUME IInv PROVE OneOfEach
    OBVIOUS
  <2> DEFINE c == Cardinality({i \in byLoop : promise[i] = "pending"})
             d == Cardinality({i \in Socket \ byLoop : promise[i] = "pending"})
             C == \E i \in Socket : i \in byLoop /\ promise[i] = "pending"
             D == \E i \in Socket : i \notin byLoop /\ promise[i] = "pending"
  <2>1. c = (IF C THEN 1 ELSE 0) /\ d = (IF D THEN 1 ELSE 0)
    BY LoopsAre, Zenon DEF IInv
  <2>2. ~(C /\ D) /\ (waiting = 1 => ~C /\ ~D)
    BY Zenon DEF IInv, LoopInv
  <2>3. waiting \in {0, 1} /\ intervals = (IF authenticated THEN 1 ELSE 0)
    BY Zenon DEF IInv, LoopInv, FlagInv
  <2>4. isConnected => waiting # 1 /\ ~C
    <3>1. isConnected => authenticated /\ authState[ws] = "done"
      BY Zenon DEF isConnected, IInv, FlagInv
    <3>2. \A i \in Socket : promise[i] = "pending" => i = ws /\ authState[i] # "done"
      BY Zenon DEF IInv, LoopInv, ShookInv, Shook, Handshake
    <3> QED BY <3>1, <3>2, Zenon DEF IInv, LoopInv
  <2> HIDE DEF c, d, C, D
  <2>5. (waiting + c) + d <= 1 /\ (isConnected => waiting + c = 0)
    BY <2>1, <2>2, <2>3, <2>4
  <2> QED BY <2>3, <2>5, Zenon DEF OneOfEach, Loops, c, d
<1> QED BY <1>1, Inductive, PTL

(* With autoReconnect, a client that was authenticated once is             *)
(* authenticated, is reconnecting or has told the program that it gave up, *)
(* unless the program left, or the heartbeat or the close of a socket      *)
(* given up took the flag away.                                            *)
THEOREM LossesAreHandled == Spec => []LossIsHandled
<1>1. IInv => LossIsHandled
  <2> SUFFICES ASSUME IInv PROVE LossIsHandled
    OBVIOUS
  <2> DEFINE c == Cardinality({i \in byLoop : promise[i] = "pending"})
             C == \E i \in Socket : i \in byLoop /\ promise[i] = "pending"
  <2>1. c = IF C THEN 1 ELSE 0
    BY LoopsAre, Zenon DEF IInv
  <2>2. waiting \in {0, 1}
    BY Zenon DEF IInv, LoopInv
  <2> HIDE DEF c, C
  <2>3. waiting = 1 \/ C => waiting + c > 0
    BY <2>1, <2>2
  <2> QED BY <2>3, Zenon DEF IInv, Handled, LossIsHandled, Loops, c, C
<1> QED BY <1>1, Inductive, PTL
=============================================================================
