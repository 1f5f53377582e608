------------------------- MODULE ConnectionsProofs -------------------------
(***************************************************************************)
(* Proofs about the life of a connection: consent is behind every active   *)
(* one, a response finds the record it answers, and opening one ends in    *)
(* agreement.                                                              *)
(***************************************************************************)
EXTENDS Connections, TLAPS

-----------------------------------------------------------------------------
(* Inductive invariants                                                    *)

(* The stores of x that the consents c and the unblockings u justify.      *)
Good(x, c, u) ==
  {s \in Store : \A y \in Agent :
     /\ s[y] = "active" =>
          <<x, y>> \in c /\ (<<y, x>> \in c \/ <<x, y>> \in u)
     /\ s[y] = "pending_inbound" => <<y, x>> \in c}

StoreInv ==
  \A x \in Agent : /\ conns[x] \in Good(x, consent, unblocked)
                   /\ disk[x] \in Good(x, consent, unblocked)
                   /\ snaps[x] \in Seq(Good(x, consent, unblocked))

(* The envelopes that the consents c justify.                              *)
Fit(c) ==
  {m \in Envelope : /\ m.type = "request" => <<m.from, m.to>> \in c
                    /\ m.type = "response" =>
                         <<m.from, m.to>> \in c /\ <<m.to, m.from>> \in c}

Outgoing(x, c) == {m \in Fit(c) : m.from = x}
Incoming(x, c) == {m \in Fit(c) : m.to = x /\ m.type \notin {"block", "unblock"}}

NetInv ==
  \A x \in Agent : /\ link[x] \in Seq(Outgoing(x, consent))
                   /\ inq[x] \in Seq(Incoming(x, consent))

IsMap(f) == f = [x \in Agent |-> f[x]]

Shape ==
  /\ IsMap(conns) /\ IsMap(disk) /\ IsMap(snaps) /\ IsMap(link) /\ IsMap(inq)
  /\ up \in [Agent -> BOOLEAN] /\ mkdirs \in [Agent -> Nat]
  /\ blocks \subseteq Pair /\ consent \subseteq Pair /\ unblocked \subseteq Pair
  /\ ops \in Nat /\ restarts \in Nat /\ faults \in Nat

KnownInv ==
  restarts = 0 => \A x \in Agent :
    up[x] /\ \A y \in Agent : <<x, y>> \in consent => Known(x, y)

(* Envelopes from y to x in a sequence; the last of them is a request.     *)
Carries(s, y, x) == \E i \in DOMAIN s : s[i].from = y /\ s[i].to = x

EndsInRequest(s, y, x) ==
  \E i \in DOMAIN s :
    /\ s[i].from = y /\ s[i].to = x /\ s[i].type = "request"
    /\ \A j \in DOMAIN s : j > i => ~(s[j].from = y /\ s[j].to = x)

(* Between y and x: something under way, and what the last of it is.       *)
Underway(y, x) == Carries(link[y], y, x) \/ Carries(inq[x], y, x)

RequestLast(y, x) ==
  \/ EndsInRequest(link[y], y, x)
  \/ ~Carries(link[y], y, x) /\ EndsInRequest(inq[x], y, x)

Opening == Ops = {"request", "approve"} /\ restarts = 0 /\ faults = 0

Opens(s) == \A i \in DOMAIN s : s[i].type \in {"request", "response"}

OnlyOpening == blocks = {} /\ \A x \in Agent : Opens(link[x]) /\ Opens(inq[x])

(* y is not waiting for x in vain.                                         *)
Agreed(x, y) ==
  conns[y][x] \notin {"active", "pending_inbound"} =>
    \/ Underway(x, y)
    \/ RequestLast(y, x)
    \/ ~Underway(y, x) /\ conns[x][y] # "active"

OpenInv == Opening => OnlyOpening /\ \A x, y \in Agent : Agreed(x, y)

-----------------------------------------------------------------------------
(* Lemmas about stores, envelopes and maps                                 *)

LEMMA GoodGrows ==
  ASSUME NEW x, NEW c, NEW u, NEW d, NEW v, c \subseteq d, u \subseteq v
  PROVE  Good(x, c, u) \subseteq Good(x, d, v)
BY Zenon DEF Good

LEMMA FitGrows ==
  ASSUME NEW x, NEW c, NEW d, c \subseteq d
  PROVE  /\ Outgoing(x, c) \subseteq Outgoing(x, d)
         /\ Incoming(x, c) \subseteq Incoming(x, d)
BY Zenon DEF Outgoing, Incoming, Fit

LEMMA SeqGrows ==
  ASSUME NEW S, NEW T, S \subseteq T, NEW s \in Seq(S)
  PROVE  s \in Seq(T)
OBVIOUS

LEMMA SeqSteps ==
  ASSUME NEW S, NEW s \in Seq(S)
  PROVE  /\ <<>> \in Seq(S)
         /\ \A e \in S : Append(s, e) \in Seq(S)
         /\ s # <<>> => Head(s) \in S /\ Tail(s) \in Seq(S)
         /\ \A i \in DOMAIN s : s[i] \in S
OBVIOUS

LEMMA SeqRemove ==
  ASSUME NEW S, NEW s \in Seq(S), NEW i \in DOMAIN s
  PROVE  SubSeq(s, 1, i - 1) \o SubSeq(s, i + 1, Len(s)) \in Seq(S)
<1>1. SubSeq(s, 1, i - 1) \in Seq(S) /\ SubSeq(s, i + 1, Len(s)) \in Seq(S)
  OBVIOUS
<1> QED BY <1>1

LEMMA SeqSwap ==
  ASSUME NEW S, NEW s \in Seq(S), NEW i \in DOMAIN s, i < Len(s)
  PROVE  [s EXCEPT ![i] = s[i + 1], ![i + 1] = s[i]] \in Seq(S)
<1>1. i + 1 \in DOMAIN s /\ s[i] \in S /\ s[i + 1] \in S
  OBVIOUS
<1>2. s \in [1..Len(s) -> S] /\ Len(s) \in Nat
  OBVIOUS
<1> DEFINE t == [s EXCEPT ![i] = s[i + 1], ![i + 1] = s[i]]
<1>3. t \in [1..Len(s) -> S]
  BY <1>1, <1>2
<1> QED BY <1>2, <1>3

LEMMA GoodSet ==
  ASSUME NEW x, NEW c, NEW u, NEW s \in Good(x, c, u), NEW y \in Agent,
         NEW st \in State,
         st = "active" => <<x, y>> \in c /\ (<<y, x>> \in c \/ <<x, y>> \in u),
         st = "pending_inbound" => <<y, x>> \in c
  PROVE  [s EXCEPT ![y] = st] \in Good(x, c, u)
<1>1. s \in Store /\ [s EXCEPT ![y] = st] \in Store
  BY DEF Good, Store
<1>2. \A z \in Agent : [s EXCEPT ![y] = st][z] = IF z = y THEN st ELSE s[z]
  BY <1>1 DEF Store
<1> DEFINE t == [s EXCEPT ![y] = st]
<1> HIDE DEF t
<1>3. t \in Store /\ \A z \in Agent : t[z] = IF z = y THEN st ELSE s[z]
  BY <1>1, <1>2 DEF t
<1>4. t \in Good(x, c, u)
  BY <1>3, Zenon DEF Good
<1> QED BY <1>4 DEF t

LEMMA EmptyGood ==
  ASSUME NEW x, NEW c, NEW u
  PROVE  EmptyStore \in Good(x, c, u)
BY DEF EmptyStore, Good, Store, State

Sets(g, f, x, v) == g = [f EXCEPT ![x] = v]

(* What Sets means for the values of the map.                              *)
Updated(g, f, x, v) ==
  IsMap(g) /\ g[x] = v /\ \A z \in Agent : z # x => g[z] = f[z]

LEMMA MapUpdate ==
  ASSUME NEW f, IsMap(f), NEW x \in Agent, NEW v, NEW g, Sets(g, f, x, v)
  PROVE  Updated(g, f, x, v)
BY DEF IsMap, Sets, Updated

-----------------------------------------------------------------------------
(* The stores                                                              *)

Justified(x, y, st) ==
  /\ st \in State \ {"none"}
  /\ st = "active" => /\ <<x, y>> \in consent'
                      /\ <<y, x>> \in consent' \/ <<x, y>> \in unblocked'
  /\ st = "pending_inbound" => <<y, x>> \in consent'

(* A justified state is written in memory, and perhaps saved later.        *)
Writes(x, y, st) ==
  /\ Justified(x, y, st)
  /\ conns' = [conns EXCEPT ![x][y] = st] /\ snaps' = snaps /\ disk' = disk

Keeps ==
  conns' = conns /\ snaps' = snaps /\ disk' = disk /\ consent' = consent

LEMMA Monotone ==
  ASSUME [Next]_vars
  PROVE  consent \subseteq consent' /\ unblocked \subseteq unblocked'
<1>1. ASSUME NEW x \in Agent, NEW y \in Agent,
             \/ SendRequest(x, y) \/ ApproveRequest(x, y) \/ RejectRequest(x, y)
             \/ BlockConnection(x, y) \/ UnblockConnection(x, y)
             \/ BlockFails(x, y, "block") \/ BlockFails(x, y, "unblock")
             \/ RevokeConnection(x, y) \/ ExpirePendingRequests(x, y)
      PROVE  consent \subseteq consent' /\ unblocked \subseteq unblocked'
  BY <1>1, Zenon DEF SendRequest, ApproveRequest, RejectRequest,
    BlockConnection, UnblockConnection, BlockFails, RevokeConnection,
    ExpirePendingRequests, Consents, pastVars
<1>2. ASSUME NEW x \in Agent, \/ Deliver(x) \/ Relay(x) \/ RelayFault(x)
             \/ SaveBegin(x) \/ SaveEnd(x) \/ Exit(x) \/ Boot(x)
      PROVE  consent' = consent /\ unblocked' = unblocked
  BY <1>2, Zenon DEF Deliver, Relay, RelayFault, SaveBegin, SaveEnd, Exit, Boot,
    pastVars
<1>3. CASE UNCHANGED vars
  BY <1>3, Zenon DEF vars, pastVars
<1> QED BY <1>1, <1>2, <1>3, Zenon DEF Next

LEMMA HumanStore ==
  ASSUME StoreInv, NEW x \in Agent, NEW y \in Agent,
         \/ SendRequest(x, y) \/ ApproveRequest(x, y) \/ RejectRequest(x, y)
         \/ BlockConnection(x, y) \/ UnblockConnection(x, y)
         \/ BlockFails(x, y, "block") \/ BlockFails(x, y, "unblock")
         \/ RevokeConnection(x, y) \/ ExpirePendingRequests(x, y)
  PROVE  Keeps \/ \E st \in State : Writes(x, y, st)
<1>1. conns[x][y] = "pending_inbound" => <<y, x>> \in consent
  BY Zenon DEF StoreInv, Good
<1>2. CASE SendRequest(x, y)
  BY <1>2, Zenon DEF SendRequest, SetState, Writes, Justified, State
<1>3. CASE ApproveRequest(x, y)
  BY <1>1, <1>3, Zenon DEF ApproveRequest, Consents, SetState, Writes, Justified,
    State
<1>4. CASE UnblockConnection(x, y)
  BY <1>4, Zenon DEF UnblockConnection, Consents, SetState, Writes, Justified,
    State
<1>5. CASE BlockFails(x, y, "unblock")
  BY <1>5, Zenon DEF BlockFails, Consents, Writes, Justified, State
<1>6. CASE \/ RejectRequest(x, y) \/ BlockConnection(x, y)
           \/ RevokeConnection(x, y) \/ ExpirePendingRequests(x, y)
  BY <1>6, Zenon DEF RejectRequest, BlockConnection, RevokeConnection,
    ExpirePendingRequests, SetState, storeVars, pastVars, Writes, Justified,
    State, Keeps
<1>7. CASE BlockFails(x, y, "block")
  BY <1>7, Zenon DEF BlockFails, Writes, Justified, State
<1> QED BY <1>2, <1>3, <1>4, <1>5, <1>6, <1>7, Zenon

LEMMA DeliverStore ==
  ASSUME NetInv, NEW x \in Agent, Deliver(x)
  PROVE  \/ Keeps
         \/ \E y \in Agent, st \in State : Writes(x, y, st)
         \/ Die(x) /\ disk' = disk
<1> DEFINE m == Head(inq[x])
<1>1. m \in Incoming(x, consent)
  BY SeqSteps, Zenon DEF NetInv, Deliver
<1>2. m.from \in Agent /\ m.to = x
  BY <1>1 DEF Incoming, Fit, Envelope
<1>3. /\ m.type = "request" => <<m.from, x>> \in consent
      /\ m.type = "response" => <<m.from, x>> \in consent /\ <<x, m.from>> \in consent
  BY <1>1, <1>2, Zenon DEF Incoming, Fit
<1> HIDE DEF m
<1>4. Handle(x, m) /\ disk' = disk /\ consent' = consent
  BY Zenon DEF Deliver, m, pastVars
<1>5. CASE HandleIncomingRequest(x, m)
  BY <1>2, <1>3, <1>4, <1>5, Zenon DEF HandleIncomingRequest, SetState, Writes,
    Justified, State
<1>6. CASE HandleIncomingResponse(x, m)
  BY <1>2, <1>3, <1>4, <1>6, Zenon DEF HandleIncomingResponse, SetState, Writes,
    Justified, State
<1>7. CASE HandleIncomingRevoke(x, m)
  BY <1>2, <1>3, <1>4, <1>7, Zenon DEF HandleIncomingRevoke, SetState, storeVars,
    Writes, Justified, State, Keeps
<1> QED BY <1>4, <1>5, <1>6, <1>7, Zenon DEF Handle

LEMMA Maps ==
  ASSUME Shape
  PROVE  IsMap(conns) /\ IsMap(disk) /\ IsMap(snaps) /\ IsMap(link) /\ IsMap(inq)
BY Zenon DEF Shape

LEMMA WritesGood ==
  ASSUME StoreInv, Shape, NEW x \in Agent, NEW y \in Agent, NEW st,
         Writes(x, y, st), consent \subseteq consent', unblocked \subseteq unblocked'
  PROVE  StoreInv' /\ IsMap(conns')
<1> DEFINE G(z) == Good(z, consent', unblocked')
<1>1. \A z \in Agent : Good(z, consent, unblocked) \subseteq G(z)
  BY GoodGrows, Zenon
<1>2. \A z \in Agent :
        conns[z] \in G(z) /\ disk[z] \in G(z) /\ snaps[z] \in Seq(G(z))
  <2> HIDE DEF G
  <2> QED BY <1>1, SeqGrows, Zenon DEF StoreInv
<1>3. [conns[x] EXCEPT ![y] = st] \in G(x)
  BY <1>2, GoodSet, Zenon DEF Writes, Justified
<1>4. /\ IsMap(conns') /\ conns'[x] = [conns[x] EXCEPT ![y] = st]
      /\ \A z \in Agent : z # x => conns'[z] = conns[z]
  <2> DEFINE s == [conns[x] EXCEPT ![y] = st]
  <2>1. Sets(conns', conns, x, s)
    BY Zenon DEF Writes, Sets
  <2> HIDE DEF s
  <2>2. Updated(conns', conns, x, s)
    BY <2>1, MapUpdate, Maps, Zenon
  <2> QED BY <2>2, Zenon DEF Updated, s
<1>5. snaps' = snaps /\ disk' = disk
  BY Zenon DEF Writes
<1> HIDE DEF G
<1>6. \A z \in Agent :
        conns'[z] \in G(z) /\ disk'[z] \in G(z) /\ snaps'[z] \in Seq(G(z))
  BY <1>2, <1>3, <1>4, <1>5, Zenon
<1> QED BY <1>4, <1>6, Zenon DEF StoreInv, G

LEMMA KeepsGood ==
  ASSUME StoreInv, Keeps, consent \subseteq consent', unblocked \subseteq unblocked'
  PROVE  StoreInv'
<1> DEFINE G(z) == Good(z, consent', unblocked')
<1>1. \A z \in Agent : Good(z, consent, unblocked) \subseteq G(z)
  BY GoodGrows, Zenon
<1>2. \A z \in Agent :
        conns[z] \in G(z) /\ disk[z] \in G(z) /\ snaps[z] \in Seq(G(z))
  <2> HIDE DEF G
  <2> QED BY <1>1, SeqGrows, Zenon DEF StoreInv
<1> QED BY <1>2, Zenon DEF StoreInv, Keeps, G

LEMMA DieGood ==
  ASSUME StoreInv, Shape, NEW x \in Agent, Die(x), disk' = disk,
         consent' = consent, unblocked' = unblocked
  PROVE  StoreInv' /\ IsMap(conns') /\ IsMap(snaps')
<1>1. Sets(conns', conns, x, EmptyStore) /\ Sets(snaps', snaps, x, <<>>)
  BY Zenon DEF Die, Sets
<1>2. Updated(conns', conns, x, EmptyStore) /\ Updated(snaps', snaps, x, <<>>)
  BY <1>1, MapUpdate, Maps, Zenon
<1>3. <<>> \in Seq(Good(x, consent, unblocked))
  OBVIOUS
<1> QED BY <1>2, <1>3, EmptyGood, Zenon DEF StoreInv, Updated

LEMMA SaveGood ==
  ASSUME StoreInv, Shape, NEW x \in Agent, SaveBegin(x) \/ SaveEnd(x) \/ Boot(x)
  PROVE  StoreInv' /\ IsMap(conns') /\ IsMap(snaps') /\ IsMap(disk')
<1> DEFINE G == Good(x, consent, unblocked)
<1>0. /\ conns[x] \in G /\ disk[x] \in G /\ snaps[x] \in Seq(G)
      /\ consent' = consent /\ unblocked' = unblocked
  BY Zenon DEF StoreInv, SaveBegin, SaveEnd, Boot, pastVars
<1>1. CASE SaveBegin(x)
  <2>1. Sets(snaps', snaps, x, Append(snaps[x], conns[x]))
    BY <1>1, Zenon DEF SaveBegin, Sets
  <2>2. Append(snaps[x], conns[x]) \in Seq(G)
    BY <1>0, SeqSteps, Zenon
  <2>3. Updated(snaps', snaps, x, Append(snaps[x], conns[x]))
    BY <2>1, MapUpdate, Maps, Zenon
  <2>4. conns' = conns /\ disk' = disk
    BY <1>1, Zenon DEF SaveBegin
  <2> QED BY <1>0, <2>2, <2>3, <2>4, Maps, Zenon DEF StoreInv, Updated
<1>2. CASE SaveEnd(x)
  <2>1. PICK i \in DOMAIN snaps[x] :
          /\ Sets(disk', disk, x, snaps[x][i])
          /\ Sets(snaps', snaps, x, SubSeq(snaps[x], 1, i - 1)
                    \o SubSeq(snaps[x], i + 1, Len(snaps[x])))
    BY <1>2, Zenon DEF SaveEnd, Sets
  <2>2. /\ snaps[x][i] \in G
        /\ SubSeq(snaps[x], 1, i - 1)
             \o SubSeq(snaps[x], i + 1, Len(snaps[x])) \in Seq(G)
    BY <1>0, SeqSteps, SeqRemove, Zenon
  <2>3. /\ Updated(disk', disk, x, snaps[x][i])
        /\ Updated(snaps', snaps, x, SubSeq(snaps[x], 1, i - 1)
                     \o SubSeq(snaps[x], i + 1, Len(snaps[x])))
    BY <2>1, MapUpdate, Maps, Zenon
  <2>5. conns' = conns
    BY <1>2, Zenon DEF SaveEnd
  <2> QED BY <1>0, <2>2, <2>3, <2>5, Maps, Zenon DEF StoreInv, Updated
<1>3. CASE Boot(x)
  <2>1. Sets(conns', conns, x, disk[x]) /\ snaps' = snaps /\ disk' = disk
    BY <1>3, Zenon DEF Boot, Sets
  <2>2. Updated(conns', conns, x, disk[x])
    BY <2>1, MapUpdate, Maps, Zenon
  <2> QED BY <1>0, <2>1, <2>2, Maps, Zenon DEF StoreInv, Updated
<1> QED BY <1>1, <1>2, <1>3, Zenon

LEMMA NextStore ==
  ASSUME StoreInv, NetInv, Shape, [Next]_vars
  PROVE  StoreInv' /\ IsMap(conns') /\ IsMap(snaps') /\ IsMap(disk')
<1>0. consent \subseteq consent' /\ unblocked \subseteq unblocked'
  BY Monotone, Zenon
<1>1. ASSUME Keeps
      PROVE  StoreInv' /\ IsMap(conns') /\ IsMap(snaps') /\ IsMap(disk')
  BY <1>0, <1>1, KeepsGood, Zenon DEF Keeps, Shape
<1>2. ASSUME NEW x \in Agent, NEW y \in Agent, NEW st, Writes(x, y, st)
      PROVE  StoreInv' /\ IsMap(conns') /\ IsMap(snaps') /\ IsMap(disk')
  BY <1>0, <1>2, WritesGood, Zenon DEF Writes, Shape
<1>3. ASSUME NEW x \in Agent, Die(x), disk' = disk, consent' = consent,
             unblocked' = unblocked
      PROVE  StoreInv' /\ IsMap(conns') /\ IsMap(snaps') /\ IsMap(disk')
  BY <1>3, DieGood, Zenon DEF Shape
<1>4. ASSUME NEW x \in Agent, Deliver(x)
      PROVE  StoreInv' /\ IsMap(conns') /\ IsMap(snaps') /\ IsMap(disk')
  <2>1. consent' = consent /\ unblocked' = unblocked
    BY <1>4, Zenon DEF Deliver, pastVars
  <2> QED BY <1>1, <1>2, <1>3, <1>4, <2>1, DeliverStore, Zenon
<1>5. ASSUME NEW x \in Agent, Exit(x)
      PROVE  StoreInv' /\ IsMap(conns') /\ IsMap(snaps') /\ IsMap(disk')
  BY <1>3, <1>5, Zenon DEF Exit, pastVars
<1>6. ASSUME NEW x \in Agent, Relay(x) \/ RelayFault(x)
      PROVE  Keeps
  BY <1>6, Zenon DEF Relay, RelayFault, storeVars, pastVars, Keeps
<1>7. CASE UNCHANGED vars
  BY <1>1, <1>7, Zenon DEF vars, storeVars, pastVars, Keeps
<1> QED BY <1>1, <1>2, <1>4, <1>5, <1>6, <1>7, HumanStore, SaveGood, Zenon DEF Next

-----------------------------------------------------------------------------
(* Envelopes                                                               *)

Env(x, y, t) == [type |-> t, from |-> x, to |-> y]

LEMMA EnvFacts ==
  ASSUME NEW x \in Agent, NEW y \in Agent, NEW c,
         NEW t \in {"request", "response", "revoke", "block", "unblock"},
         t \in {"request", "response"} => <<x, y>> \in c,
         t = "response" => <<y, x>> \in c
  PROVE  /\ Env(x, y, t) \in Outgoing(x, c)
         /\ Env(x, y, t).type = t /\ Env(x, y, t).from = x /\ Env(x, y, t).to = y
<1>1. /\ Env(x, y, t) \in Envelope
      /\ Env(x, y, t).type = t /\ Env(x, y, t).from = x /\ Env(x, y, t).to = y
  BY DEF Env, Envelope
<1> QED BY <1>1, Zenon DEF Outgoing, Fit

Sends(x, y, t) == Sets(link', link, x, Append(link[x], Env(x, y, t)))

(* What an operation puts on the socket, and what justifies it.            *)
LEMMA HumanSends ==
  ASSUME StoreInv, NEW x \in Agent, NEW y \in Agent,
         \/ SendRequest(x, y) \/ ApproveRequest(x, y) \/ RejectRequest(x, y)
         \/ BlockConnection(x, y) \/ UnblockConnection(x, y)
         \/ BlockFails(x, y, "block") \/ BlockFails(x, y, "unblock")
         \/ RevokeConnection(x, y) \/ ExpirePendingRequests(x, y)
  PROVE  /\ inq' = inq /\ blocks' = blocks
         /\ \/ link' = link
            \/ \E t \in {"request", "response", "revoke", "block", "unblock"} :
                 /\ Sends(x, y, t)
                 /\ t \in {"request", "response"} => <<x, y>> \in consent'
                 /\ t = "response" => <<y, x>> \in consent'
<1>1. conns[x][y] = "pending_inbound" => <<y, x>> \in consent
  BY Zenon DEF StoreInv, Good
<1>2. \A t : Send(x, y, t) => Sends(x, y, t)
  BY Zenon DEF Send, Sends, Sets, Env
<1>3. CASE SendRequest(x, y)
  BY <1>2, <1>3, Zenon DEF SendRequest, Consents
<1>4. CASE ApproveRequest(x, y)
  BY <1>1, <1>2, <1>4, Zenon DEF ApproveRequest, Consents
<1>5. CASE BlockConnection(x, y) \/ UnblockConnection(x, y) \/ RevokeConnection(x, y)
  BY <1>2, <1>5, Zenon DEF BlockConnection, UnblockConnection, RevokeConnection
<1>6. CASE \/ RejectRequest(x, y) \/ ExpirePendingRequests(x, y)
           \/ BlockFails(x, y, "block") \/ BlockFails(x, y, "unblock")
  BY <1>6, Zenon DEF RejectRequest, ExpirePendingRequests, BlockFails, netVars
<1> QED BY <1>3, <1>4, <1>5, <1>6, Zenon

LEMMA NetGrows ==
  ASSUME NetInv, consent \subseteq consent'
  PROVE  \A x \in Agent : /\ link[x] \in Seq(Outgoing(x, consent'))
                          /\ inq[x] \in Seq(Incoming(x, consent'))
<1>1. \A x \in Agent : /\ Outgoing(x, consent) \subseteq Outgoing(x, consent')
                       /\ Incoming(x, consent) \subseteq Incoming(x, consent')
  BY FitGrows, Zenon
<1> QED BY <1>1, SeqGrows, Zenon DEF NetInv

LEMMA HumanNet ==
  ASSUME StoreInv, NetInv, Shape, [Next]_vars, NEW x \in Agent, NEW y \in Agent,
         \/ SendRequest(x, y) \/ ApproveRequest(x, y) \/ RejectRequest(x, y)
         \/ BlockConnection(x, y) \/ UnblockConnection(x, y)
         \/ BlockFails(x, y, "block") \/ BlockFails(x, y, "unblock")
         \/ RevokeConnection(x, y) \/ ExpirePendingRequests(x, y)
  PROVE  NetInv' /\ IsMap(link') /\ IsMap(inq')
<1>1. \A z \in Agent : /\ link[z] \in Seq(Outgoing(z, consent'))
                       /\ inq[z] \in Seq(Incoming(z, consent'))
  BY NetGrows, Monotone, Zenon
<1>2. CASE link' = link
  BY <1>1, <1>2, HumanSends, Maps, Zenon DEF NetInv
<1>3. ASSUME NEW t \in {"request", "response", "revoke", "block", "unblock"},
             Sends(x, y, t),
             t \in {"request", "response"} => <<x, y>> \in consent',
             t = "response" => <<y, x>> \in consent'
      PROVE  NetInv' /\ IsMap(link') /\ IsMap(inq')
  <2>1. Env(x, y, t) \in Outgoing(x, consent')
    BY <1>3, EnvFacts, Zenon
  <2>2. Append(link[x], Env(x, y, t)) \in Seq(Outgoing(x, consent'))
    BY <1>1, <2>1, SeqSteps, Zenon
  <2>3. Updated(link', link, x, Append(link[x], Env(x, y, t)))
    BY <1>3, MapUpdate, Maps, Zenon DEF Sends
  <2>4. inq' = inq
    BY HumanSends, Zenon
  <2> QED BY <1>1, <2>2, <2>3, <2>4, Maps, Zenon DEF NetInv, Updated
<1> QED BY <1>2, <1>3, HumanSends, Zenon

LEMMA DieNet ==
  ASSUME NetInv, Shape, NEW x \in Agent, Die(x)
  PROVE  Updated(link', link, x, <<>>)
<1>1. Sets(link', link, x, <<>>)
  BY Zenon DEF Die, Sets
<1> QED BY <1>1, MapUpdate, Maps, Zenon

LEMMA DeliverNet ==
  ASSUME NetInv, Shape, NEW x \in Agent, Deliver(x)
  PROVE  /\ NetInv' /\ IsMap(link') /\ IsMap(inq')
         /\ Updated(inq', inq, x, Tail(inq[x])) /\ blocks' = blocks
<1>1. /\ Sets(inq', inq, x, Tail(inq[x])) /\ inq[x] # <<>>
      /\ consent' = consent /\ blocks' = blocks
  BY Zenon DEF Deliver, Sets, pastVars
<1>2. Updated(inq', inq, x, Tail(inq[x]))
  BY <1>1, MapUpdate, Maps, Zenon
<1>3. Tail(inq[x]) \in Seq(Incoming(x, consent))
  BY <1>1, SeqSteps, Zenon DEF NetInv
<1>4. link' = link \/ Die(x)
  BY Zenon DEF Deliver, Handle, HandleIncomingRequest, HandleIncomingResponse,
    HandleIncomingRevoke
<1>5. link' = link \/ Updated(link', link, x, <<>>)
  BY <1>4, DieNet, Zenon
<1>6. <<>> \in Seq(Outgoing(x, consent))
  OBVIOUS
<1>7. IsMap(link') /\ \A z \in Agent : link'[z] \in Seq(Outgoing(z, consent))
  BY <1>5, <1>6, Maps, Zenon DEF Updated, NetInv
<1> QED BY <1>1, <1>2, <1>3, <1>7, Zenon DEF NetInv, Updated

LEMMA RelaySteps ==
  ASSUME NetInv, Shape, NEW x \in Agent, Relay(x)
  PROVE  LET m == Head(link[x])
         IN  /\ link[x] # <<>> /\ m \in Outgoing(x, consent) /\ m.to \in Agent
             /\ Updated(link', link, x, Tail(link[x]))
             /\ Keeps /\ consent' = consent
             /\ \/ inq' = inq /\ (m.type \in {"block", "unblock"} \/ blocks # {})
                \/ /\ m.type \notin {"block", "unblock"}
                   /\ Updated(inq', inq, m.to, Append(inq[m.to], m))
             /\ \/ blocks' = blocks
                \/ m.type = "block" /\ blocks' = blocks \cup {<<x, m.to>>}
                \/ m.type = "unblock" /\ blocks' \subseteq blocks
<1> DEFINE m == Head(link[x])
<1>1. /\ link[x] # <<>> /\ Sets(link', link, x, Tail(link[x]))
      /\ Keeps /\ consent' = consent
      /\ \/ inq' = inq /\ (m.type \in {"block", "unblock"} \/ blocks # {})
         \/ /\ m.type \notin {"block", "unblock"}
            /\ Sets(inq', inq, m.to, Append(inq[m.to], m))
      /\ \/ blocks' = blocks
         \/ m.type = "block" /\ blocks' = blocks \cup {<<x, m.to>>}
         \/ m.type = "unblock" /\ blocks' \subseteq blocks
  BY Zenon DEF Relay, Sets, storeVars, pastVars, Keeps
<1>2. m \in Outgoing(x, consent)
  BY <1>1, SeqSteps, Zenon DEF NetInv
<1>3. m.to \in Agent
  BY <1>2 DEF Outgoing, Fit, Envelope
<1> HIDE DEF m
<1>4. Updated(link', link, x, Tail(link[x]))
  BY <1>1, MapUpdate, Maps, Zenon
<1>5. Sets(inq', inq, m.to, Append(inq[m.to], m)) =>
        Updated(inq', inq, m.to, Append(inq[m.to], m))
  BY <1>3, MapUpdate, Maps, Zenon
<1> QED BY <1>1, <1>2, <1>3, <1>4, <1>5, Zenon DEF m

LEMMA RelayNet ==
  ASSUME NetInv, Shape, NEW x \in Agent, Relay(x)
  PROVE  NetInv' /\ IsMap(link') /\ IsMap(inq')
<1> DEFINE m == Head(link[x])
<1>1. /\ link[x] # <<>> /\ m \in Outgoing(x, consent) /\ m.to \in Agent
      /\ Updated(link', link, x, Tail(link[x])) /\ consent' = consent
      /\ \/ inq' = inq
         \/ /\ m.type \notin {"block", "unblock"}
            /\ Updated(inq', inq, m.to, Append(inq[m.to], m))
  BY RelaySteps, Zenon
<1> HIDE DEF m
<1>2. Tail(link[x]) \in Seq(Outgoing(x, consent))
  BY <1>1, SeqSteps, Zenon DEF NetInv
<1>3. m.type \notin {"block", "unblock"} =>
        Append(inq[m.to], m) \in Seq(Incoming(m.to, consent))
  <2>1. m.type \notin {"block", "unblock"} => m \in Incoming(m.to, consent)
    BY <1>1, Zenon DEF Outgoing, Incoming
  <2> QED BY <1>1, <2>1, SeqSteps, Zenon DEF NetInv
<1>4. IsMap(link') /\ \A z \in Agent : link'[z] \in Seq(Outgoing(z, consent))
  BY <1>1, <1>2, Zenon DEF NetInv, Updated
<1>5. IsMap(inq') /\ \A z \in Agent : inq'[z] \in Seq(Incoming(z, consent))
  BY <1>1, <1>3, Maps, Zenon DEF NetInv, Updated
<1> QED BY <1>1, <1>4, <1>5, Zenon DEF NetInv

LEMMA FaultNet ==
  ASSUME NetInv, Shape, NEW x \in Agent, RelayFault(x)
  PROVE  NetInv' /\ IsMap(link') /\ IsMap(inq')
<1> DEFINE S == Seq(Incoming(x, consent))
<1>1. PICK i \in DOMAIN inq[x] :
        \/ Sets(inq', inq, x, SubSeq(inq[x], 1, i - 1)
                                \o SubSeq(inq[x], i + 1, Len(inq[x])))
        \/ Sets(inq', inq, x, Append(inq[x], inq[x][i]))
        \/ /\ i < Len(inq[x])
           /\ Sets(inq', inq, x, [inq[x] EXCEPT ![i] = inq[x][i + 1],
                                                ![i + 1] = inq[x][i]])
  BY Zenon DEF RelayFault, Sets
<1>0. link' = link /\ consent' = consent /\ inq[x] \in S
  BY Zenon DEF RelayFault, pastVars, NetInv
<1>2. /\ SubSeq(inq[x], 1, i - 1) \o SubSeq(inq[x], i + 1, Len(inq[x])) \in S
      /\ Append(inq[x], inq[x][i]) \in S
  BY <1>0, SeqRemove, SeqSteps, Zenon
<1>3. i < Len(inq[x]) => [inq[x] EXCEPT ![i] = inq[x][i + 1],
                                         ![i + 1] = inq[x][i]] \in S
  BY <1>0, SeqSwap, Zenon
<1>4. PICK s \in S : Sets(inq', inq, x, s)
  BY <1>1, <1>2, <1>3, Zenon
<1>5. Updated(inq', inq, x, s)
  BY <1>4, MapUpdate, Maps, Zenon
<1> QED BY <1>0, <1>5, Maps, Zenon DEF NetInv, Updated

LEMMA NextNet ==
  ASSUME StoreInv, NetInv, Shape, [Next]_vars
  PROVE  NetInv' /\ IsMap(link') /\ IsMap(inq')
<1>1. ASSUME NEW x \in Agent, Exit(x)
      PROVE  NetInv' /\ IsMap(link') /\ IsMap(inq')
  <2>1. Updated(link', link, x, <<>>) /\ inq' = inq /\ consent' = consent
    BY <1>1, DieNet, Zenon DEF Exit, pastVars
  <2>2. <<>> \in Seq(Outgoing(x, consent))
    OBVIOUS
  <2> QED BY <2>1, <2>2, Maps, Zenon DEF NetInv, Updated
<1>2. ASSUME NEW x \in Agent, SaveBegin(x) \/ SaveEnd(x) \/ Boot(x)
      PROVE  link' = link /\ inq' = inq /\ consent' = consent
  BY <1>2, Zenon DEF SaveBegin, SaveEnd, Boot, netVars, pastVars
<1>3. ASSUME UNCHANGED vars
      PROVE  link' = link /\ inq' = inq /\ consent' = consent
  BY <1>3, Zenon DEF vars, netVars, pastVars
<1>4. ASSUME link' = link /\ inq' = inq /\ consent' = consent
      PROVE  NetInv' /\ IsMap(link') /\ IsMap(inq')
  BY <1>4, Maps, Zenon DEF NetInv
<1> QED BY <1>1, <1>2, <1>3, <1>4, HumanNet, DeliverNet, RelayNet, FaultNet, Zenon
  DEF Next

-----------------------------------------------------------------------------
(* Types                                                                   *)

LEMMA NextShape ==
  ASSUME StoreInv, NetInv, Shape, [Next]_vars
  PROVE  Shape'
<1>1. /\ IsMap(conns') /\ IsMap(disk') /\ IsMap(snaps') /\ IsMap(link')
      /\ IsMap(inq')
  BY NextStore, NextNet, Zenon
<1> DEFINE Ups == [Agent -> BOOLEAN]
           Counts == [Agent -> Nat]
<1>0. /\ up \in Ups /\ mkdirs \in Counts /\ blocks \subseteq Pair
      /\ consent \subseteq Pair /\ unblocked \subseteq Pair
      /\ ops \in Nat /\ restarts \in Nat /\ faults \in Nat
      /\ ops + 1 \in Nat /\ restarts + 1 \in Nat /\ faults + 1 \in Nat
  BY DEF Shape
<1>2. \A x \in Agent : /\ [up EXCEPT ![x] = TRUE] \in Ups
                       /\ [up EXCEPT ![x] = FALSE] \in Ups
                       /\ [mkdirs EXCEPT ![x] = 0] \in Counts
                       /\ [mkdirs EXCEPT ![x] = @ + 1] \in Counts
                       /\ mkdirs[x] > 0 => [mkdirs EXCEPT ![x] = @ - 1] \in Counts
  BY <1>0
<1> HIDE DEF Ups, Counts
<1>3. ASSUME NEW x \in Agent, NEW y \in Agent,
             \/ SendRequest(x, y) \/ ApproveRequest(x, y) \/ RejectRequest(x, y)
             \/ BlockConnection(x, y) \/ UnblockConnection(x, y)
             \/ BlockFails(x, y, "block") \/ BlockFails(x, y, "unblock")
             \/ RevokeConnection(x, y) \/ ExpirePendingRequests(x, y)
      PROVE  /\ up' \in Ups /\ mkdirs' \in Counts /\ blocks' \subseteq Pair
             /\ consent' \subseteq Pair /\ unblocked' \subseteq Pair
             /\ ops' \in Nat /\ restarts' \in Nat /\ faults' \in Nat
  <2>1. up' = up /\ restarts' = restarts /\ blocks' = blocks
    BY <1>3, Zenon DEF SendRequest, ApproveRequest, RejectRequest,
      BlockConnection, UnblockConnection, BlockFails, RevokeConnection,
      ExpirePendingRequests, netVars
  <2>2. ops' = ops + 1 /\ (faults' = faults \/ faults' = faults + 1)
    BY <1>3, Zenon DEF SendRequest, ApproveRequest, RejectRequest,
      BlockConnection, UnblockConnection, BlockFails, RevokeConnection,
      ExpirePendingRequests, Human
  <2>3. mkdirs' = mkdirs \/ mkdirs' = [mkdirs EXCEPT ![x] = @ + 1]
    BY <1>3, Zenon DEF SendRequest, ApproveRequest, RejectRequest,
      BlockConnection, UnblockConnection, BlockFails, RevokeConnection,
      ExpirePendingRequests, SetState, storeVars
  <2>4. /\ consent' = consent \/ consent' = consent \cup {<<x, y>>}
        /\ unblocked' = unblocked \/ unblocked' = unblocked \cup {<<x, y>>}
    BY <1>3, Zenon DEF SendRequest, ApproveRequest, RejectRequest,
      BlockConnection, UnblockConnection, BlockFails, RevokeConnection,
      ExpirePendingRequests, Consents, pastVars
  <2>5. <<x, y>> \in Pair
    BY Zenon DEF Pair
  <2> QED BY <1>0, <1>2, <2>1, <2>2, <2>3, <2>4, <2>5, Zenon
<1>4. ASSUME NEW x \in Agent, Deliver(x) \/ Exit(x)
      PROVE  /\ up' \in Ups /\ mkdirs' \in Counts /\ blocks' \subseteq Pair
             /\ consent' \subseteq Pair /\ unblocked' \subseteq Pair
             /\ ops' \in Nat /\ restarts' \in Nat /\ faults' \in Nat
  BY <1>0, <1>2, <1>4, Zenon DEF Deliver, Handle, HandleIncomingRequest,
    HandleIncomingResponse, HandleIncomingRevoke, SetState, Exit, Die, storeVars,
    pastVars
<1>5. ASSUME NEW x \in Agent, Relay(x)
      PROVE  /\ up' \in Ups /\ mkdirs' \in Counts /\ blocks' \subseteq Pair
             /\ consent' \subseteq Pair /\ unblocked' \subseteq Pair
             /\ ops' \in Nat /\ restarts' \in Nat /\ faults' \in Nat
  <2>1. \A y \in Agent : <<x, y>> \in Pair
    BY Zenon DEF Pair
  <2>2. blocks' \subseteq Pair
    BY <1>0, <1>5, <2>1, RelaySteps, Zenon
  <2> QED BY <1>0, <1>5, <2>2, Zenon DEF Relay, storeVars, pastVars
<1>6. ASSUME NEW x \in Agent,
             RelayFault(x) \/ SaveBegin(x) \/ SaveEnd(x) \/ Boot(x)
      PROVE  /\ up' \in Ups /\ mkdirs' \in Counts /\ blocks' \subseteq Pair
             /\ consent' \subseteq Pair /\ unblocked' \subseteq Pair
             /\ ops' \in Nat /\ restarts' \in Nat /\ faults' \in Nat
  BY <1>0, <1>2, <1>6, Zenon DEF RelayFault, SaveBegin, SaveEnd, Boot, storeVars,
    netVars, pastVars
<1>7. CASE UNCHANGED vars
  BY <1>1, <1>7, Zenon DEF vars, storeVars, netVars, pastVars, Shape
<1> QED BY <1>1, <1>3, <1>4, <1>5, <1>6, <1>7, Zenon DEF Next, Shape, Ups, Counts

-----------------------------------------------------------------------------
(* While no process ends, consent leaves a record                          *)

WrittenAt(x, y, st) ==
  /\ conns'[x][y] = st
  /\ \A z, w \in Agent : <<z, w>> # <<x, y>> => conns'[z][w] = conns[z][w]

LEMMA WritesAt ==
  ASSUME StoreInv, Shape, NEW x \in Agent, NEW y \in Agent, NEW st,
         Writes(x, y, st)
  PROVE  WrittenAt(x, y, st)
<1> DEFINE s == [conns[x] EXCEPT ![y] = st]
<1>1. Sets(conns', conns, x, s)
  BY Zenon DEF Writes, Sets
<1>2. conns[x] \in Store
  BY Zenon DEF StoreInv, Good
<1>3. s[y] = st /\ \A w \in Agent : w # y => s[w] = conns[x][w]
  BY <1>2 DEF Store
<1> HIDE DEF s
<1>4. Updated(conns', conns, x, s)
  BY <1>1, MapUpdate, Maps, Zenon
<1> QED BY <1>3, <1>4 DEF Updated, WrittenAt

LEMMA DeliverSteps ==
  ASSUME NetInv, KnownInv, restarts = 0, NEW x \in Agent, Deliver(x)
  PROVE  LET m == Head(inq[x])
         IN  /\ inq[x] # <<>> /\ m \in Incoming(x, consent) /\ m.from \in Agent
             /\ up' = up /\ link' = link /\ consent' = consent
             /\ \/ Keeps /\ m.type = "revoke"
                \/ \E st \in State \ {"none"} :
                     /\ Writes(x, m.from, st)
                     /\ m.type = "request" => st = "pending_inbound"
                     /\ m.type = "response" => st = "active"
<1> DEFINE m == Head(inq[x])
<1>1. m \in Incoming(x, consent) /\ inq[x] # <<>>
  BY SeqSteps, Zenon DEF NetInv, Deliver
<1>2. m.from \in Agent /\ m.to = x
  BY <1>1 DEF Incoming, Fit, Envelope
<1>3. /\ m.type = "request" => <<m.from, x>> \in consent
      /\ m.type = "response" =>
           <<m.from, x>> \in consent /\ <<x, m.from>> \in consent
  BY <1>1, <1>2, Zenon DEF Incoming, Fit
<1> HIDE DEF m
<1>4. Handle(x, m) /\ disk' = disk /\ consent' = consent
  BY Zenon DEF Deliver, m, pastVars
<1>5. CASE HandleIncomingRequest(x, m)
  <2>1. Writes(x, m.from, "pending_inbound")
    BY <1>2, <1>3, <1>4, <1>5, Zenon DEF HandleIncomingRequest, SetState, Writes,
      Justified, State
  <2>2. m.type = "request" /\ up' = up /\ link' = link
    BY <1>5, Zenon DEF HandleIncomingRequest
  <2> QED BY <1>1, <1>2, <1>4, <2>1, <2>2, Zenon DEF m, State
<1>6. CASE HandleIncomingResponse(x, m)
  <2>1. m.type = "response" /\ Known(x, m.from)
    BY <1>2, <1>3, <1>6, Zenon DEF HandleIncomingResponse, KnownInv
  <2>2. Writes(x, m.from, "active")
    BY <1>2, <1>3, <1>4, <1>6, <2>1, Zenon DEF HandleIncomingResponse, SetState,
      Writes, Justified, State
  <2>3. up' = up /\ link' = link
    BY <1>6, <2>1, Zenon DEF HandleIncomingResponse
  <2> QED BY <1>1, <1>2, <1>4, <2>1, <2>2, <2>3, Zenon DEF m, State
<1>7. CASE HandleIncomingRevoke(x, m)
  <2>1. Keeps \/ Writes(x, m.from, "revoked")
    BY <1>2, <1>4, <1>7, Zenon DEF HandleIncomingRevoke, SetState, storeVars,
      Writes, Justified, State, Keeps
  <2>2. m.type = "revoke" /\ up' = up /\ link' = link
    BY <1>7, Zenon DEF HandleIncomingRevoke
  <2> QED BY <1>1, <1>2, <1>4, <2>1, <2>2, Zenon DEF m, State
<1> QED BY <1>4, <1>5, <1>6, <1>7, Zenon DEF Handle

(* No process has ended, and no fault has happened, before the first.      *)
LEMMA CounterSteps ==
  ASSUME Shape, [Next]_vars
  PROVE  /\ restarts' = 0 => restarts = 0 /\ \A x \in Agent : ~Exit(x)
         /\ faults' = 0 => /\ faults = 0
                          /\ \A x \in Agent :
                               /\ ~RelayFault(x)
                               /\ \A y \in Agent, op \in {"block", "unblock"} :
                                    ~BlockFails(x, y, op)
<1>0. /\ restarts \in Nat /\ faults \in Nat
      /\ restarts + 1 # 0 /\ faults + 1 # 0
  BY DEF Shape
<1>1. /\ \A x \in Agent : Exit(x) => restarts' = restarts + 1
      /\ \A x \in Agent : RelayFault(x) => faults' = faults + 1
      /\ \A x, y \in Agent, op \in {"block", "unblock"} :
           BlockFails(x, y, op) => faults' = faults + 1
  BY Zenon DEF Exit, RelayFault, BlockFails
<1>2. ASSUME NEW x \in Agent, NEW y \in Agent,
             \/ SendRequest(x, y) \/ ApproveRequest(x, y) \/ RejectRequest(x, y)
             \/ BlockConnection(x, y) \/ UnblockConnection(x, y)
             \/ BlockFails(x, y, "block") \/ BlockFails(x, y, "unblock")
             \/ RevokeConnection(x, y) \/ ExpirePendingRequests(x, y)
      PROVE  restarts' = restarts /\ (faults' = faults \/ faults' = faults + 1)
  BY <1>2, Zenon DEF SendRequest, ApproveRequest, RejectRequest,
    BlockConnection, UnblockConnection, BlockFails, RevokeConnection,
    ExpirePendingRequests
<1>3. ASSUME NEW x \in Agent, \/ Deliver(x) \/ Relay(x) \/ RelayFault(x)
             \/ SaveBegin(x) \/ SaveEnd(x) \/ Exit(x) \/ Boot(x)
      PROVE  /\ restarts' = restarts \/ restarts' = restarts + 1
             /\ faults' = faults \/ faults' = faults + 1
  BY <1>3, Zenon DEF Deliver, Relay, RelayFault, SaveBegin, SaveEnd, Exit, Boot
<1>4. ASSUME UNCHANGED vars
      PROVE  restarts' = restarts /\ faults' = faults
  BY <1>4, Zenon DEF vars
<1>5. /\ restarts' = restarts \/ restarts' = restarts + 1
      /\ faults' = faults \/ faults' = faults + 1
  BY <1>2, <1>3, <1>4, Zenon DEF Next
<1> QED BY <1>0, <1>1, <1>5, Zenon

LEMMA NextKnown ==
  ASSUME StoreInv, NetInv, Shape, KnownInv, [Next]_vars
  PROVE  KnownInv'
<1> SUFFICES ASSUME restarts' = 0
             PROVE  \A x \in Agent :
                      up'[x] /\ \A y \in Agent : <<x, y>> \in consent' => Known(x, y)'
  BY Zenon DEF KnownInv
<1>1. restarts = 0 /\ \A x \in Agent : ~Exit(x)
  BY CounterSteps, Zenon
<1>2. \A x \in Agent :
        up[x] /\ \A y \in Agent : <<x, y>> \in consent => Known(x, y)
  BY <1>1, Zenon DEF KnownInv
<1>3. ASSUME Keeps, up' = up
      PROVE  \A x \in Agent :
               up'[x] /\ \A y \in Agent : <<x, y>> \in consent' => Known(x, y)'
  BY <1>2, <1>3, Zenon DEF Keeps, Known
<1>4. ASSUME NEW x \in Agent, NEW y \in Agent, NEW st, Writes(x, y, st),
             up' = up, consent' \subseteq consent \cup {<<x, y>>}
      PROVE  \A z \in Agent :
               up'[z] /\ \A w \in Agent : <<z, w>> \in consent' => Known(z, w)'
  <2>0. WrittenAt(x, y, st)
    BY <1>4, WritesAt, Zenon
  <2>1. conns'[x][y] # "none"
    BY <1>4, <2>0, Zenon DEF Writes, Justified, WrittenAt
  <2>2. \A z, w \in Agent : <<z, w>> # <<x, y>> => conns'[z][w] = conns[z][w]
    BY <2>0, Zenon DEF WrittenAt
  <2>3. ASSUME NEW z \in Agent, NEW w \in Agent, <<z, w>> \in consent'
        PROVE  conns'[z][w] # "none"
    <3>1. CASE z = x /\ w = y
      BY <2>1, <3>1, Zenon
    <3>2. CASE ~(z = x /\ w = y)
      <4>1. <<z, w>> # <<x, y>>
        BY <3>2
      <4>2. <<z, w>> \in consent
        BY <1>4, <2>3, <4>1, Zenon
      <4>3. conns'[z][w] = conns[z][w]
        BY <2>2, <4>1, Zenon
      <4> QED BY <1>2, <4>2, <4>3, Zenon DEF Known
    <3> QED BY <3>1, <3>2, Zenon
  <2> QED BY <1>2, <1>4, <2>3, Zenon DEF Known
<1>5. ASSUME NEW x \in Agent, NEW y \in Agent,
             \/ SendRequest(x, y) \/ ApproveRequest(x, y) \/ RejectRequest(x, y)
             \/ BlockConnection(x, y) \/ UnblockConnection(x, y)
             \/ BlockFails(x, y, "block") \/ BlockFails(x, y, "unblock")
             \/ RevokeConnection(x, y) \/ ExpirePendingRequests(x, y)
      PROVE  \A z \in Agent :
               up'[z] /\ \A w \in Agent : <<z, w>> \in consent' => Known(z, w)'
  <2>1. up' = up /\ consent' \subseteq consent \cup {<<x, y>>}
    BY <1>5, Zenon DEF SendRequest, ApproveRequest, RejectRequest,
      BlockConnection, UnblockConnection, BlockFails, RevokeConnection,
      ExpirePendingRequests, Consents, pastVars
  <2> QED BY <1>3, <1>4, <1>5, <2>1, HumanStore, Zenon
<1>6. ASSUME NEW x \in Agent, Deliver(x)
      PROVE  \A z \in Agent :
               up'[z] /\ \A w \in Agent : <<z, w>> \in consent' => Known(z, w)'
  BY <1>1, <1>3, <1>4, <1>6, DeliverSteps, Zenon
<1>7. ASSUME NEW x \in Agent, Relay(x) \/ RelayFault(x)
      PROVE  Keeps /\ up' = up
  BY <1>7, Zenon DEF Relay, RelayFault, Keeps, storeVars, pastVars
<1>8. ASSUME NEW x \in Agent, SaveBegin(x) \/ SaveEnd(x) \/ Boot(x)
      PROVE  conns' = conns /\ up' = up /\ consent' = consent
  BY <1>2, <1>8, Zenon DEF SaveBegin, SaveEnd, Boot, pastVars
<1>9. CASE UNCHANGED vars
  BY <1>3, <1>9, Zenon DEF vars, storeVars, pastVars, Keeps
<1>10. ASSUME conns' = conns, up' = up, consent' = consent
       PROVE  \A x \in Agent :
                up'[x] /\ \A y \in Agent : <<x, y>> \in consent' => Known(x, y)'
  BY <1>2, <1>10, Zenon DEF Known
<1> QED BY <1>1, <1>3, <1>5, <1>6, <1>7, <1>8, <1>9, <1>10, Zenon DEF Next

-----------------------------------------------------------------------------
(* Opening a connection: what is under way                                 *)

Matches(e, y, x) == e.from = y /\ e.to = x

(* What adding an envelope to a sequence does to the envelopes of a pair.  *)
Lengthened(s, e, y, x) ==
  /\ Carries(Append(s, e), y, x) <=> Carries(s, y, x) \/ Matches(e, y, x)
  /\ Matches(e, y, x) /\ e.type = "request" => EndsInRequest(Append(s, e), y, x)
  /\ ~Matches(e, y, x) /\ EndsInRequest(s, y, x) =>
       EndsInRequest(Append(s, e), y, x)

(* And taking the first away.                                              *)
Shortened(s, y, x) ==
  /\ Carries(Tail(s), y, x) => Carries(s, y, x)
  /\ Carries(s, y, x) => Carries(Tail(s), y, x) \/ Matches(Head(s), y, x)
  /\ Matches(Head(s), y, x) => Carries(s, y, x)
  /\ EndsInRequest(s, y, x) =>
       \/ EndsInRequest(Tail(s), y, x)
       \/ /\ Matches(Head(s), y, x) /\ Head(s).type = "request"
          /\ ~Carries(Tail(s), y, x)

LEMMA Lengthening ==
  ASSUME NEW S, NEW s \in Seq(S), NEW e \in S, NEW y, NEW x
  PROVE  Lengthened(s, e, y, x)
<1> DEFINE t == Append(s, e)
<1>1. /\ DOMAIN t = 1..(Len(s) + 1) /\ DOMAIN s = 1..Len(s) /\ Len(s) \in Nat
      /\ t[Len(s) + 1] = e /\ \A i \in DOMAIN s : t[i] = s[i]
  OBVIOUS
<1>2. /\ Len(s) + 1 \in DOMAIN t /\ \A i \in DOMAIN s : i \in DOMAIN t
      /\ \A i \in DOMAIN t : i \in DOMAIN s \/ i = Len(s) + 1
      /\ \A i \in DOMAIN s : Len(s) + 1 > i /\ ~(i > Len(s) + 1)
      /\ ~(Len(s) + 1 > Len(s) + 1)
  BY <1>1
<1> HIDE DEF t
<1>3. /\ Carries(t, y, x) <=> Carries(s, y, x) \/ Matches(e, y, x)
      /\ Matches(e, y, x) /\ e.type = "request" => EndsInRequest(t, y, x)
      /\ ~Matches(e, y, x) /\ EndsInRequest(s, y, x) => EndsInRequest(t, y, x)
  <2>1. Carries(t, y, x) <=> Carries(s, y, x) \/ Matches(e, y, x)
    BY <1>1, <1>2, Zenon DEF Carries, Matches
  <2>2. Matches(e, y, x) /\ e.type = "request" => EndsInRequest(t, y, x)
    BY <1>1, <1>2, Zenon DEF EndsInRequest, Matches
  <2>3. ~Matches(e, y, x) /\ EndsInRequest(s, y, x) => EndsInRequest(t, y, x)
    BY <1>1, <1>2, Zenon DEF EndsInRequest, Matches
  <2> QED BY <2>1, <2>2, <2>3, Zenon
<1> QED BY <1>3, Zenon DEF t, Lengthened

LEMMA Shortening ==
  ASSUME NEW S, NEW s \in Seq(S), s # <<>>, NEW y, NEW x
  PROVE  Shortened(s, y, x)
<1> DEFINE t == Tail(s)
<1>1. /\ DOMAIN t = 1..(Len(s) - 1) /\ DOMAIN s = 1..Len(s) /\ Len(s) \in Nat
      /\ Len(s) > 0 /\ Head(s) = s[1] /\ \A i \in DOMAIN t : t[i] = s[i + 1]
  OBVIOUS
<1>2. /\ 1 \in DOMAIN s /\ \A i \in DOMAIN t : i + 1 \in DOMAIN s
      /\ \A i \in DOMAIN s : i = 1 \/ (i - 1 \in DOMAIN t /\ t[i - 1] = s[i])
      /\ \A i \in DOMAIN t : i + 1 > 1
      /\ \A i \in DOMAIN s, j \in DOMAIN t : i # 1 /\ j > i - 1 => j + 1 > i
  BY <1>1
<1> HIDE DEF t
<1>3. Carries(t, y, x) => Carries(s, y, x)
  BY <1>1, <1>2, Zenon DEF Carries
<1>4. Carries(s, y, x) => Carries(t, y, x) \/ Matches(Head(s), y, x)
  BY <1>1, <1>2, Zenon DEF Carries, Matches
<1>5. Matches(Head(s), y, x) => Carries(s, y, x)
  BY <1>1, <1>2, Zenon DEF Carries, Matches
<1>6. ASSUME EndsInRequest(s, y, x)
      PROVE  \/ EndsInRequest(t, y, x)
             \/ /\ Matches(Head(s), y, x) /\ Head(s).type = "request"
                /\ ~Carries(t, y, x)
  <2>1. PICK i \in DOMAIN s :
          /\ s[i].from = y /\ s[i].to = x /\ s[i].type = "request"
          /\ \A j \in DOMAIN s : j > i => ~(s[j].from = y /\ s[j].to = x)
    BY <1>6, Zenon DEF EndsInRequest
  <2>2. CASE i = 1
    <3>1. ASSUME NEW j \in DOMAIN t
          PROVE  ~(t[j].from = y /\ t[j].to = x)
      <4>1. j + 1 \in DOMAIN s /\ j + 1 > i /\ t[j] = s[j + 1]
        BY <1>1, <1>2, <2>2, Zenon
      <4> QED BY <2>1, <4>1, Zenon
    <3>2. Matches(Head(s), y, x) /\ Head(s).type = "request"
      BY <1>1, <2>1, <2>2, Zenon DEF Matches
    <3> QED BY <3>1, <3>2, Zenon DEF Carries
  <2>3. CASE i # 1
    <3> DEFINE k == i - 1
    <3>1. k \in DOMAIN t /\ t[k] = s[i]
      BY <1>2, <2>3, Zenon
    <3>2. ASSUME NEW j \in DOMAIN t, j > k
          PROVE  ~(t[j].from = y /\ t[j].to = x)
      <4>1. j + 1 \in DOMAIN s /\ j + 1 > i /\ t[j] = s[j + 1]
        BY <1>1, <1>2, <2>3, <3>2, Zenon
      <4> QED BY <2>1, <4>1, Zenon
    <3> HIDE DEF k
    <3> QED BY <2>1, <3>1, <3>2, Zenon DEF EndsInRequest
  <2> QED BY <2>2, <2>3, Zenon
<1> QED BY <1>3, <1>4, <1>5, <1>6, Zenon DEF t, Shortened

(* The steps that are possible while connections are only opened.          *)
LEMMA OpeningSteps ==
  ASSUME Shape, KnownInv, Opening', [Next]_vars
  PROVE  /\ Opening
         /\ \/ \E x, y \in Agent : SendRequest(x, y) \/ ApproveRequest(x, y)
            \/ \E x \in Agent : Deliver(x) \/ Relay(x)
            \/ conns' = conns /\ link' = link /\ inq' = inq /\ blocks' = blocks
<1>1. /\ Opening /\ \A x \in Agent : ~Exit(x) /\ ~RelayFault(x) /\ up[x]
      /\ \A x, y \in Agent, op \in {"block", "unblock"} : ~BlockFails(x, y, op)
  BY CounterSteps, Zenon DEF Opening, KnownInv
<1>2. \A x, y \in Agent :
        /\ ~RejectRequest(x, y) /\ ~BlockConnection(x, y)
        /\ ~UnblockConnection(x, y) /\ ~RevokeConnection(x, y)
        /\ ~ExpirePendingRequests(x, y)
  BY <1>1, Zenon DEF Opening, RejectRequest, BlockConnection, UnblockConnection,
    RevokeConnection, ExpirePendingRequests, Human
<1>3. ASSUME NEW x \in Agent, SaveBegin(x) \/ SaveEnd(x)
      PROVE  conns' = conns /\ link' = link /\ inq' = inq /\ blocks' = blocks
  BY <1>3, Zenon DEF SaveBegin, SaveEnd, netVars
<1>4. \A x \in Agent : ~Boot(x)
  BY <1>1, Zenon DEF Boot
<1>5. ASSUME UNCHANGED vars
      PROVE  conns' = conns /\ link' = link /\ inq' = inq /\ blocks' = blocks
  BY <1>5, Zenon DEF vars, storeVars, netVars
<1> QED BY <1>1, <1>2, <1>3, <1>4, <1>5, Zenon DEF Next

(* A new envelope from a to b, and the record it comes with.               *)
LEMMA SentAgreed ==
  ASSUME StoreInv, NetInv, Shape, NEW a \in Agent, NEW b \in Agent, a # b,
         NEW e \in Outgoing(a, consent'), Matches(e, a, b), NEW st,
         WrittenAt(a, b, st), consent \subseteq consent',
         Updated(link', link, a, Append(link[a], e)), inq' = inq,
         e.type = "request" \/ st = "active",
         \A x, y \in Agent : Agreed(x, y)
  PROVE  \A x, y \in Agent : Agreed(x, y)'
<1>0. \A z \in Agent : link[z] \in Seq(Outgoing(z, consent'))
  BY NetGrows, Zenon
<1>1. ASSUME NEW x \in Agent, NEW y \in Agent
      PROVE  /\ Carries(link'[y], y, x) <=>
                  Carries(link[y], y, x) \/ (y = a /\ x = b)
             /\ EndsInRequest(link[y], y, x) /\ ~(y = a /\ x = b) =>
                  EndsInRequest(link'[y], y, x)
  <2>1. CASE y = a
    <3>1. link'[y] = Append(link[y], e) /\ link[y] \in Seq(Outgoing(a, consent'))
      BY <1>0, <2>1, Zenon DEF Updated
    <3>2. Matches(e, y, x) <=> x = b
      BY <2>1, Zenon DEF Matches
    <3> QED BY <2>1, <3>1, <3>2, Lengthening, Zenon DEF Lengthened
  <2>2. CASE y # a
    BY <2>2, Zenon DEF Updated
  <2> QED BY <2>1, <2>2, Zenon
<1>2. e.type = "request" => EndsInRequest(link'[a], a, b)
  <2>1. link'[a] = Append(link[a], e) /\ link[a] \in Seq(Outgoing(a, consent'))
    BY <1>0, Zenon DEF Updated
  <2> QED BY <2>1, Lengthening, Zenon DEF Lengthened
<1> SUFFICES ASSUME NEW x \in Agent, NEW y \in Agent
             PROVE  Agreed(x, y)'
  BY Zenon
<1>3. CASE x = a /\ y = b
  BY <1>1, <1>3, Zenon DEF Agreed, Underway
<1>4. CASE y = a /\ x = b
  <2>1. conns'[y][x] = st
    BY <1>4, Zenon DEF WrittenAt
  <2> QED BY <1>2, <1>4, <2>1, Zenon DEF Agreed, RequestLast
<1>5. CASE ~(x = a /\ y = b) /\ ~(y = a /\ x = b)
  <2>1. <<y, x>> # <<a, b>> /\ <<x, y>> # <<a, b>>
    BY <1>5
  <2>2. conns'[y][x] = conns[y][x] /\ conns'[x][y] = conns[x][y]
    BY <2>1, Zenon DEF WrittenAt
  <2>3. /\ Carries(link'[x], x, y) <=> Carries(link[x], x, y)
        /\ Carries(link'[y], y, x) <=> Carries(link[y], y, x)
        /\ EndsInRequest(link[y], y, x) => EndsInRequest(link'[y], y, x)
    BY <1>1, <1>5, Zenon
  <2>4. Underway(x, y)' <=> Underway(x, y)
    BY <2>3, Zenon DEF Underway
  <2>5. Underway(y, x)' <=> Underway(y, x)
    BY <2>3, Zenon DEF Underway
  <2>6. RequestLast(y, x) => RequestLast(y, x)'
    BY <2>3, Zenon DEF RequestLast
  <2>7. Agreed(x, y)
    OBVIOUS
  <2> QED BY <2>2, <2>4, <2>5, <2>6, <2>7, Zenon DEF Agreed
<1> QED BY <1>3, <1>4, <1>5, Zenon

(* a takes an envelope of b from the relay.                                *)
LEMMA DeliveredAgreed ==
  ASSUME NetInv, NEW a \in Agent, NEW b \in Agent, inq[a] # <<>>,
         Matches(Head(inq[a]), b, a), NEW st \in {"active", "pending_inbound"},
         Head(inq[a]).type = "request" => st = "pending_inbound",
         WrittenAt(a, b, st), Updated(inq', inq, a, Tail(inq[a])), link' = link,
         \A x, y \in Agent : Agreed(x, y)
  PROVE  \A x, y \in Agent : Agreed(x, y)'
<1> DEFINE h == Head(inq[a])
<1>0. inq[a] \in Seq(Incoming(a, consent))
  BY Zenon DEF NetInv
<1>1. ASSUME NEW x \in Agent, NEW y \in Agent, ~(y = b /\ x = a)
      PROVE  /\ Carries(inq'[x], y, x) <=> Carries(inq[x], y, x)
             /\ EndsInRequest(inq[x], y, x) => EndsInRequest(inq'[x], y, x)
  <2>1. CASE x = a
    <3>1. inq'[x] = Tail(inq[x])
      BY <2>1, Zenon DEF Updated
    <3>2. ~Matches(Head(inq[x]), y, x)
      BY <1>1, <2>1, Zenon DEF Matches
    <3>3. Shortened(inq[x], y, x)
      BY <1>0, <2>1, Shortening, Zenon
    <3> QED BY <3>1, <3>2, <3>3, Zenon DEF Shortened
  <2>2. CASE x # a
    BY <2>2, Zenon DEF Updated
  <2> QED BY <2>1, <2>2, Zenon
<1> SUFFICES ASSUME NEW x \in Agent, NEW y \in Agent
             PROVE  Agreed(x, y)'
  BY Zenon
<1>3. CASE y = a /\ x = b
  <2>1. conns'[y][x] = st
    BY <1>3, Zenon DEF WrittenAt
  <2> QED BY <2>1, Zenon DEF Agreed
<1>4. CASE x = a /\ y = b /\ a # b
  <2>0. Shortened(inq[x], y, x) /\ h = Head(inq[x])
    BY <1>0, <1>4, Shortening, Zenon
  <2>1. <<y, x>> # <<a, b>>
    BY <1>4
  <2>2. conns'[y][x] = conns[y][x] /\ conns'[x][y] = st
    BY <1>4, <2>1, Zenon DEF WrittenAt
  <2>3. Underway(x, y)' <=> Underway(x, y)
    BY <1>1, <1>4, Zenon DEF Underway
  <2>4. Underway(y, x)
    BY <1>0, <1>4, Shortening, Zenon DEF Underway, Shortened
  <2>5. ASSUME RequestLast(y, x)
        PROVE  RequestLast(y, x)' \/ (~Underway(y, x)' /\ st # "active")
    <3>1. CASE EndsInRequest(link[y], y, x)
      BY <3>1, Zenon DEF RequestLast
    <3>2. CASE ~Carries(link[y], y, x) /\ EndsInRequest(inq[x], y, x)
      <4>1. inq'[x] = Tail(inq[x])
        BY <1>4, Zenon DEF Updated
      <4>2. \/ EndsInRequest(inq'[x], y, x)
            \/ h.type = "request" /\ ~Carries(inq'[x], y, x)
        BY <2>0, <3>2, <4>1, Zenon DEF Shortened
      <4> QED BY <3>2, <4>2, Zenon DEF RequestLast, Underway
    <3> QED BY <2>5, <3>1, <3>2, Zenon DEF RequestLast
  <2>6. Agreed(x, y)
    OBVIOUS
  <2> QED BY <2>2, <2>3, <2>4, <2>5, <2>6, Zenon DEF Agreed
<1>5. CASE ~(x = a /\ y = b) /\ ~(y = a /\ x = b)
  <2>1. <<y, x>> # <<a, b>> /\ <<x, y>> # <<a, b>>
    BY <1>5
  <2>2. conns'[y][x] = conns[y][x] /\ conns'[x][y] = conns[x][y]
    BY <2>1, Zenon DEF WrittenAt
  <2>3. /\ Carries(inq'[x], y, x) <=> Carries(inq[x], y, x)
        /\ EndsInRequest(inq[x], y, x) => EndsInRequest(inq'[x], y, x)
        /\ Carries(inq'[y], x, y) <=> Carries(inq[y], x, y)
    BY <1>1, <1>5, Zenon
  <2>4. Underway(x, y)' <=> Underway(x, y)
    BY <2>3, Zenon DEF Underway
  <2>5. Underway(y, x)' <=> Underway(y, x)
    BY <2>3, Zenon DEF Underway
  <2>6. RequestLast(y, x) => RequestLast(y, x)'
    BY <2>3, Zenon DEF RequestLast
  <2>7. Agreed(x, y)
    OBVIOUS
  <2> QED BY <2>2, <2>4, <2>5, <2>6, <2>7, Zenon DEF Agreed
<1> QED BY <1>3, <1>4, <1>5, Zenon

(* The relay moves an envelope of a from its socket to b's queue.          *)
LEMMA RelayedAgreed ==
  ASSUME NetInv, NEW a \in Agent, NEW b \in Agent, link[a] # <<>>,
         NEW e, e = Head(link[a]), Matches(e, a, b), e \in Incoming(b, consent),
         Updated(link', link, a, Tail(link[a])),
         Updated(inq', inq, b, Append(inq[b], e)), conns' = conns,
         \A x, y \in Agent : Agreed(x, y)
  PROVE  \A x, y \in Agent : Agreed(x, y)'
<1>0. link[a] \in Seq(Outgoing(a, consent)) /\ inq[b] \in Seq(Incoming(b, consent))
  BY Zenon DEF NetInv
<1>1. ASSUME NEW x \in Agent, NEW y \in Agent, ~(y = a /\ x = b)
      PROVE  /\ Carries(link'[y], y, x) <=> Carries(link[y], y, x)
             /\ EndsInRequest(link[y], y, x) => EndsInRequest(link'[y], y, x)
             /\ Carries(inq'[x], y, x) <=> Carries(inq[x], y, x)
             /\ EndsInRequest(inq[x], y, x) => EndsInRequest(inq'[x], y, x)
  <2>0. ~Matches(e, y, x)
    BY <1>1, Zenon DEF Matches
  <2>1. /\ Carries(link'[y], y, x) <=> Carries(link[y], y, x)
        /\ EndsInRequest(link[y], y, x) => EndsInRequest(link'[y], y, x)
    <3>1. CASE y = a
      <4>1. link'[y] = Tail(link[y]) /\ e = Head(link[y])
        BY <3>1, Zenon DEF Updated
      <4>2. Shortened(link[y], y, x)
        BY <1>0, <3>1, Shortening, Zenon
      <4> QED BY <2>0, <4>1, <4>2, Zenon DEF Shortened
    <3>2. CASE y # a
      BY <3>2, Zenon DEF Updated
    <3> QED BY <3>1, <3>2, Zenon
  <2>2. /\ Carries(inq'[x], y, x) <=> Carries(inq[x], y, x)
        /\ EndsInRequest(inq[x], y, x) => EndsInRequest(inq'[x], y, x)
    <3>1. CASE x = b
      <4>1. inq'[x] = Append(inq[x], e)
        BY <3>1, Zenon DEF Updated
      <4>2. Lengthened(inq[x], e, y, x)
        BY <1>0, <3>1, Lengthening, Zenon
      <4> QED BY <2>0, <4>1, <4>2, Zenon DEF Lengthened
    <3>2. CASE x # b
      BY <3>2, Zenon DEF Updated
    <3> QED BY <3>1, <3>2, Zenon
  <2> QED BY <2>1, <2>2, Zenon
<1>2. /\ link'[a] = Tail(link[a]) /\ inq'[b] = Append(inq[b], e)
  BY Zenon DEF Updated
<1>3. Carries(inq'[b], a, b)
  BY <1>0, <1>2, Lengthening, Zenon DEF Lengthened
<1>4. Carries(link[a], a, b)
  BY <1>0, Shortening, Zenon DEF Shortened
<1>5. EndsInRequest(link[a], a, b) =>
        \/ EndsInRequest(link'[a], a, b)
        \/ ~Carries(link'[a], a, b) /\ EndsInRequest(inq'[b], a, b)
  <2>1. Shortened(link[a], a, b) /\ Lengthened(inq[b], e, a, b)
    BY <1>0, Shortening, Lengthening, Zenon
  <2> QED BY <1>2, <2>1, Zenon DEF Shortened, Lengthened
<1>6. ASSUME NEW x \in Agent, NEW y \in Agent
      PROVE  Underway(y, x)' <=> Underway(y, x)
  <2>1. CASE y = a /\ x = b
    BY <1>3, <1>4, <2>1, Zenon DEF Underway
  <2>2. CASE ~(y = a /\ x = b)
    BY <1>1, <2>2, Zenon DEF Underway
  <2> QED BY <2>1, <2>2, Zenon
<1>7. ASSUME NEW x \in Agent, NEW y \in Agent, RequestLast(y, x)
      PROVE  RequestLast(y, x)'
  <2>1. CASE y = a /\ x = b
    BY <1>4, <1>5, <1>7, <2>1, Zenon DEF RequestLast
  <2>2. CASE ~(y = a /\ x = b)
    BY <1>1, <1>7, <2>2, Zenon DEF RequestLast
  <2> QED BY <2>1, <2>2, Zenon
<1> QED BY <1>6, <1>7, Zenon DEF Agreed

LEMMA OpensSteps ==
  ASSUME NEW S, NEW s \in Seq(S), Opens(s)
  PROVE  /\ \A e \in S : e.type \in {"request", "response"} => Opens(Append(s, e))
         /\ s # <<>> => Opens(Tail(s)) /\ Head(s).type \in {"request", "response"}
<1>1. ASSUME NEW e \in S, e.type \in {"request", "response"}
      PROVE  Opens(Append(s, e))
  BY <1>1 DEF Opens
<1>2. ASSUME s # <<>>
      PROVE  Opens(Tail(s)) /\ Head(s).type \in {"request", "response"}
  BY <1>2 DEF Opens
<1> QED BY <1>1, <1>2, Zenon

(* The human at a asks for a connection or approves one.                   *)
LEMMA SentOpen ==
  ASSUME StoreInv, NetInv, Shape, NEW a \in Agent, NEW b \in Agent,
         SendRequest(a, b) \/ ApproveRequest(a, b),
         OnlyOpening, \A x, y \in Agent : Agreed(x, y)
  PROVE  OnlyOpening' /\ \A x, y \in Agent : Agreed(x, y)'
<1>1. /\ a # b /\ inq' = inq /\ blocks' = blocks
      /\ consent' = consent \cup {<<a, b>>}
  BY Zenon DEF SendRequest, ApproveRequest, Human, Consents
<1>2. PICK t \in {"request", "response"}, st \in {"pending_outbound", "active"} :
        /\ Sends(a, b, t) /\ Writes(a, b, st)
        /\ t = "response" => <<b, a>> \in consent
        /\ t = "request" \/ st = "active"
  <2>1. CASE SendRequest(a, b)
    BY <2>1, Zenon DEF SendRequest, Send, Sends, Sets, Env, SetState, Writes,
      Justified, State
  <2>2. CASE ApproveRequest(a, b)
    <3>1. <<b, a>> \in consent
      BY <2>2, Zenon DEF ApproveRequest, StoreInv, Good
    <3> QED BY <2>2, <3>1, Zenon DEF ApproveRequest, Send, Sends, Sets, Env,
      SetState, Writes, Justified, State, Consents
  <2> QED BY <2>1, <2>2, Zenon
<1> DEFINE e == Env(a, b, t)
<1>3. e \in Outgoing(a, consent') /\ e.type = t /\ Matches(e, a, b)
  <2>1. /\ t \in {"request", "response", "revoke", "block", "unblock"}
        /\ <<a, b>> \in consent' /\ (t = "response" => <<b, a>> \in consent')
    BY <1>1, <1>2, Zenon
  <2> HIDE DEF e
  <2>2. /\ e \in Outgoing(a, consent') /\ e.type = t
        /\ e.from = a /\ e.to = b
    BY <2>1, EnvFacts, SMT DEF e
  <2> QED BY <2>2, Zenon DEF Matches
<1>4. Updated(link', link, a, Append(link[a], e))
  BY <1>2, MapUpdate, Maps, Zenon DEF Sends
<1>5. WrittenAt(a, b, st)
  BY <1>2, WritesAt, Zenon
<1>6. consent \subseteq consent'
  BY <1>1, Zenon
<1> HIDE DEF e
<1>7. \A x, y \in Agent : Agreed(x, y)'
  BY <1>1, <1>2, <1>3, <1>4, <1>5, <1>6, SentAgreed, Zenon
<1>8. link[a] \in Seq(Outgoing(a, consent')) /\ Opens(link[a])
  BY <1>6, NetGrows, Zenon DEF OnlyOpening
<1>9. Opens(Append(link[a], e))
  BY <1>2, <1>3, <1>8, OpensSteps, Zenon
<1> QED BY <1>1, <1>4, <1>7, <1>9, Zenon DEF OnlyOpening, Updated

(* a's process handles an envelope.                                        *)
LEMMA DeliveredOpen ==
  ASSUME StoreInv, NetInv, Shape, KnownInv, restarts = 0, NEW a \in Agent,
         Deliver(a), OnlyOpening, \A x, y \in Agent : Agreed(x, y)
  PROVE  OnlyOpening' /\ \A x, y \in Agent : Agreed(x, y)'
<1> DEFINE m == Head(inq[a])
           b == m.from
<1>1. /\ inq[a] # <<>> /\ m \in Incoming(a, consent) /\ b \in Agent
      /\ link' = link
  BY DeliverSteps, Zenon
<1>2. inq[a] \in Seq(Incoming(a, consent)) /\ Opens(inq[a])
  BY Zenon DEF NetInv, OnlyOpening
<1>3. m.type \in {"request", "response"} /\ Opens(Tail(inq[a]))
  BY <1>1, <1>2, OpensSteps, Zenon
<1>4. m.type # "revoke"
  BY <1>3
<1>5. PICK st \in {"active", "pending_inbound"} :
        /\ Writes(a, b, st)
        /\ m.type = "request" => st = "pending_inbound"
  <2>1. PICK st \in State \ {"none"} :
          /\ Writes(a, b, st)
          /\ m.type = "request" => st = "pending_inbound"
          /\ m.type = "response" => st = "active"
    BY <1>4, DeliverSteps, Zenon
  <2> QED BY <1>3, <2>1, Zenon
<1>6. WrittenAt(a, b, st)
  BY <1>1, <1>5, WritesAt, Zenon
<1>7. Sets(inq', inq, a, Tail(inq[a])) /\ blocks' = blocks
  BY Zenon DEF Deliver, Sets
<1>8. Updated(inq', inq, a, Tail(inq[a]))
  BY <1>7, MapUpdate, Maps, Zenon
<1>9. Matches(m, b, a)
  BY <1>1, Zenon DEF Incoming, Matches
<1>10. \A x, y \in Agent : Agreed(x, y)'
  BY <1>1, <1>5, <1>6, <1>8, <1>9, DeliveredAgreed, Zenon
<1> QED BY <1>1, <1>3, <1>7, <1>8, <1>10, Zenon DEF OnlyOpening, Updated

(* The relay reads an envelope of a from its socket.                       *)
LEMMA RelayedOpen ==
  ASSUME StoreInv, NetInv, Shape, NEW a \in Agent, Relay(a), OnlyOpening,
         \A x, y \in Agent : Agreed(x, y)
  PROVE  OnlyOpening' /\ \A x, y \in Agent : Agreed(x, y)'
<1> DEFINE m == Head(link[a])
           b == m.to
<1>1. /\ link[a] # <<>> /\ m \in Outgoing(a, consent) /\ b \in Agent
      /\ Updated(link', link, a, Tail(link[a]))
  BY RelaySteps, Zenon
<1>2. link[a] \in Seq(Outgoing(a, consent)) /\ Opens(link[a])
  BY Zenon DEF NetInv, OnlyOpening
<1>3. m.type \in {"request", "response"} /\ Opens(Tail(link[a]))
  BY <1>1, <1>2, OpensSteps, Zenon
<1>4. m.type \notin {"block", "unblock"} /\ blocks = {}
  BY <1>3 DEF OnlyOpening
<1>5. Updated(inq', inq, b, Append(inq[b], m)) /\ Keeps /\ blocks' = blocks
  BY <1>4, RelaySteps, Zenon
<1>6. m \in Incoming(b, consent) /\ Matches(m, a, b)
  BY <1>1, <1>4, Zenon DEF Outgoing, Incoming, Matches
<1>7. inq[b] \in Seq(Incoming(b, consent)) /\ Opens(inq[b])
  BY <1>1, Zenon DEF NetInv, OnlyOpening
<1>8. Opens(Append(inq[b], m))
  BY <1>3, <1>6, <1>7, OpensSteps, Zenon
<1> HIDE DEF m
<1>9. conns' = conns /\ m = Head(link[a])
  BY <1>5, Zenon DEF Keeps, m
<1>10. \A x, y \in Agent : Agreed(x, y)'
  BY <1>1, <1>5, <1>6, <1>9, RelayedAgreed, Zenon
<1> QED BY <1>1, <1>3, <1>5, <1>8, <1>10, Zenon DEF OnlyOpening, Updated

LEMMA NextOpen ==
  ASSUME StoreInv, NetInv, Shape, KnownInv, OpenInv, [Next]_vars
  PROVE  OpenInv'
<1> SUFFICES ASSUME Opening'
             PROVE  OnlyOpening' /\ \A x, y \in Agent : Agreed(x, y)'
  BY Zenon DEF OpenInv
<1>1. /\ Opening
      /\ \/ \E x, y \in Agent : SendRequest(x, y) \/ ApproveRequest(x, y)
         \/ \E x \in Agent : Deliver(x) \/ Relay(x)
         \/ conns' = conns /\ link' = link /\ inq' = inq /\ blocks' = blocks
  BY OpeningSteps, Zenon
<1>2. restarts = 0 /\ OnlyOpening /\ \A x, y \in Agent : Agreed(x, y)
  BY <1>1, Zenon DEF OpenInv, Opening
<1>3. ASSUME conns' = conns, link' = link, inq' = inq, blocks' = blocks
      PROVE  OnlyOpening' /\ \A x, y \in Agent : Agreed(x, y)'
  <2>1. OnlyOpening'
    BY <1>2, <1>3, Zenon DEF OnlyOpening
  <2>2. \A x, y \in Agent : Agreed(x, y)' <=> Agreed(x, y)
    BY <1>3, Zenon DEF Agreed, Underway, RequestLast
  <2> QED BY <1>2, <2>1, <2>2, Zenon
<1> QED BY <1>1, <1>2, <1>3, SentOpen, DeliveredOpen, RelayedOpen, Zenon

-----------------------------------------------------------------------------
(* Theorems                                                                *)

IInv == StoreInv /\ NetInv /\ Shape /\ KnownInv /\ OpenInv

LEMMA InitInv ==
  ASSUME Init
  PROVE  IInv
<1>1. \A x \in Agent : /\ conns[x] = EmptyStore /\ disk[x] = EmptyStore
                       /\ snaps[x] = <<>> /\ link[x] = <<>> /\ inq[x] = <<>>
                       /\ up[x]
  BY Zenon DEF Init
<1>2. StoreInv
  <2>1. \A S : <<>> \in Seq(S)
    OBVIOUS
  <2> QED BY <1>1, <2>1, EmptyGood, Zenon DEF StoreInv
<1>3. NetInv
  <2>1. \A S : <<>> \in Seq(S)
    OBVIOUS
  <2> QED BY <1>1, <2>1, Zenon DEF NetInv
<1>4. Shape
  BY DEF Init, Shape, IsMap
<1>5. KnownInv
  BY <1>1, Zenon DEF Init, KnownInv
<1>6. OpenInv
  <2>1. Opens(<<>>) /\ \A x, y \in Agent : ~Carries(<<>>, x, y)
    BY DEF Opens, Carries
  <2>2. OnlyOpening
    BY <1>1, <2>1, Zenon DEF Init, OnlyOpening
  <2>3. \A x, y \in Agent : ~Underway(x, y)
    BY <1>1, <2>1, Zenon DEF Underway
  <2>4. \A x, y \in Agent : conns[x][y] # "active"
    BY <1>1 DEF EmptyStore
  <2> QED BY <2>2, <2>3, <2>4, Zenon DEF OpenInv, Agreed
<1> QED BY <1>2, <1>3, <1>4, <1>5, <1>6, Zenon DEF IInv

LEMMA NextInv ==
  ASSUME IInv, [Next]_vars
  PROVE  IInv'
BY NextStore, NextNet, NextShape, NextKnown, NextOpen, Zenon DEF IInv

LEMMA Inductive == Spec => []IInv
BY InitInv, NextInv, PTL DEF Spec

(* Every variable of the agents and of the relay has its type.             *)
THEOREM ConnectionTypes == Spec => []TypeOK
<1>1. ASSUME IInv
      PROVE  TypeOK
  <2>1. \A x \in Agent : /\ conns[x] \in Store /\ disk[x] \in Store
                         /\ snaps[x] \in Seq(Store)
    <3>1. \A x, c, u : Good(x, c, u) \subseteq Store
      BY Zenon DEF Good
    <3> QED BY <1>1, <3>1, SeqGrows, Zenon DEF IInv, StoreInv
  <2>2. \A x \in Agent : link[x] \in Seq(Envelope) /\ inq[x] \in Seq(Envelope)
    <3>1. \A x, c : Outgoing(x, c) \subseteq Envelope /\ Incoming(x, c) \subseteq Envelope
      BY Zenon DEF Outgoing, Incoming, Fit
    <3> QED BY <1>1, <3>1, SeqGrows, Zenon DEF IInv, NetInv
  <2>3. /\ conns \in [Agent -> Store] /\ disk \in [Agent -> Store]
        /\ snaps \in [Agent -> Seq(Store)]
    BY <1>1, <2>1 DEF IInv, Shape, IsMap
  <2>4. link \in [Agent -> Seq(Envelope)] /\ inq \in [Agent -> Seq(Envelope)]
    BY <1>1, <2>2 DEF IInv, Shape, IsMap
  <2> QED BY <1>1, <2>3, <2>4, Zenon DEF IInv, Shape, TypeOK
<1> QED BY <1>1, Inductive, PTL

(* However operations, deliveries, faults, saves and restarts interleave,  *)
(* no ConnectionStore holds an active connection that both humans have not *)
(* consented to, unless unblockConnection made it active.                  *)
THEOREM ConsentIsBehindActive == Spec => []ConsentBehindActive
<1>1. ASSUME IInv
      PROVE  ConsentBehindActive
  BY <1>1, Zenon DEF IInv, StoreInv, Good, ConsentBehindActive
<1> QED BY <1>1, Inductive, PTL

(* Until a process has ended, handleIncomingResponse finds the record of   *)
(* the request that is answered and does not throw.                        *)
THEOREM ResponseHasRecord == Spec => []ResponseFindsRecord
<1>1. ASSUME IInv, restarts = 0, NEW x \in Agent
      PROVE  /\ up[x]
             /\ \A i \in DOMAIN inq[x] :
                  inq[x][i].type = "response" => Known(x, inq[x][i].from)
  <2>1. up[x] /\ \A y \in Agent : <<x, y>> \in consent => Known(x, y)
    BY <1>1, Zenon DEF IInv, KnownInv
  <2>2. ASSUME NEW i \in DOMAIN inq[x], inq[x][i].type = "response"
        PROVE  Known(x, inq[x][i].from)
    <3> DEFINE m == inq[x][i]
    <3>1. inq[x] \in Seq(Incoming(x, consent))
      BY <1>1, Zenon DEF IInv, NetInv
    <3>2. m \in Incoming(x, consent)
      BY <3>1
    <3>3. m.from \in Agent
      BY <3>2 DEF Incoming, Fit, Envelope
    <3>4. <<x, m.from>> \in consent
      BY <2>2, <3>2, Zenon DEF Incoming, Fit
    <3> QED BY <2>1, <3>3, <3>4, Zenon
  <2> QED BY <2>1, <2>2, Zenon
<1>2. ASSUME IInv
      PROVE  ResponseFindsRecord
  BY <1>1, <1>2, Zenon DEF ResponseFindsRecord
<1> QED BY <1>2, Inductive, PTL

(* Requests and approvals in any order, crossing and repeated, end in      *)
(* agreement: when nothing is in transit, the peer of an active connection *)
(* is active or has a request to approve.                                  *)
THEOREM OpeningAgrees == Spec => []OpenAgreement
<1>1. ASSUME OpenInv, Opening, Quiet, NEW x \in Agent, NEW y \in Agent,
             conns[x][y] = "active"
      PROVE  conns[y][x] \in {"active", "pending_inbound"}
  <2>1. \A u, v \in Agent : ~Carries(<<>>, u, v) /\ ~EndsInRequest(<<>>, u, v)
    BY DEF Carries, EndsInRequest
  <2>2. \A u, v \in Agent : ~Underway(u, v) /\ ~RequestLast(u, v)
    BY <1>1, <2>1, Zenon DEF Quiet, Underway, RequestLast
  <2> QED BY <1>1, <2>2, Zenon DEF OpenInv, Agreed
<1>2. ASSUME IInv
      PROVE  OpenAgreement
  BY <1>1, <1>2, Zenon DEF IInv, OpenAgreement, Opening
<1> QED BY <1>2, Inductive, PTL
=============================================================================
