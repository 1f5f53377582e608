---------------------------- MODULE SkillProofs -----------------------------
(***************************************************************************)
(* What tools that share an agent's files can rely on, for any number of   *)
(* tool runs, kills and changes of the clock: a change that was saved      *)
(* stays unless saves overlap, no passthrough flag is stuck, the identity  *)
(* is one, the audit chain verifies, and a change to it is reported.       *)
(***************************************************************************)
EXTENDS SkillProcesses, TLAPS

USE DEF procVars, fileVars, pastVars

-----------------------------------------------------------------------------
(* Inductive invariants                                                    *)

Writing == {"clearing", "saving"}
Busy    == {"clear", "login", "act", "save"} \cup Writing
Late    == {"record", "select", "insert", "exit", "end"}
Place   == {"off", "saveKeypair", "load"} \cup Busy \cup Late

Store == [known : BOOLEAN, changes : SUBSET Tool, passthrough : SUBSET Tool]

IsMap(f) == f = [t \in Tool |-> f[t]]

Shape ==
  /\ pc \in [Tool -> Place] /\ kind \in [Tool -> Kind]
  /\ store \in [Tool -> Store] /\ after \in [Tool -> SUBSET Tool]
  /\ keyOf \in [Tool -> SUBSET Tool] /\ IsMap(entry)
  /\ file \in [ok : BOOLEAN, store : Store] /\ mixed \subseteq Tool
  /\ keyfile \in [ok : BOOLEAN, key : SUBSET Tool]
  /\ saved \subseteq Tool

(* As long as no two runs generated a keypair side by side, there is none  *)
(* before the file is written, and the one in the file from then on.       *)
KeyInv ==
  ~keyRaced =>
    /\ \A t, u \in Tool : At(t, "saveKeypair") /\ At(u, "saveKeypair") => t = u
    /\ \A t \in Tool :
         IF keyfile.ok THEN /\ ~At(t, "saveKeypair")
                            /\ keyOf[t] = {} \/ keyOf[t] = keyfile.key
         ELSE keyOf[t] = {}

(* A store holds no passthrough flag but the one its own run has set, and  *)
(* a run that has saved writes no more.                                    *)
FlagInv ==
  /\ \A t \in Tool :
       /\ store[t].passthrough \subseteq {t}
       /\ store[t].passthrough # {} => pc[t] \in {"save", "saving"} \cup Late
       /\ after[t] \subseteq saved
  /\ \A t \in saved : pc[t] \in Late
  /\ PassthroughCleared

Kept == {t \in saved : kind[t] # "intervene"}

(* As long as nothing was disturbed, one run at most is between its load   *)
(* and its last write, and it has all that was saved.                      *)
SaveInv ==
  /\ \A t \in Tool :
       pc[t] \in {"save", "saving"} /\ kind[t] # "intervene" => t \in store[t].changes
  /\ ~disturbed =>
       /\ mixed = {}
       /\ \A t, u \in Tool : pc[t] \in Busy /\ pc[u] \in Busy => t = u
       /\ \A t \in Tool : pc[t] \in Busy => Kept \subseteq store[t].changes
       /\ IF file.ok THEN Kept \subseteq file.store.changes
          ELSE \E t \in Tool : pc[t] \in Writing

IsRow(e) ==
  /\ e = [id |-> e.id, at |-> e.at, what |-> e.what, prev |-> e.prev,
          hash |-> e.hash]
  /\ e.id \in Nat /\ e.at \in Nat

IsDraft(e) == IsRow(e) /\ e.what # {}
IsEntry(e) == IsDraft(e) /\ e.hash = Hash(e)

(* Every row was hashed by record() or is older than the chain, and has an *)
(* id of its own.                                                          *)
IsTable(rows) ==
  /\ \A e \in rows : e = Legacy \/ IsEntry(e)
  /\ \A d, e \in rows : d.id = e.id => d = e

Recording == {"select", "insert"}

(* A run that records has a row to insert, with an id that no other has.   *)
Holds(t, e) ==
  \/ At(t, "select") /\ IsDraft(e)
  \/ At(t, "insert") /\ IsEntry(e)

Row(t) == entry[t] = {} \/ \E e \in entry[t] : entry[t] = {e} /\ Holds(t, e)

FreshIds ==
  \A t \in Tool : \A e \in entry[t] :
    /\ \A d \in log : d.id # e.id
    /\ \A u \in Tool : u # t => \A d \in entry[u] : d.id # e.id

RowInv == clock \in Nat /\ IsTable(log) /\ (\A t \in Tool : Row(t)) /\ FreshIds

(* A table to which a row can be added: there is a newest row, the hashed  *)
(* ones are the later ones, and they verify.                               *)
Chainable(rows) ==
  /\ rows # {} => Last(rows) # {}
  /\ \A e \in Chained(rows), d \in rows \ Chained(rows) : Before(d, e)
  /\ Verify(rows)

(* As long as nobody recorded at the same time and the clock went on, the  *)
(* entry that is about to be inserted is newer than every row and linked   *)
(* to the newest.                                                          *)
ChainInv ==
  ~forked /\ ~setBack =>
    /\ \A t, u \in Tool : pc[t] \in Recording /\ pc[u] \in Recording => t = u
    /\ \A e \in log : e.at <= clock
    /\ \A t \in Tool : \A e \in entry[t] :
         /\ e.at <= clock /\ \A d \in log : d.at < e.at
         /\ At(t, "insert") => e.prev = LastHash(log)
    /\ Chainable(log)

IInv == Shape /\ KeyInv /\ FlagInv /\ SaveInv /\ RowInv /\ ChainInv /\ IsFiniteSet(log)

-----------------------------------------------------------------------------
(* Where the runs are                                                      *)

(* Run t goes to l, and the others stay.                                   *)
Goes(t, l) ==
  /\ pc' \in [Tool -> Place] /\ pc'[t] = l
  /\ \A u \in Tool : u # t => pc'[u] = pc[u]

LEMMA GotoGoes ==
  ASSUME Shape, NEW t \in Tool, NEW l \in Place, Goto(t, l)
  PROVE  Goes(t, l)
BY Zenon DEF Shape, Goto, Goes

(* A run that ends has no store, no entry and no past.                     *)
Ended(t) ==
  /\ Goes(t, "end")
  /\ store' \in [Tool -> Store] /\ store'[t] = Empty
  /\ after' \in [Tool -> SUBSET Tool] /\ after'[t] = {}
  /\ IsMap(entry') /\ entry'[t] = {}
  /\ \A u \in Tool : u # t =>
       store'[u] = store[u] /\ after'[u] = after[u] /\ entry'[u] = entry[u]

LEMMA EmptyStore == Empty \in Store
BY Zenon DEF Empty, Store

LEMMA EndEnds ==
  ASSUME Shape, NEW t \in Tool, End(t)
  PROVE  Ended(t)
<1>1. Goes(t, "end")
  BY GotoGoes, Zenon DEF End, Place, Late
<1>2. /\ store' \in [Tool -> Store] /\ store'[t] = Empty
      /\ after' \in [Tool -> SUBSET Tool] /\ after'[t] = {}
      /\ \A u \in Tool : u # t => store'[u] = store[u] /\ after'[u] = after[u]
  BY EmptyStore, Zenon DEF End, Shape
<1>3. /\ IsMap(entry') /\ entry'[t] = {}
      /\ \A u \in Tool : u # t => entry'[u] = entry[u]
  BY Zenon DEF End, Shape, IsMap
<1> QED
  BY <1>1, <1>2, <1>3, Zenon DEF Ended

(* A change of one store.                                                  *)
Stores(t, s) ==
  /\ store' \in [Tool -> Store] /\ store'[t] = s
  /\ \A u \in Tool : u # t => store'[u] = store[u]

LEMMA StoreSet ==
  ASSUME Shape, NEW t \in Tool, NEW s \in Store, store' = [store EXCEPT ![t] = s]
  PROVE  Stores(t, s)
BY Zenon DEF Shape, Stores

-----------------------------------------------------------------------------
(* The steps, by what they do                                              *)

ToolStep(t) ==
  \/ LoadKeypair(t) \/ SaveKeypair(t) \/ Load(t) \/ SaveBegin(t) \/ SaveEnd(t)
  \/ Login(t) \/ Mute(t) \/ Intervene(t) \/ EditPermissions(t) \/ GivesUp(t)
  \/ RecordStart(t) \/ RecordSelect(t) \/ RecordInsert(t)
  \/ Shutdown(t) \/ Kill(t)

LEMMA NextIsToolStep == Next <=> \E t \in Tool : ToolStep(t)
BY Zenon DEF Next, ToolStep

keyVars   == <<keyOf, keyfile, keyRaced>>
feedVars  == <<log, entry, forked, setBack>>
storeVars == <<kind, store, file, mixed, saved, after, disturbed>>

(* The run ends without a change, at a place a run can be at.              *)
Leaves(t) ==
  /\ pc[t] \notin {"off", "end"} /\ Ended(t)
  /\ mixed' \subseteq mixed
  /\ (disturbed \/ pc[t] \in Writing) => disturbed'
  /\ disturbed => disturbed'
  /\ UNCHANGED <<keyVars, kind, file, log, forked, setBack, clock, saved>>

(* The run goes on and touches nothing.                                    *)
Passes(t, l) ==
  /\ Goes(t, l)
  /\ UNCHANGED <<keyVars, feedVars, storeVars, clock>>

LEMMA LoginDoes ==
  ASSUME Shape, NEW t \in Tool, Login(t)
  PROVE  At(t, "login") /\ (Passes(t, "act") \/ Leaves(t))
<1>1. "act" \in Place
  BY Zenon DEF Place, Busy
<1>2. CASE Goto(t, "act") /\ UNCHANGED <<store, entry, after>>
  BY <1>1, <1>2, GotoGoes, Zenon
  DEF Login, Passes, keyVars, feedVars, storeVars
<1>3. CASE End(t)
  <2>1. Ended(t)
    BY <1>3, EndEnds, Zenon
  <2>2. /\ pc[t] = "login"
        /\ UNCHANGED <<keyVars, kind, file, mixed, log, forked, setBack, clock, saved,
                       disturbed>>
    BY Zenon DEF Login, At, keyVars
  <2>3. pc[t] \notin {"off", "end"} /\ pc[t] \notin Writing
    BY <2>2, Zenon DEF Writing
  <2> QED
    BY <2>1, <2>2, <2>3, Zenon DEF Leaves, At
<1> QED
  BY <1>2, <1>3, Zenon DEF Login

LEMMA ShutdownDoes ==
  ASSUME Shape, NEW t \in Tool, Shutdown(t)
  PROVE  Leaves(t)
<1>1. Ended(t)
  BY EndEnds, Zenon DEF Shutdown
<1>2. /\ pc[t] = "exit"
      /\ UNCHANGED <<keyVars, kind, file, mixed, log, forked, setBack, clock, saved,
                     disturbed>>
  BY Zenon DEF Shutdown, At, keyVars
<1>3. pc[t] \notin {"off", "end"} /\ pc[t] \notin Writing
  BY <1>2, Zenon DEF Writing
<1> QED
  BY <1>1, <1>2, <1>3, Zenon DEF Leaves

LEMMA KillDoes ==
  ASSUME Shape, NEW t \in Tool, Kill(t)
  PROVE  Leaves(t)
<1>1. Ended(t)
  BY EndEnds, Zenon DEF Kill
<1>2. /\ pc[t] \notin {"off", "end"}
      /\ UNCHANGED <<keyVars, kind, file, log, forked, setBack, clock, saved>>
  BY Zenon DEF Kill, keyVars
<1>3. mixed' \subseteq mixed
  BY Zenon DEF Kill
<1>4. (disturbed \/ pc[t] \in Writing) => disturbed'
  BY Zenon DEF Kill, Writing
<1> QED
  BY <1>1, <1>2, <1>3, <1>4, Zenon DEF Leaves

LEMMA GivesUpDoes ==
  ASSUME Shape, NEW t \in Tool, GivesUp(t)
  PROVE  At(t, "act") /\ Passes(t, "exit")
<1>1. "exit" \in Place
  BY Zenon DEF Place, Late
<1> QED
  BY <1>1, GotoGoes, Zenon DEF GivesUp, Passes, keyVars, feedVars, storeVars

(* A change in memory.                                                     *)
Changed(t, s) ==
  /\ At(t, "act") /\ Goes(t, "save") /\ Stores(t, s)
  /\ UNCHANGED <<keyVars, feedVars, kind, file, mixed, saved, after, disturbed, clock>>

LEMMA ChangesDoes ==
  ASSUME Shape, NEW t \in Tool, NEW s \in Store, Changes(t, s)
  PROVE  Changed(t, s)
<1>1. "save" \in Place
  BY Zenon DEF Place, Busy
<1> QED
  BY <1>1, GotoGoes, StoreSet, Zenon DEF Changes, Changed, keyVars, feedVars

(* A change that Kept looks at, and one that it does not.                  *)
LEMMA EditDoes ==
  ASSUME Shape, NEW t \in Tool, Mute(t) \/ EditPermissions(t)
  PROVE  /\ kind[t] # "intervene"
         /\ \E s \in Store : /\ Changed(t, s) /\ s.passthrough = store[t].passthrough
                             /\ s.changes = store[t].changes \cup {t}
<1> DEFINE s == [store[t] EXCEPT !.changes = @ \cup {t}]
<1>1. store[t] \in Store
  BY Zenon DEF Shape
<1>2. /\ s \in Store /\ s.passthrough = store[t].passthrough
      /\ s.changes = store[t].changes \cup {t}
  BY <1>1, Zenon DEF Store
<1>3. kind[t] # "intervene" /\ Changes(t, s)
  BY Zenon DEF Mute, EditPermissions
<1> HIDE DEF s
<1> QED
  BY <1>2, <1>3, ChangesDoes, Zenon

LEMMA InterveneDoes ==
  ASSUME Shape, NEW t \in Tool, Intervene(t)
  PROVE  /\ kind[t] = "intervene"
         /\ \E s \in Store : /\ Changed(t, s) /\ s.passthrough = {t}
                             /\ s.changes = store[t].changes
<1> DEFINE s == [store[t] EXCEPT !.passthrough = {t}]
<1>1. store[t] \in Store
  BY Zenon DEF Shape
<1>2. /\ s \in Store /\ s.passthrough = {t} /\ s.changes = store[t].changes
  BY <1>1, Zenon DEF Store
<1>3. kind[t] = "intervene" /\ Changes(t, s)
  BY Zenon DEF Intervene
<1> HIDE DEF s
<1> QED
  BY <1>2, <1>3, ChangesDoes, Zenon

LEMMA LoadKeypairDoes ==
  ASSUME Shape, NEW t \in Tool, LoadKeypair(t)
  PROVE  /\ At(t, "off")
         /\ kind' \in [Tool -> Kind] /\ \A u \in Tool : u # t => kind'[u] = kind[u]
         /\ UNCHANGED <<feedVars, store, file, mixed, saved, after, disturbed, clock>>
         /\ \/ /\ keyfile.ok /\ Goes(t, "load") /\ keyOf' \in [Tool -> SUBSET Tool]
               /\ keyOf'[t] = keyfile.key
               /\ \A u \in Tool : u # t => keyOf'[u] = keyOf[u]
               /\ UNCHANGED <<keyfile, keyRaced>>
            \/ /\ ~keyfile.ok /\ Goes(t, "saveKeypair") /\ UNCHANGED keyOf
               /\ keyfile' = [ok |-> FALSE, key |-> {}]
               /\ (keyRaced \/ \E u \in Tool \ {t} : At(u, "saveKeypair")) => keyRaced'
<1>1. "load" \in Place /\ "saveKeypair" \in Place
  BY Zenon DEF Place
<1>2. kind' \in [Tool -> Kind] /\ \A u \in Tool : u # t => kind'[u] = kind[u]
  BY DEF LoadKeypair, Shape
<1>3. At(t, "off") /\ UNCHANGED <<feedVars, store, file, mixed, saved, after, disturbed, clock>>
  BY Zenon DEF LoadKeypair, feedVars
<1>4. CASE keyfile.ok
  <2>1. Goes(t, "load") /\ UNCHANGED <<keyfile, keyRaced>>
    BY <1>1, <1>4, GotoGoes, Zenon DEF LoadKeypair
  <2>2. /\ keyOf' \in [Tool -> SUBSET Tool] /\ keyOf'[t] = keyfile.key
        /\ \A u \in Tool : u # t => keyOf'[u] = keyOf[u]
    BY <1>4, Zenon DEF LoadKeypair, Shape
  <2> QED
    BY <1>2, <1>3, <1>4, <2>1, <2>2, Zenon
<1>5. CASE ~keyfile.ok
  <2>1. /\ Goes(t, "saveKeypair") /\ UNCHANGED keyOf
        /\ keyfile' = [ok |-> FALSE, key |-> {}]
        /\ keyRaced' = (keyRaced \/ Others(t, {"saveKeypair"}))
    BY <1>1, <1>5, GotoGoes, Zenon DEF LoadKeypair
  <2>2. (keyRaced \/ \E u \in Tool \ {t} : At(u, "saveKeypair")) => keyRaced'
    BY <2>1, Zenon DEF Others, At
  <2> QED
    BY <1>2, <1>3, <1>5, <2>1, <2>2, Zenon
<1> QED
  BY <1>4, <1>5, Zenon

LEMMA SaveKeypairDoes ==
  ASSUME Shape, NEW t \in Tool, SaveKeypair(t)
  PROVE  /\ At(t, "saveKeypair") /\ Goes(t, "load")
         /\ UNCHANGED <<feedVars, storeVars, clock, keyRaced>>
         /\ keyfile' = [ok |-> TRUE, key |-> {t}]
         /\ keyOf' \in [Tool -> SUBSET Tool] /\ keyOf'[t] = {t}
         /\ \A u \in Tool : u # t => keyOf'[u] = keyOf[u]
<1>1. "load" \in Place
  BY Zenon DEF Place
<1>2. /\ At(t, "saveKeypair") /\ Goes(t, "load")
      /\ UNCHANGED <<feedVars, storeVars, clock, keyRaced>>
      /\ keyfile' = [ok |-> TRUE, key |-> {t}]
  BY <1>1, GotoGoes, Zenon DEF SaveKeypair, feedVars, storeVars
<1>3. /\ keyOf' \in [Tool -> SUBSET Tool] /\ keyOf'[t] = {t}
      /\ \A u \in Tool : u # t => keyOf'[u] = keyOf[u]
  BY Zenon DEF SaveKeypair, Shape
<1> QED
  BY <1>2, <1>3, Zenon

LEMMA LoadDoes ==
  ASSUME Shape, NEW t \in Tool, Load(t)
  PROVE  /\ At(t, "load") /\ Goes(t, "clear")
         /\ UNCHANGED <<keyVars, feedVars, kind, file, mixed, saved, clock>>
         /\ \E s \in Store : /\ Stores(t, s) /\ s.passthrough = {}
                             /\ file.ok => s.changes = file.store.changes
         /\ after' \in [Tool -> SUBSET Tool] /\ after'[t] = saved
         /\ \A u \in Tool : u # t => after'[u] = after[u]
         /\ (disturbed \/ ~file.ok \/ \E u \in Tool \ {t} : pc[u] \in Busy) => disturbed'
<1>1. "clear" \in Place
  BY Zenon DEF Place, Busy
<1>2. /\ At(t, "load") /\ Goes(t, "clear")
      /\ UNCHANGED <<keyVars, feedVars, kind, file, mixed, saved, clock>>
  BY <1>1, GotoGoes, Zenon DEF Load, keyVars, feedVars
<1> DEFINE s == IF file.ok THEN [file.store EXCEPT !.passthrough = {}] ELSE Empty
<1>3. /\ s \in Store /\ s.passthrough = {}
      /\ file.ok => s.changes = file.store.changes
  BY Zenon DEF Shape, Store, Empty
<1>4. store' = [store EXCEPT ![t] = s]
  BY Zenon DEF Load
<1>5. \E r \in Store : /\ Stores(t, r) /\ r.passthrough = {}
                       /\ file.ok => r.changes = file.store.changes
  <2> HIDE DEF s
  <2> QED
    BY <1>3, <1>4, StoreSet, Zenon
<1>6. /\ after' \in [Tool -> SUBSET Tool] /\ after'[t] = saved
      /\ \A u \in Tool : u # t => after'[u] = after[u]
  BY Zenon DEF Load, Shape
<1>7. Busy = {"clear", "clearing", "login", "act", "save", "saving"}
  BY Zenon DEF Busy, Writing
<1>8. disturbed' = (disturbed \/ ~file.ok \/ Others(t, Busy))
  BY <1>7, Zenon DEF Load
<1>9. (disturbed \/ ~file.ok \/ \E u \in Tool \ {t} : pc[u] \in Busy) => disturbed'
  BY <1>8, Zenon DEF Others
<1> QED
  BY <1>2, <1>5, <1>6, <1>9, Zenon

LEMMA SaveBeginDoes ==
  ASSUME Shape, NEW t \in Tool, SaveBegin(t)
  PROVE  /\ \/ At(t, "clear") /\ Goes(t, "clearing")
            \/ At(t, "save") /\ Goes(t, "saving")
         /\ file' = [ok |-> FALSE, store |-> Empty]
         /\ UNCHANGED <<keyVars, feedVars, kind, store, mixed, saved, after, disturbed,
                        clock>>
<1>1. "clearing" \in Place /\ "saving" \in Place
  BY Zenon DEF Place, Busy, Writing
<1>2. /\ file' = [ok |-> FALSE, store |-> Empty]
      /\ UNCHANGED <<keyVars, feedVars, kind, store, mixed, saved, after, disturbed,
                     clock>>
  BY Zenon DEF SaveBegin, keyVars, feedVars
<1>3. \/ At(t, "clear") /\ Goto(t, "clearing")
      \/ At(t, "save") /\ Goto(t, "saving")
  BY Zenon DEF SaveBegin, At
<1> QED
  BY <1>1, <1>2, <1>3, GotoGoes, Zenon

LEMMA SaveEndDoes ==
  ASSUME Shape, NEW t \in Tool, SaveEnd(t)
  PROVE  /\ \/ At(t, "clearing") /\ Goes(t, "login") /\ saved' = saved
            \/ /\ At(t, "saving") /\ saved' = saved \cup {t}
               /\ Goes(t, "record") \/ Goes(t, "exit")
         /\ \/ file' = [ok |-> TRUE, store |-> store[t]]
            \/ t \in mixed /\ file' = [ok |-> FALSE, store |-> Empty]
         /\ mixed' = {u \in Tool \ {t} : u \in mixed \/ pc[u] \in Writing}
         /\ UNCHANGED <<keyVars, feedVars, kind, store, after, disturbed, clock>>
<1>1. "login" \in Place /\ "record" \in Place /\ "exit" \in Place
  BY Zenon DEF Place, Busy, Late
<1>2. UNCHANGED <<keyVars, feedVars, kind, store, after, disturbed, clock>>
  BY Zenon DEF SaveEnd, keyVars, feedVars
<1>3. /\ mixed' = {u \in Tool \ {t} : u \in mixed \/ pc[u] \in Writing}
      /\ \/ file' = [ok |-> TRUE, store |-> store[t]]
         \/ t \in mixed /\ file' = [ok |-> FALSE, store |-> Empty]
  BY Zenon DEF SaveEnd, Writing
<1>4. \/ At(t, "clearing") /\ Goto(t, "login") /\ saved' = saved
      \/ /\ At(t, "saving") /\ saved' = saved \cup {t}
         /\ Goto(t, "record") \/ Goto(t, "exit")
  BY Zenon DEF SaveEnd, At
<1> QED
  BY <1>1, <1>2, <1>3, <1>4, GotoGoes, Zenon

LEMMA RecordStartDoes ==
  ASSUME Shape, NEW t \in Tool, RecordStart(t)
  PROVE  /\ At(t, "record") /\ Goes(t, "select")
         /\ UNCHANGED <<keyVars, storeVars, log>>
         /\ IsMap(entry') /\ \A u \in Tool : u # t => entry'[u] = entry[u]
<1>1. "select" \in Place
  BY Zenon DEF Place, Late
<1>2. At(t, "record") /\ Goes(t, "select") /\ UNCHANGED <<keyVars, storeVars, log>>
  BY <1>1, GotoGoes, Zenon DEF RecordStart, keyVars, storeVars
<1>3. PICK x : entry' = [entry EXCEPT ![t] = x]
  BY Zenon DEF RecordStart
<1>4. IsMap(entry') /\ \A u \in Tool : u # t => entry'[u] = entry[u]
  BY <1>3, Zenon DEF Shape, IsMap
<1> QED
  BY <1>2, <1>4, Zenon

LEMMA RecordSelectDoes ==
  ASSUME Shape, NEW t \in Tool, RecordSelect(t)
  PROVE  /\ At(t, "select") /\ Goes(t, "insert")
         /\ UNCHANGED <<keyVars, storeVars, log, clock, forked, setBack>>
         /\ IsMap(entry') /\ \A u \in Tool : u # t => entry'[u] = entry[u]
<1>1. "insert" \in Place
  BY Zenon DEF Place, Late
<1>2. /\ At(t, "select") /\ Goes(t, "insert")
      /\ UNCHANGED <<keyVars, storeVars, log, clock, forked, setBack>>
  BY <1>1, GotoGoes, Zenon DEF RecordSelect, keyVars, storeVars
<1>3. PICK x : entry' = [entry EXCEPT ![t] = x]
  BY Zenon DEF RecordSelect
<1>4. IsMap(entry') /\ \A u \in Tool : u # t => entry'[u] = entry[u]
  BY <1>3, Zenon DEF Shape, IsMap
<1> QED
  BY <1>2, <1>4, Zenon

LEMMA RecordInsertDoes ==
  ASSUME Shape, NEW t \in Tool, RecordInsert(t)
  PROVE  /\ At(t, "insert") /\ Goes(t, "exit")
         /\ UNCHANGED <<keyVars, storeVars, clock, forked, setBack>>
         /\ log' = log \cup entry[t]
         /\ IsMap(entry') /\ entry'[t] = {}
         /\ \A u \in Tool : u # t => entry'[u] = entry[u]
<1>1. "exit" \in Place
  BY DEF Place, Late
<1>2. /\ At(t, "insert") /\ Goes(t, "exit") /\ log' = log \cup entry[t]
      /\ UNCHANGED <<keyVars, storeVars, clock, forked, setBack>>
  BY <1>1, GotoGoes, Zenon DEF RecordInsert, keyVars, storeVars
<1>3. IsMap(entry') /\ entry'[t] = {} /\ \A u \in Tool : u # t => entry'[u] = entry[u]
  BY Zenon DEF RecordInsert, Shape, IsMap
<1> QED
  BY <1>2, <1>3, Zenon

(* The cases of a step.                                                    *)
LEMMA Steps ==
  ASSUME Shape, NEW t \in Tool, ToolStep(t)
  PROVE  \/ LoadKeypair(t) \/ SaveKeypair(t) \/ Load(t) \/ SaveBegin(t) \/ SaveEnd(t)
         \/ Leaves(t)
         \/ At(t, "login") /\ Passes(t, "act")
         \/ At(t, "act") /\ Passes(t, "exit")
         \/ /\ kind[t] # "intervene"
            /\ \E s \in Store : /\ Changed(t, s) /\ s.passthrough = store[t].passthrough
                                /\ s.changes = store[t].changes \cup {t}
         \/ /\ kind[t] = "intervene"
            /\ \E s \in Store : /\ Changed(t, s) /\ s.passthrough = {t}
                                /\ s.changes = store[t].changes
         \/ RecordStart(t) \/ RecordSelect(t) \/ RecordInsert(t)
BY LoginDoes, ShutdownDoes, KillDoes, GivesUpDoes, EditDoes, InterveneDoes, Zenon
DEF ToolStep

-----------------------------------------------------------------------------
(* The shape                                                               *)

LEMMA InitShape ==
  ASSUME Init
  PROVE  Shape
BY EmptyStore, Zenon DEF Init, Shape, Place, Kind, Store, Empty, IsMap

LEMMA NextShape ==
  ASSUME Shape, NEW t \in Tool, ToolStep(t)
  PROVE  Shape'
<1> USE DEF keyVars, feedVars, storeVars
<1>1. CASE LoadKeypair(t)
  <2>1. [ok |-> FALSE, key |-> {}] \in [ok : BOOLEAN, key : SUBSET Tool]
    OBVIOUS
  <2> QED
    BY <1>1, <2>1, LoadKeypairDoes, Zenon DEF Shape, Goes
<1>2. CASE SaveKeypair(t)
  <2>1. [ok |-> TRUE, key |-> {t}] \in [ok : BOOLEAN, key : SUBSET Tool]
    OBVIOUS
  <2> QED
    BY <1>2, <2>1, SaveKeypairDoes, Zenon DEF Shape, Goes
<1>3. CASE Load(t)
  BY <1>3, LoadDoes, Zenon DEF Shape, Goes, Stores
<1>4. [ok |-> FALSE, store |-> Empty] \in [ok : BOOLEAN, store : Store]
  BY EmptyStore, Zenon
<1>5. CASE SaveBegin(t)
  BY <1>4, <1>5, SaveBeginDoes, Zenon DEF Shape, Goes
<1>6. CASE SaveEnd(t)
  <2>1. [ok |-> TRUE, store |-> store[t]] \in [ok : BOOLEAN, store : Store]
    BY Zenon DEF Shape
  <2>2. file' \in [ok : BOOLEAN, store : Store]
    BY <1>4, <1>6, <2>1, SaveEndDoes, Zenon
  <2>3. mixed' \subseteq Tool /\ saved' \subseteq Tool
    BY <1>6, SaveEndDoes, Zenon DEF Shape
  <2> QED
    BY <1>6, <2>2, <2>3, SaveEndDoes, Zenon DEF Shape, Goes
<1>7. ASSUME Leaves(t) PROVE Shape'
  <2>1. mixed' \subseteq Tool
    BY <1>7, Zenon DEF Leaves, Shape
  <2> QED
    BY <1>7, <2>1, Zenon DEF Shape, Leaves, Ended, Goes
<1>8. ASSUME NEW l, Passes(t, l) PROVE Shape'
  BY <1>8, Zenon DEF Shape, Passes, Goes
<1>9. ASSUME NEW s \in Store, Changed(t, s) PROVE Shape'
  BY <1>9, Zenon DEF Shape, Changed, Goes, Stores
<1>10. CASE RecordSelect(t)
  BY <1>10, RecordSelectDoes, Zenon DEF Shape, Goes
<1>11. CASE RecordInsert(t)
  BY <1>11, RecordInsertDoes, Zenon DEF Shape, Goes
<1>12. CASE RecordStart(t)
  BY <1>12, RecordStartDoes, Zenon DEF Shape, Goes
<1> QED
  BY <1>1, <1>2, <1>3, <1>5, <1>6, <1>7, <1>8, <1>9, <1>10, <1>11, <1>12, Steps,
     Zenon

-----------------------------------------------------------------------------
(* One identity                                                            *)

LEMMA InitKey ==
  ASSUME Init
  PROVE  KeyInv
BY Zenon DEF Init, KeyInv, At

LEMMA QuietKey ==
  ASSUME Shape, KeyInv, NEW t \in Tool, NEW l \in Place, l # "saveKeypair", Goes(t, l),
         UNCHANGED keyVars
  PROVE  KeyInv'
<1>1. \A u \in Tool : At(u, "saveKeypair")' => At(u, "saveKeypair")
  BY Zenon DEF Goes, At
<1> QED
  BY <1>1, Zenon DEF KeyInv, keyVars

LEMMA NextKey ==
  ASSUME Shape, KeyInv, NEW t \in Tool, ToolStep(t)
  PROVE  KeyInv'
<1>1. CASE LoadKeypair(t)
  <2>1. CASE keyfile.ok
    <3>1. /\ \A u \in Tool : At(u, "saveKeypair")' => At(u, "saveKeypair")
          /\ UNCHANGED <<keyfile, keyRaced>> /\ keyOf'[t] = keyfile.key
          /\ \A u \in Tool : u # t => keyOf'[u] = keyOf[u]
      BY <1>1, <2>1, LoadKeypairDoes, Zenon DEF At, Goes
    <3> QED
      BY <2>1, <3>1, Zenon DEF KeyInv
  <2>2. CASE ~keyfile.ok
    <3>1. /\ \A u \in Tool : u # t => (At(u, "saveKeypair")' <=> At(u, "saveKeypair"))
          /\ UNCHANGED keyOf /\ keyfile' = [ok |-> FALSE, key |-> {}]
          /\ (keyRaced \/ \E u \in Tool \ {t} : At(u, "saveKeypair")) => keyRaced'
      BY <1>1, <2>2, LoadKeypairDoes, Zenon DEF At, Goes
    <3>2. ~keyfile'.ok
      BY <3>1, Zenon
    <3> QED
      BY <2>2, <3>1, <3>2, Zenon DEF KeyInv
  <2> QED
    BY <2>1, <2>2, Zenon
<1>2. CASE SaveKeypair(t)
  <2>1. /\ \A u \in Tool : At(u, "saveKeypair")' => u # t /\ At(u, "saveKeypair")
        /\ At(t, "saveKeypair") /\ keyfile' = [ok |-> TRUE, key |-> {t}]
        /\ keyOf'[t] = {t} /\ \A u \in Tool : u # t => keyOf'[u] = keyOf[u]
        /\ keyRaced' = keyRaced
    BY <1>2, SaveKeypairDoes, Zenon DEF At, Goes
  <2>2. keyfile'.ok /\ keyfile'.key = {t}
    BY <2>1, Zenon
  <2> QED
    BY <2>1, <2>2, Zenon DEF KeyInv
<1>3. \A l \in {"clear", "clearing", "saving", "login", "record", "exit", "end", "act",
                "save", "select", "insert"} : l \in Place /\ l # "saveKeypair"
  BY Zenon DEF Place, Busy, Late, Writing
<1>4. (\E l \in {"clear", "clearing", "saving", "login", "record", "exit", "end", "act",
                 "save", "select", "insert"} : Goes(t, l) /\ UNCHANGED keyVars) => KeyInv'
  BY <1>3, QuietKey, Zenon
<1>5. CASE Load(t)
  BY <1>4, <1>5, LoadDoes, Zenon
<1>6. CASE SaveBegin(t)
  BY <1>4, <1>6, SaveBeginDoes, Zenon
<1>7. CASE SaveEnd(t)
  BY <1>4, <1>7, SaveEndDoes, Zenon
<1>8. CASE RecordSelect(t)
  BY <1>4, <1>8, RecordSelectDoes, Zenon
<1>9. CASE RecordInsert(t)
  BY <1>4, <1>9, RecordInsertDoes, Zenon
<1>10. CASE RecordStart(t)
  BY <1>4, <1>10, RecordStartDoes, Zenon
<1> QED
  BY <1>1, <1>2, <1>4, <1>5, <1>6, <1>7, <1>8, <1>9, <1>10, Steps, Zenon
  DEF Leaves, Ended, Passes, Changed

LEMMA KeyImplies ==
  ASSUME KeyInv
  PROVE  OneIdentity
BY Zenon DEF KeyInv, OneIdentity

-----------------------------------------------------------------------------
(* No stuck passthrough flag                                               *)

Flagged == {"save", "saving"} \cup Late
Past    == {"login", "act", "save", "record", "select", "insert", "exit"}

LEMMA InitFlag ==
  ASSUME Init
  PROVE  FlagInv
BY Zenon DEF Init, FlagInv, PassthroughCleared, Empty

(* A step that changes no store, no file and no past.                      *)
LEMMA QuietFlag ==
  ASSUME Shape, FlagInv, NEW t \in Tool, NEW l, Goes(t, l),
         UNCHANGED <<store, file, saved, after>>,
         pc[t] \in Flagged => l \in Flagged,
         pc[t] \in Late => l \in Late,
         l \in Past => pc[t] \in Past
  PROVE  FlagInv'
<1>1. \A u \in Tool : /\ pc[u] \in Flagged => pc'[u] \in Flagged
                      /\ pc[u] \in Late => pc'[u] \in Late
                      /\ pc'[u] \in Past => pc[u] \in Past
  BY Zenon DEF Goes
<1>2. saved \subseteq Tool
  BY Zenon DEF Shape
<1>3. PassthroughCleared'
  BY <1>1, Zenon DEF FlagInv, PassthroughCleared, Past
<1> QED
  BY <1>1, <1>2, <1>3, Zenon DEF FlagInv, Flagged

LEMMA NextFlag ==
  ASSUME Shape, FlagInv, NEW t \in Tool, ToolStep(t)
  PROVE  FlagInv'
<1>1. /\ {"off", "saveKeypair", "load", "clear", "clearing", "login", "act"}
           \cap Flagged = {}
      /\ {"off", "saveKeypair", "load", "clear", "clearing", "login", "act", "save", "saving"}
           \cap Late = {}
      /\ {"save", "saving", "record", "select", "insert", "exit", "end"} \subseteq Flagged
      /\ {"record", "select", "insert", "exit", "end"} \subseteq Late /\ Late \subseteq Flagged
      /\ {"load", "saveKeypair", "clear", "clearing", "saving", "end"} \cap Past = {}
      /\ {"login", "act", "save", "record", "select", "insert", "exit"} \subseteq Past
  BY Zenon DEF Flagged, Late, Past
<1>2. saved \subseteq Tool
  BY Zenon DEF Shape
<1>3. CASE LoadKeypair(t)
  <2>1. /\ pc[t] = "off" /\ (Goes(t, "load") \/ Goes(t, "saveKeypair"))
        /\ UNCHANGED <<store, file, saved, after>>
    BY <1>3, LoadKeypairDoes, Zenon DEF At
  <2> QED
    BY <1>1, <2>1, QuietFlag, Zenon
<1>4. CASE SaveKeypair(t)
  <2>1. /\ pc[t] = "saveKeypair" /\ Goes(t, "load") /\ UNCHANGED <<store, file, saved, after>>
    BY <1>4, SaveKeypairDoes, Zenon DEF At, storeVars
  <2> QED
    BY <1>1, <2>1, QuietFlag, Zenon
<1>5. CASE Load(t)
  <2>1. /\ pc[t] = "load" /\ Goes(t, "clear") /\ UNCHANGED <<file, saved>>
        /\ store'[t].passthrough = {} /\ after'[t] = saved
        /\ \A u \in Tool : u # t => store'[u] = store[u] /\ after'[u] = after[u]
    BY <1>5, LoadDoes, Zenon DEF At, Stores
  <2>2. t \notin saved /\ pc'[t] \notin Past
    BY <1>1, <2>1, Zenon DEF FlagInv, Goes
  <2>3. PassthroughCleared'
    BY <2>1, <2>2, Zenon DEF FlagInv, PassthroughCleared, Past, Goes
  <2>4. \A u \in saved' : pc'[u] \in Late
    BY <2>1, <2>2, <1>2, Zenon DEF FlagInv, Goes
  <2>5. ASSUME NEW u \in Tool
        PROVE  /\ store'[u].passthrough \subseteq {u}
               /\ store'[u].passthrough # {} => pc'[u] \in {"save", "saving"} \cup Late
               /\ after'[u] \subseteq saved'
    BY <2>1, Zenon DEF FlagInv, Goes
  <2> QED
    BY <2>3, <2>4, <2>5, Zenon DEF FlagInv
<1>6. CASE SaveBegin(t)
  <2>1. /\ \/ pc[t] = "clear" /\ Goes(t, "clearing")
           \/ pc[t] = "save" /\ Goes(t, "saving")
        /\ file' = [ok |-> FALSE, store |-> Empty] /\ UNCHANGED <<store, saved, after>>
    BY <1>6, SaveBeginDoes, Zenon DEF At
  <2>2. PassthroughCleared'
    BY <2>1, Zenon DEF PassthroughCleared
  <2>3. t \notin saved /\ (pc[t] \in Flagged => pc'[t] \in Flagged)
    BY <1>1, <2>1, Zenon DEF FlagInv, Goes
  <2>4. \A u \in Tool : /\ pc[u] \in Flagged => pc'[u] \in Flagged
                        /\ u \in saved => pc'[u] \in Late
    BY <2>1, <2>3, Zenon DEF FlagInv, Goes
  <2> QED
    BY <1>2, <2>1, <2>2, <2>4, Zenon DEF FlagInv, Flagged
<1>7. CASE SaveEnd(t)
  <2>1. /\ \/ pc[t] = "clearing" /\ Goes(t, "login") /\ saved' = saved
           \/ /\ pc[t] = "saving" /\ saved' = saved \cup {t}
              /\ Goes(t, "record") \/ Goes(t, "exit")
        /\ \/ file' = [ok |-> TRUE, store |-> store[t]]
           \/ file' = [ok |-> FALSE, store |-> Empty]
        /\ UNCHANGED <<store, after>>
    BY <1>7, SaveEndDoes, Zenon DEF At
  <2>2. t \notin saved
    BY <1>1, <2>1, Zenon DEF FlagInv
  <2>3. ASSUME NEW u \in Tool, file'.ok PROVE file'.store.passthrough \cap after'[u] = {}
    <3>1. file'.store = store[t]
      BY <2>1, <2>3
    <3> QED
      BY <2>1, <2>2, <3>1 DEF FlagInv
  <2>4. PassthroughCleared'
    BY <2>3, Zenon DEF PassthroughCleared
  <2>5. (pc[t] \in Flagged => pc'[t] \in Flagged) /\ (t \in saved' => pc'[t] \in Late)
    BY <1>1, <2>1, <2>2, Zenon DEF Goes
  <2>6. \A u \in Tool : u # t => pc'[u] = pc[u] /\ (u \in saved' <=> u \in saved)
    BY <2>1 DEF Goes
  <2>7. \A u \in Tool : pc[u] \in Flagged => pc'[u] \in Flagged
    BY <2>5, <2>6, Zenon
  <2>8. saved \subseteq saved' /\ saved' \subseteq Tool
    BY <1>2, <2>1, Zenon
  <2>9. \A u \in saved' : pc'[u] \in Late
    BY <2>5, <2>6, <2>8, Zenon DEF FlagInv
  <2> QED
    BY <2>1, <2>4, <2>7, <2>8, <2>9, Zenon DEF FlagInv, Flagged
<1>8. CASE Leaves(t)
  <2>1. /\ Goes(t, "end") /\ UNCHANGED <<file, saved>>
        /\ store'[t] = Empty /\ after'[t] = {}
        /\ \A u \in Tool : u # t => store'[u] = store[u] /\ after'[u] = after[u]
    BY <1>8, Zenon DEF Leaves, Ended
  <2>2. store'[t].passthrough = {} /\ pc'[t] \in Late /\ pc'[t] \notin Past
    BY <1>1, <2>1 DEF Goes, Empty
  <2>3. PassthroughCleared'
    BY <2>1, <2>2, Zenon DEF FlagInv, PassthroughCleared, Past, Goes
  <2>4. \A u \in saved' : pc'[u] \in Late
    BY <2>1, <2>2, <1>2, Zenon DEF FlagInv, Goes
  <2>5. ASSUME NEW u \in Tool
        PROVE  /\ store'[u].passthrough \subseteq {u}
               /\ store'[u].passthrough # {} => pc'[u] \in {"save", "saving"} \cup Late
               /\ after'[u] \subseteq saved'
    BY <2>1, <2>2, Zenon DEF FlagInv, Goes
  <2> QED
    BY <2>3, <2>4, <2>5, Zenon DEF FlagInv
<1>9. ASSUME NEW l, Passes(t, l),
             \/ pc[t] = "login" /\ l = "act"
             \/ pc[t] = "act" /\ l = "exit"
      PROVE  FlagInv'
  <2>1. Goes(t, l) /\ UNCHANGED <<store, file, saved, after>>
    BY <1>9, Zenon DEF Passes, storeVars
  <2> QED
    BY <1>1, <1>9, <2>1, QuietFlag, Zenon
<1>10. ASSUME NEW s \in Store, Changed(t, s),
              s.passthrough = store[t].passthrough \/ s.passthrough = {t}
       PROVE  FlagInv'
  <2>1. /\ pc[t] = "act" /\ Goes(t, "save") /\ UNCHANGED <<file, saved, after>>
        /\ store'[t] = s /\ \A u \in Tool : u # t => store'[u] = store[u]
    BY <1>10, Zenon DEF Changed, Stores, At
  <2>2. t \notin saved /\ pc[t] \in Past
    BY <1>1, <2>1, Zenon DEF FlagInv
  <2>3. PassthroughCleared'
    BY <2>1, <2>2, Zenon DEF FlagInv, PassthroughCleared, Past, Goes
  <2>4. \A u \in saved' : pc'[u] \in Late
    BY <2>1, <2>2, <1>2, Zenon DEF FlagInv, Goes
  <2>5. pc'[t] \in Flagged
    BY <1>1, <2>1, Zenon DEF Goes
  <2>6. ASSUME NEW u \in Tool
        PROVE  /\ store'[u].passthrough \subseteq {u}
               /\ store'[u].passthrough # {} => pc'[u] \in {"save", "saving"} \cup Late
               /\ after'[u] \subseteq saved'
    BY <1>10, <2>1, <2>5, Zenon DEF FlagInv, Goes, Flagged
  <2> QED
    BY <2>3, <2>4, <2>6, Zenon DEF FlagInv
<1>11. CASE RecordSelect(t)
  <2>1. /\ pc[t] = "select" /\ Goes(t, "insert") /\ UNCHANGED <<store, file, saved, after>>
    BY <1>11, RecordSelectDoes, Zenon DEF At, storeVars
  <2> QED
    BY <1>1, <2>1, QuietFlag, Zenon
<1>12. CASE RecordInsert(t)
  <2>1. /\ pc[t] = "insert" /\ Goes(t, "exit") /\ UNCHANGED <<store, file, saved, after>>
    BY <1>12, RecordInsertDoes, Zenon DEF At, storeVars
  <2> QED
    BY <1>1, <2>1, QuietFlag, Zenon
<1>13. CASE RecordStart(t)
  <2>1. /\ pc[t] = "record" /\ Goes(t, "select") /\ UNCHANGED <<store, file, saved, after>>
    BY <1>13, RecordStartDoes, Zenon DEF At, storeVars
  <2> QED
    BY <1>1, <2>1, QuietFlag, Zenon
<1> QED
  BY <1>3, <1>4, <1>5, <1>6, <1>7, <1>8, <1>9, <1>10, <1>11, <1>12, <1>13, Steps, Zenon
  DEF At

-----------------------------------------------------------------------------
(* What was saved stays                                                    *)

Carries(t) == pc[t] \in {"save", "saving"} /\ kind[t] # "intervene" => t \in store[t].changes

Undisturbed ==
  /\ mixed = {}
  /\ \A t, u \in Tool : pc[t] \in Busy /\ pc[u] \in Busy => t = u
  /\ \A t \in Tool : pc[t] \in Busy => Kept \subseteq store[t].changes
  /\ IF file.ok THEN Kept \subseteq file.store.changes
     ELSE \E t \in Tool : pc[t] \in Writing

LEMMA SaveInvIs ==
  /\ SaveInv <=> (\A t \in Tool : Carries(t)) /\ (~disturbed => Undisturbed)
  /\ SaveInv' <=> (\A t \in Tool : Carries(t)') /\ (~disturbed' => Undisturbed')
BY Zenon DEF SaveInv, Carries, Undisturbed

LEMMA InitSave ==
  ASSUME Init
  PROVE  SaveInv
BY Zenon DEF Init, SaveInv, Kept, Busy, Writing

(* A step that changes no store and no file, of a run that is not writing. *)
LEMMA QuietSave ==
  ASSUME Shape, SaveInv, NEW t \in Tool, NEW l, Goes(t, l),
         UNCHANGED <<store, file, mixed, saved, disturbed>>,
         \A u \in Tool : u # t => kind'[u] = kind[u],
         t \notin saved \/ kind'[t] = kind[t],
         l \in Busy => pc[t] \in Busy,
         pc[t] \notin Writing, l \notin {"save", "saving"}
  PROVE  SaveInv'
<1>1. Kept' = Kept
  BY Zenon DEF Kept, Shape
<1>2. \A u \in Tool : Carries(u)'
  BY SaveInvIs, Zenon DEF Carries, Goes
<1>3. ASSUME Undisturbed PROVE Undisturbed'
  <2>1. \A u \in Tool : /\ pc'[u] \in Busy => pc[u] \in Busy
                        /\ pc[u] \in Writing => pc'[u] \in Writing
    BY Zenon DEF Goes
  <2> QED
    BY <1>1, <1>3, <2>1, Zenon DEF Undisturbed
<1> QED
  BY <1>2, <1>3, SaveInvIs, Zenon

LEMMA NextSave ==
  ASSUME Shape, FlagInv, SaveInv, NEW t \in Tool, ToolStep(t)
  PROVE  SaveInv'
<1>1. /\ {"off", "saveKeypair", "load", "record", "select", "insert", "exit", "end"}
           \cap Busy = {}
      /\ {"clear", "clearing", "login", "act", "save", "saving"} \subseteq Busy
      /\ {"off", "saveKeypair", "load", "clear", "login", "act", "save", "record", "select",
          "insert", "exit", "end"} \cap Writing = {}
      /\ {"clearing", "saving"} \subseteq Writing /\ Writing \subseteq Busy
      /\ Late \cap Busy = {} /\ "off" \notin Late
  BY Zenon DEF Busy, Writing, Late
<1>2. saved \subseteq Tool
  BY Zenon DEF Shape
<1>3. CASE LoadKeypair(t)
  <2>1. /\ pc[t] = "off" /\ (Goes(t, "load") \/ Goes(t, "saveKeypair"))
        /\ UNCHANGED <<store, file, mixed, saved, disturbed>>
        /\ \A u \in Tool : u # t => kind'[u] = kind[u]
    BY <1>3, LoadKeypairDoes, Zenon DEF At
  <2>2. t \notin saved
    BY <1>1, <2>1 DEF FlagInv
  <2> QED
    BY <1>1, <2>1, <2>2, QuietSave, Zenon
<1>4. CASE SaveKeypair(t)
  <2>1. /\ pc[t] = "saveKeypair" /\ Goes(t, "load")
        /\ UNCHANGED <<kind, store, file, mixed, saved, disturbed>>
    BY <1>4, SaveKeypairDoes, Zenon DEF At, storeVars
  <2> QED
    BY <1>1, <2>1, QuietSave, Zenon
<1>5. CASE Load(t)
  <2>1. /\ Goes(t, "clear") /\ UNCHANGED <<kind, file, mixed, saved>>
        /\ file.ok => store'[t].changes = file.store.changes
        /\ \A u \in Tool : u # t => store'[u] = store[u]
        /\ (disturbed \/ ~file.ok \/ \E u \in Tool \ {t} : pc[u] \in Busy) => disturbed'
    BY <1>5, LoadDoes, Zenon DEF At, Stores
  <2>2. Kept' = Kept
    BY <2>1, Zenon DEF Kept
  <2>3. \A u \in Tool : Carries(u)'
    BY <2>1, SaveInvIs, Zenon DEF Carries, Goes
  <2>4. ASSUME ~disturbed' PROVE Undisturbed'
    <3>1. file.ok /\ Undisturbed /\ \A u \in Tool : pc'[u] \in Busy => u = t
      BY <2>1, <2>4, SaveInvIs, Zenon DEF Goes
    <3> QED
      BY <2>1, <2>2, <3>1, Zenon DEF Undisturbed
  <2> QED
    BY <2>3, <2>4, SaveInvIs, Zenon
<1>6. CASE SaveBegin(t)
  <2>1. /\ \/ pc[t] = "clear" /\ Goes(t, "clearing")
           \/ pc[t] = "save" /\ Goes(t, "saving")
        /\ file' = [ok |-> FALSE, store |-> Empty]
        /\ UNCHANGED <<kind, store, mixed, saved, disturbed>>
    BY <1>6, SaveBeginDoes, Zenon DEF At
  <2>2. Kept' = Kept
    BY <2>1, Zenon DEF Kept
  <2>3. \A u \in Tool : Carries(u)'
    BY <2>1, SaveInvIs, Zenon DEF Carries, Goes
  <2>4. ~file'.ok
    BY <2>1, Zenon
  <2>5. pc[t] \in Busy /\ pc'[t] \in Writing
    BY <1>1, <2>1, Zenon DEF Goes
  <2>6. \A u \in Tool : pc'[u] \in Busy => pc[u] \in Busy
    BY <2>1, <2>5, Zenon DEF Goes
  <2>7. ASSUME Undisturbed PROVE Undisturbed'
    BY <2>1, <2>2, <2>4, <2>5, <2>6, <2>7, Zenon DEF Undisturbed
  <2> QED
    BY <2>1, <2>3, <2>7, SaveInvIs, Zenon
<1>7. CASE SaveEnd(t)
  <2>1. /\ \/ pc[t] = "clearing" /\ Goes(t, "login") /\ saved' = saved
           \/ /\ pc[t] = "saving" /\ saved' = saved \cup {t}
              /\ Goes(t, "record") \/ Goes(t, "exit")
        /\ \/ file' = [ok |-> TRUE, store |-> store[t]]
           \/ t \in mixed
        /\ mixed' = {u \in Tool \ {t} : u \in mixed \/ pc[u] \in Writing}
        /\ UNCHANGED <<kind, store, disturbed>>
    BY <1>7, SaveEndDoes, Zenon DEF At
  <2>2. \A u \in Tool : Carries(u)'
    BY <2>1, SaveInvIs, Zenon DEF Carries, Goes
  <2>3. pc[t] \in Busy
    BY <1>1, <2>1, Zenon
  <2>4. ASSUME Undisturbed PROVE Undisturbed'
    <3>1. \A u \in Tool : pc[u] \in Busy => u = t
      BY <2>3, <2>4, Zenon DEF Undisturbed
    <3>2. mixed = {} /\ mixed' = {}
      BY <1>1, <2>1, <2>4, <3>1, Zenon DEF Undisturbed
    <3>3. file'.ok /\ file'.store = store[t]
      BY <2>1, <3>2
    <3>4. Kept \subseteq store[t].changes
      BY <2>3, <2>4, Zenon DEF Undisturbed
    <3>5. Kept' \subseteq store'[t].changes
      <4>1. CASE saved' = saved
        BY <2>1, <3>4, <4>1, Zenon DEF Kept
      <4>2. CASE pc[t] = "saving" /\ saved' = saved \cup {t}
        <5>1. kind[t] # "intervene" => t \in store[t].changes
          BY <4>2, SaveInvIs, Zenon DEF Carries
        <5> QED
          BY <2>1, <3>4, <4>2, <5>1, Zenon DEF Kept
      <4> QED
        BY <2>1, <4>1, <4>2, Zenon
    <3>6. \A u \in Tool : pc'[u] \in Busy => u = t
      BY <2>1, <3>1, Zenon DEF Goes
    <3> QED
      BY <2>1, <3>2, <3>3, <3>5, <3>6, Zenon DEF Undisturbed
  <2> QED
    BY <2>1, <2>2, <2>4, SaveInvIs, Zenon
<1>8. CASE Leaves(t)
  <2>1. /\ Goes(t, "end") /\ UNCHANGED <<kind, file, saved>> /\ mixed' \subseteq mixed
        /\ (disturbed \/ pc[t] \in Writing) => disturbed'
        /\ \A u \in Tool : u # t => store'[u] = store[u]
    BY <1>8, Zenon DEF Leaves, Ended
  <2>2. Kept' = Kept
    BY <2>1, Zenon DEF Kept
  <2>3. \A u \in Tool : Carries(u)'
    BY <2>1, SaveInvIs, Zenon DEF Carries, Goes
  <2>4. pc'[t] \notin Busy
    BY <1>1, <2>1, Zenon DEF Goes
  <2>5. ASSUME ~disturbed' PROVE Undisturbed'
    <3>1. Undisturbed /\ pc[t] \notin Writing
      BY <2>1, <2>5, SaveInvIs, Zenon
    <3>2. mixed' = {}
      BY <2>1, <3>1, Zenon DEF Undisturbed
    <3>3. \A u \in Tool : /\ pc'[u] \in Busy => u # t /\ pc[u] \in Busy
                          /\ pc[u] \in Writing => pc'[u] \in Writing
      BY <2>1, <2>4, <3>1, Zenon DEF Goes
    <3> QED
      BY <2>1, <2>2, <3>1, <3>2, <3>3, Zenon DEF Undisturbed
  <2> QED
    BY <2>3, <2>5, SaveInvIs, Zenon
<1>9. ASSUME NEW l, Passes(t, l),
             \/ pc[t] = "login" /\ l = "act"
             \/ pc[t] = "act" /\ l = "exit"
      PROVE  SaveInv'
  <2>1. Goes(t, l) /\ UNCHANGED <<kind, store, file, mixed, saved, disturbed>>
    BY <1>9, Zenon DEF Passes, storeVars
  <2> QED
    BY <1>1, <1>9, <2>1, QuietSave, Zenon
<1>10. ASSUME NEW s \in Store, Changed(t, s), store[t].changes \subseteq s.changes,
              kind[t] = "intervene" \/ s.changes = store[t].changes \cup {t}
       PROVE  SaveInv'
  <2>1. /\ pc[t] = "act" /\ Goes(t, "save") /\ store'[t] = s
        /\ UNCHANGED <<kind, file, mixed, saved, disturbed>>
        /\ \A u \in Tool : u # t => store'[u] = store[u]
    BY <1>10, Zenon DEF Changed, Stores, At
  <2>2. Kept' = Kept
    BY <2>1, Zenon DEF Kept
  <2>3. \A u \in Tool : Carries(u)'
    BY <1>10, <2>1, SaveInvIs, Zenon DEF Carries, Goes
  <2>4. pc[t] \in Busy /\ pc[t] \notin Writing
    BY <1>1, <2>1, Zenon
  <2>5. \A u \in Tool : /\ pc'[u] \in Busy => pc[u] \in Busy
                        /\ pc[u] \in Writing => pc'[u] \in Writing
                        /\ store[u].changes \subseteq store'[u].changes
    BY <1>10, <2>1, <2>4, Zenon DEF Goes
  <2>6. ASSUME Undisturbed PROVE Undisturbed'
    BY <2>1, <2>2, <2>5, <2>6, Zenon DEF Undisturbed
  <2> QED
    BY <2>1, <2>3, <2>6, SaveInvIs, Zenon
<1>11. CASE RecordSelect(t)
  <2>1. /\ pc[t] = "select" /\ Goes(t, "insert")
        /\ UNCHANGED <<kind, store, file, mixed, saved, disturbed>>
    BY <1>11, RecordSelectDoes, Zenon DEF At, storeVars
  <2> QED
    BY <1>1, <2>1, QuietSave, Zenon
<1>12. CASE RecordInsert(t)
  <2>1. /\ pc[t] = "insert" /\ Goes(t, "exit")
        /\ UNCHANGED <<kind, store, file, mixed, saved, disturbed>>
    BY <1>12, RecordInsertDoes, Zenon DEF At, storeVars
  <2> QED
    BY <1>1, <2>1, QuietSave, Zenon
<1>13. ASSUME NEW s \in Store, Changed(t, s), s.changes = store[t].changes \cup {t}
       PROVE  SaveInv'
  BY <1>10, <1>13, Zenon
<1>14. ASSUME NEW s \in Store, Changed(t, s), s.changes = store[t].changes,
              kind[t] = "intervene"
       PROVE  SaveInv'
  BY <1>10, <1>14, Zenon
<1>15. CASE RecordStart(t)
  <2>1. /\ pc[t] = "record" /\ Goes(t, "select")
        /\ UNCHANGED <<kind, store, file, mixed, saved, disturbed>>
    BY <1>15, RecordStartDoes, Zenon DEF At, storeVars
  <2> QED
    BY <1>1, <2>1, QuietSave, Zenon
<1> QED
  BY <1>3, <1>4, <1>5, <1>6, <1>7, <1>8, <1>9, <1>11, <1>12, <1>13, <1>14, <1>15, Steps,
     Zenon DEF At

LEMMA SaveImplies ==
  ASSUME SaveInv
  PROVE  SavedStays
<1>1. ASSUME ~disturbed PROVE IF file.ok THEN Kept \subseteq file.store.changes
        ELSE \E t \in Tool : pc[t] \in Writing /\ Kept \subseteq store[t].changes
  <2>1. Undisturbed /\ Writing \subseteq Busy
    BY <1>1, SaveInvIs, Zenon DEF Busy
  <2> QED
    BY <2>1, Zenon DEF Undisturbed
<1> QED
  BY <1>1, Zenon DEF SavedStays, Kept, Writing

-----------------------------------------------------------------------------
(* The rows of the feed and their order                                    *)

LEMMA HashIsNotEmpty ==
  ASSUME NEW e
  PROVE  Hash(e) # <<>>
BY Zenon DEF Hash

LEMMA HashTells ==
  ASSUME NEW d, NEW e, Hash(d) = Hash(e)
  PROVE  d.id = e.id /\ d.at = e.at /\ d.what = e.what /\ d.prev = e.prev
BY Zenon DEF Hash

LEMMA LinkedIs ==
  ASSUME NEW e, IsDraft(e), NEW p
  PROVE  /\ Linked(e, p).id = e.id /\ Linked(e, p).at = e.at /\ Linked(e, p).prev = p
         /\ IsEntry(Linked(e, p))
<1>1. PICK i, a, w, q, h : /\ e = [id |-> i, at |-> a, what |-> w, prev |-> q, hash |-> h]
                           /\ i \in Nat /\ a \in Nat /\ w # {}
  BY Zenon DEF IsDraft, IsRow
<1>2. Hash([e EXCEPT !.prev = p]) = <<i, a, w, p>>
  BY <1>1, Zenon DEF Hash
<1>3. Linked(e, p) = [id |-> i, at |-> a, what |-> w, prev |-> p, hash |-> <<i, a, w, p>>]
  BY <1>1, <1>2, Zenon DEF Linked
<1> QED
  BY <1>1, <1>3 DEF IsEntry, IsDraft, IsRow, Hash

LEMMA LegacyIs ==
  /\ Legacy.id = 0 /\ Legacy.at = 0 /\ Legacy.hash = <<>> /\ IsRow(Legacy)
BY Zenon DEF Legacy, IsRow

LEMMA TableRow ==
  ASSUME NEW rows, IsTable(rows), NEW e \in rows
  PROVE  /\ e.id \in Nat /\ e.at \in Nat
         /\ e \in Chained(rows) <=> IsEntry(e)
         /\ e \in Chained(rows) => e.hash = Hash(e)
         /\ e \notin Chained(rows) => e.hash = <<>>
<1>1. CASE e = Legacy
  <2>1. e \notin Chained(rows)
    BY <1>1, LegacyIs, Zenon DEF Chained
  <2>2. ~IsEntry(e)
    BY <1>1, LegacyIs, HashIsNotEmpty, Zenon DEF IsEntry
  <2> QED
    BY <1>1, <2>1, <2>2, LegacyIs, Zenon DEF IsRow
<1>2. CASE IsEntry(e)
  BY <1>2, HashIsNotEmpty, Zenon DEF IsEntry, IsDraft, IsRow, Chained
<1> QED
  BY <1>1, <1>2, Zenon DEF IsTable

LEMMA BeforeIsOrder ==
  ASSUME NEW rows, IsTable(rows)
  PROVE  /\ \A d, e \in rows : d = e \/ Before(d, e) \/ Before(e, d)
         /\ \A d, e \in rows : ~(Before(d, e) /\ Before(e, d))
         /\ \A d, e, f \in rows : Before(d, e) /\ Before(e, f) => Before(d, f)
<1>1. \A e \in rows : e.id \in Nat /\ e.at \in Nat
  BY TableRow, Zenon
<1>2. \A d, e \in rows : d.id = e.id => d = e
  BY Zenon DEF IsTable
<1> QED
  BY <1>1, <1>2 DEF Before

LEMMA LastIsRow ==
  ASSUME NEW rows, Last(rows) # {}
  PROVE  /\ (CHOOSE e \in Last(rows) : TRUE) \in Last(rows)
         /\ LastHash(rows) = (CHOOSE e \in Last(rows) : TRUE).hash
<1>1. rows # {}
  BY Zenon DEF Last
<1> QED
  BY <1>1, Zenon DEF LastHash

-----------------------------------------------------------------------------
(* A row after all others that links to the newest of them                 *)

LEMMA ChainGrows ==
  ASSUME NEW rows, IsTable(rows), Chainable(rows), NEW e, IsEntry(e),
         e.prev = LastHash(rows), \A d \in rows : d.at < e.at
  PROVE  Chainable(rows \cup {e})
<1> DEFINE new == rows \cup {e}
<1>1. \A d \in rows : Before(d, e) /\ ~Before(e, d) /\ d # e
  <2>1. e.at \in Nat /\ \A d \in rows : d.at \in Nat
    BY TableRow, Zenon DEF IsEntry, IsDraft, IsRow
  <2> QED
    BY <2>1 DEF Before
<1>2. Last(new) # {}
  BY <1>1, Zenon DEF Last
<1>3. e \notin rows /\ Chained(new) = Chained(rows) \cup {e}
  BY <1>1, HashIsNotEmpty, Zenon DEF Chained, IsEntry
<1>4. ASSUME NEW c \in Chained(new), NEW d \in new \ Chained(new)
      PROVE  Before(d, c)
  <2>1. d \in rows \ Chained(rows)
    BY <1>3, Zenon
  <2> QED
    BY <1>1, <1>3, <2>1, Zenon DEF Chainable
<1>5. ASSUME NEW c \in Chained(rows)
      PROVE  /\ c.hash = Hash(c)
             /\ LET earlier == {d \in Chained(new) : Before(d, c)}
                IN  IF earlier = {} THEN c.prev = <<>>
                    ELSE \E d \in Last(earlier) : c.prev = d.hash
  <2>1. c \in rows
    BY Zenon DEF Chained
  <2>2. {d \in Chained(new) : Before(d, c)} = {d \in Chained(rows) : Before(d, c)}
    BY <1>1, <1>3, <2>1, Zenon
  <2> QED
    BY <2>2, Zenon DEF Chainable, Verify, Walk
<1>6. {d \in Chained(new) : Before(d, e)} = Chained(rows)
  <2>1. ~Before(e, e)
    BY DEF Before, IsEntry, IsDraft, IsRow
  <2> QED
    BY <1>1, <1>3, <2>1, Zenon DEF Chained
<1>7. CASE Chained(rows) = {}
  <2>1. e.prev = <<>>
    <3>1. CASE rows = {}
      BY <3>1, Zenon DEF LastHash
    <3>2. CASE rows # {}
      <4>1. Last(rows) # {}
        BY <3>2, Zenon DEF Chainable
      <4>2. PICK l \in Last(rows) : LastHash(rows) = l.hash
        BY <4>1, LastIsRow, Zenon
      <4>3. l.hash = <<>>
        BY <1>7, <4>2, Zenon DEF Last, Chained
      <4> QED
        BY <4>2, <4>3, Zenon
    <3> QED
      BY <3>1, <3>2, Zenon
  <2>2. e.hash = Hash(e)
    BY Zenon DEF IsEntry
  <2> HIDE DEF new
  <2>3. Walk(Chained(new), TRUE)
    BY <1>3, <1>5, <1>6, <1>7, <2>1, <2>2 DEF Walk
  <2> QED
    BY <1>2, <1>4, <2>3, Zenon DEF Chainable, Verify, new
<1>8. CASE Chained(rows) # {}
  <2>1. rows # {}
    BY <1>8, Zenon DEF Chained
  <2>2. PICK l \in Last(rows) : LastHash(rows) = l.hash
    BY <2>1, LastIsRow, Zenon DEF Chainable
  <2>3. l \in rows /\ \A d \in rows : d = l \/ Before(d, l)
    BY Zenon DEF Last
  <2>4. PICK c \in Chained(rows) : TRUE
    BY <1>8, Zenon
  <2>5. l \in Chained(rows)
    <3>1. c \in rows
      BY <2>4, Zenon DEF Chained
    <3>2. l \notin Chained(rows) => Before(l, c)
      BY <2>3, <2>4, Zenon DEF Chainable
    <3>3. c = l \/ Before(c, l)
      BY <2>3, <3>1, Zenon
    <3>4. ~(Before(l, c) /\ Before(c, l))
      BY <2>3, <3>1, BeforeIsOrder, Zenon
    <3> QED
      BY <2>4, <3>2, <3>3, <3>4, Zenon
  <2>6. l \in Last(Chained(rows)) /\ e.prev = l.hash
    BY <2>2, <2>3, <2>5, Zenon DEF Last, Chained
  <2>7. e.hash = Hash(e)
    BY Zenon DEF IsEntry
  <2> HIDE DEF new
  <2>8. Walk(Chained(new), TRUE)
    BY <1>3, <1>5, <1>6, <1>8, <2>6, <2>7, Zenon DEF Walk
  <2> QED
    BY <1>2, <1>4, <2>8, Zenon DEF Chainable, Verify, new
<1> QED
  BY <1>7, <1>8, Zenon

-----------------------------------------------------------------------------
(* The feed                                                                *)

LEMMA LogIsTable ==
  ASSUME RowInv
  PROVE  clock \in Nat /\ IsTable(log)
BY Zenon DEF RowInv

LEMMA InitFeed ==
  ASSUME Init
  PROVE  RowInv /\ ChainInv
<1>1. /\ clock = 1 /\ (log = {} \/ log = {Legacy})
      /\ \A t \in Tool : entry[t] = {} /\ pc[t] = "off"
  BY Zenon DEF Init
<1>2. \A t \in Tool : pc[t] \notin Recording
  BY <1>1, Zenon DEF Recording
<1>3. clock \in Nat
  BY <1>1, Zenon
<1>4. RowInv
  BY <1>1, <1>3, Zenon DEF RowInv, IsTable, Row, FreshIds
<1>5. Chained(log) = {}
  BY <1>1, LegacyIs, Zenon DEF Chained
<1>6. log # {} => Last(log) # {}
  BY <1>1, Zenon DEF Last
<1>7. Chainable(log)
  BY <1>5, <1>6, Zenon DEF Chainable, Verify, Walk
<1>8. \A e \in log : e.at <= clock
  BY <1>1, LegacyIs
<1> QED
  BY <1>1, <1>2, <1>4, <1>7, <1>8, Zenon DEF ChainInv

(* A run that does not record has no row to insert.                        *)
LEMMA NoRow ==
  ASSUME RowInv, NEW t \in Tool, pc[t] \notin Recording
  PROVE  entry[t] = {}
BY Zenon DEF RowInv, Row, Holds, At, Recording

LEMMA RowStays ==
  ASSUME RowInv, NEW u \in Tool, entry'[u] = entry[u], pc'[u] = pc[u]
  PROVE  Row(u)'
BY Zenon DEF RowInv, Row, Holds, At

LEMMA IdsStay ==
  ASSUME RowInv, log' = log,
         \A u \in Tool : \A c \in entry'[u] : \E e \in entry[u] : c.id = e.id
  PROVE  FreshIds'
<1>1. ASSUME NEW u \in Tool, NEW c \in entry'[u], NEW d \in log' PROVE d.id # c.id
  <2>1. PICK e \in entry[u] : c.id = e.id
    OBVIOUS
  <2>2. d.id # e.id
    BY Zenon DEF RowInv, FreshIds
  <2> QED
    BY <2>1, <2>2, Zenon
<1>2. ASSUME NEW u \in Tool, NEW c \in entry'[u], NEW v \in Tool, v # u,
             NEW d \in entry'[v]
      PROVE  d.id # c.id
  <2>1. PICK e \in entry[u] : c.id = e.id
    OBVIOUS
  <2>2. PICK b \in entry[v] : d.id = b.id
    OBVIOUS
  <2>3. b.id # e.id
    BY <1>2, Zenon DEF RowInv, FreshIds
  <2> QED
    BY <2>1, <2>2, <2>3, Zenon
<1> QED
  BY <1>1, <1>2, Zenon DEF FreshIds

(* A step that leaves the feed alone, of a run that has no entry then.     *)
LEMMA QuietFeed ==
  ASSUME Shape, RowInv, ChainInv, NEW t \in Tool, NEW l, l \notin Recording, Goes(t, l),
         UNCHANGED <<log, clock, forked, setBack>>,
         entry'[t] = {}, \A u \in Tool : u # t => entry'[u] = entry[u]
  PROVE  RowInv' /\ ChainInv'
<1>1. \A u \in Tool : entry'[u] = {} \/ (u # t /\ entry'[u] = entry[u] /\ pc'[u] = pc[u])
  BY Zenon DEF Goes
<1>2. \A u \in Tool : pc'[u] \in Recording => u # t /\ pc'[u] = pc[u]
  BY Zenon DEF Goes
<1>3. RowInv'
  <2>1. \A u \in Tool : Row(u)'
    BY <1>1, RowStays, Zenon DEF Row
  <2>2. FreshIds'
    BY <1>1, IdsStay, Zenon
  <2> QED
    BY <2>1, <2>2, Zenon DEF RowInv
<1>4. ASSUME ~forked', ~setBack'
      PROVE  /\ \A u, v \in Tool : pc'[u] \in Recording /\ pc'[v] \in Recording => u = v
             /\ \A e \in log' : e.at <= clock'
             /\ \A u \in Tool : \A e \in entry'[u] :
                  /\ e.at <= clock' /\ \A d \in log' : d.at < e.at
                  /\ At(u, "insert")' => e.prev = LastHash(log')
             /\ Chainable(log')
  BY <1>1, <1>2, <1>4, Zenon DEF ChainInv, At
<1>5. ChainInv'
  BY <1>4, Zenon DEF ChainInv
<1> QED
  BY <1>3, <1>5, Zenon

LEMMA RecordStartFeed ==
  ASSUME SkillProcessesAssumption, Shape, RowInv, ChainInv, NEW t \in Tool, RecordStart(t)
  PROVE  RowInv' /\ ChainInv'
<1>1. PICK i \in (1 .. MaxId) \ {e.id : e \in log \cup UNION {entry[u] : u \in Tool}} :
        entry' = [entry EXCEPT ![t] = {[id |-> i, at |-> clock', what |-> {t},
                                        prev |-> <<>>, hash |-> <<>>]}]
  BY Zenon DEF RecordStart
<1>2. clock' \in Nat /\ i \in Nat /\ (~setBack' => clock <= clock' /\ ~setBack)
  <2>1. clock \in Nat
    BY Zenon DEF RowInv
  <2>2. i \in Nat
    OBVIOUS
  <2>3. CASE clock' \in clock .. MaxClock /\ UNCHANGED <<setBack, faults>>
    BY <2>1, <2>2, <2>3
  <2>4. CASE clock' \in 0 .. clock - 1 /\ setBack' = TRUE
    BY <2>1, <2>2, <2>4
  <2> QED
    BY <2>3, <2>4, Zenon DEF RecordStart, ReadClock
<1>3. PICK e : e = [id |-> i, at |-> clock', what |-> {t}, prev |-> <<>>, hash |-> <<>>]
  BY Zenon
<1>4. e.id = i /\ e.at = clock' /\ IsDraft(e)
  BY <1>2, <1>3, Zenon DEF IsDraft, IsRow
<1>5. entry'[t] = {e} /\ \A u \in Tool : u # t => entry'[u] = entry[u]
  BY <1>1, <1>3, Zenon DEF Shape, IsMap
<1>6. /\ Goes(t, "select") /\ log' = log
      /\ (forked \/ Others(t, {"select", "insert"}) \/ \E c \in log : c.at = clock') => forked'
  BY RecordStartDoes, Zenon DEF RecordStart
<1>7. /\ \A c \in log : c.id # e.id
      /\ \A u \in Tool : \A c \in entry[u] : c.id # e.id
  BY <1>1, <1>4, Zenon
<1>8. RowInv'
  <2>1. \A u \in Tool : Row(u)'
    <3>1. Row(t)'
      BY <1>4, <1>5, <1>6, Zenon DEF Row, Holds, At, Goes
    <3> QED
      BY <1>5, <1>6, <3>1, RowStays, Zenon DEF Goes
  <2>2. FreshIds'
    <3>1. \A u \in Tool : \A c \in entry'[u] : (u = t /\ c = e) \/ (u # t /\ c \in entry[u])
      BY <1>5, Zenon
    <3>2. \A u \in Tool : \A c \in entry'[u] : \A d \in log' : d.id # c.id
      BY <1>6, <1>7, <3>1, Zenon DEF RowInv, FreshIds
    <3>3. ASSUME NEW u \in Tool, NEW c \in entry'[u], NEW v \in Tool, v # u,
                 NEW d \in entry'[v]
          PROVE  d.id # c.id
      BY <1>7, <3>1, <3>3, Zenon DEF RowInv, FreshIds
    <3> QED
      BY <3>2, <3>3, Zenon DEF FreshIds
  <2> QED
    BY <1>2, <1>6, <2>1, <2>2, LogIsTable, Zenon DEF RowInv
<1>9. ASSUME ~forked', ~setBack'
      PROVE  /\ \A u, v \in Tool : pc'[u] \in Recording /\ pc'[v] \in Recording => u = v
             /\ \A c \in log' : c.at <= clock'
             /\ \A u \in Tool : \A c \in entry'[u] :
                  /\ c.at <= clock' /\ \A b \in log' : b.at < c.at
                  /\ At(u, "insert")' => c.prev = LastHash(log')
             /\ Chainable(log')
  <2>1. /\ ~forked /\ ~setBack /\ clock <= clock'
        /\ \A u \in Tool : u # t => pc[u] \notin Recording
        /\ \A c \in log : c.at # clock'
    BY <1>2, <1>6, <1>9, Zenon DEF Others, Recording
  <2>2. (\A c \in log : c.at <= clock) /\ Chainable(log)
    BY <2>1, Zenon DEF ChainInv
  <2>3. clock \in Nat /\ clock' \in Nat /\ \A c \in log : c.at \in Nat
    BY <1>2, LogIsTable, TableRow, Zenon
  <2>4. \A c \in log : c.at <= clock' /\ c.at < clock'
    BY <2>1, <2>2, <2>3
  <2>5. \A u \in Tool : u # t => entry'[u] = {} /\ pc'[u] \notin Recording
    BY <1>5, <1>6, <2>1, NoRow, Zenon DEF Goes
  <2>6. e.at <= clock' /\ \A c \in log : c.at < e.at
    BY <1>4, <2>3, <2>4
  <2>7. \A u \in Tool : \A c \in entry'[u] : u = t /\ c = e
    BY <1>5, <2>5, Zenon
  <2>8. ~At(t, "insert")'
    BY <1>6, Zenon DEF At, Goes
  <2> QED
    BY <1>6, <2>2, <2>4, <2>5, <2>6, <2>7, <2>8, Zenon
<1>10. ChainInv'
  BY <1>9, Zenon DEF ChainInv
<1> QED
  BY <1>8, <1>10, Zenon

LEMMA RecordSelectFeed ==
  ASSUME Shape, RowInv, ChainInv, NEW t \in Tool, RecordSelect(t)
  PROVE  RowInv' /\ ChainInv'
<1>1. /\ At(t, "select") /\ Goes(t, "insert")
      /\ UNCHANGED <<log, clock, forked, setBack>>
      /\ entry'[t] = {Linked(e, LastHash(log)) : e \in entry[t]}
      /\ \A u \in Tool : u # t => entry'[u] = entry[u]
  BY RecordSelectDoes, Zenon DEF RecordSelect, Shape, IsMap
<1>2. entry[t] = {} \/ \E e \in entry[t] : entry[t] = {e} /\ IsDraft(e)
  BY Zenon DEF RowInv, Row, Holds, IsEntry
<1>3. /\ entry'[t] = {} \/ \E c \in entry'[t] : entry'[t] = {c} /\ IsEntry(c)
      /\ \A c \in entry'[t] : \E e \in entry[t] :
           c.id = e.id /\ c.at = e.at /\ c.prev = LastHash(log)
  <2>1. CASE entry[t] = {}
    BY <1>1, <2>1, Zenon
  <2>2. ASSUME NEW e \in entry[t], entry[t] = {e}, IsDraft(e)
        PROVE  /\ \E c \in entry'[t] : entry'[t] = {c} /\ IsEntry(c)
               /\ \A c \in entry'[t] :
                    c.id = e.id /\ c.at = e.at /\ c.prev = LastHash(log)
    <3>1. PICK c : c = Linked(e, LastHash(log))
      BY Zenon
    <3>2. c.id = e.id /\ c.at = e.at /\ c.prev = LastHash(log) /\ IsEntry(c)
      BY <2>2, <3>1, LinkedIs, Zenon
    <3>3. entry'[t] = {c}
      BY <1>1, <2>2, <3>1, Zenon
    <3> QED
      BY <3>2, <3>3, Zenon
  <2> QED
    BY <1>2, <2>1, <2>2, Zenon
<1>6. RowInv'
  <2>1. Row(t)'
    BY <1>1, <1>3, Zenon DEF Row, Holds, At, Goes
  <2>2. \A u \in Tool : Row(u)'
    BY <1>1, <2>1, RowStays, Zenon DEF Goes
  <2>3. \A u \in Tool : \A c \in entry'[u] : \E e \in entry[u] : c.id = e.id
    BY <1>1, <1>3, Zenon
  <2>4. FreshIds'
    BY <1>1, <2>3, IdsStay, Zenon
  <2> QED
    BY <1>1, <2>2, <2>4, LogIsTable, Zenon DEF RowInv
<1>4. ASSUME ~forked', ~setBack'
      PROVE  /\ \A u, v \in Tool : pc'[u] \in Recording /\ pc'[v] \in Recording => u = v
             /\ \A c \in log' : c.at <= clock'
             /\ \A u \in Tool : \A c \in entry'[u] :
                  /\ c.at <= clock' /\ \A b \in log' : b.at < c.at
                  /\ At(u, "insert")' => c.prev = LastHash(log')
             /\ Chainable(log')
  <2>1. /\ \A u, v \in Tool : pc[u] \in Recording /\ pc[v] \in Recording => u = v
        /\ \A c \in log : c.at <= clock
        /\ \A u \in Tool : \A c \in entry[u] :
             /\ c.at <= clock /\ \A b \in log : b.at < c.at
             /\ At(u, "insert") => c.prev = LastHash(log)
        /\ Chainable(log)
    BY <1>1, <1>4, Zenon DEF ChainInv
  <2>2. \A u \in Tool : pc'[u] \in Recording => pc[u] \in Recording
    BY <1>1, Zenon DEF At, Goes, Recording
  <2>3. \A u \in Tool : u # t => (At(u, "insert")' <=> At(u, "insert"))
    BY <1>1, Zenon DEF At, Goes
  <2>4. \A c \in entry'[t] : \E e \in entry[t] : c.at = e.at /\ c.prev = LastHash(log')
    BY <1>1, <1>3, Zenon
  <2>5. \A c \in entry'[t] : /\ c.at <= clock' /\ \A b \in log' : b.at < c.at
                             /\ c.prev = LastHash(log')
    BY <1>1, <2>1, <2>4, Zenon
  <2>6. \A u \in Tool : u # t => \A c \in entry'[u] :
             /\ c.at <= clock' /\ \A b \in log' : b.at < c.at
             /\ At(u, "insert")' => c.prev = LastHash(log')
    BY <1>1, <2>1, <2>3, Zenon
  <2> QED
    BY <1>1, <2>1, <2>2, <2>5, <2>6, Zenon
<1>5. ChainInv'
  BY <1>4, Zenon DEF ChainInv
<1> QED
  BY <1>5, <1>6, Zenon

LEMMA RecordInsertFeed ==
  ASSUME Shape, RowInv, ChainInv, NEW t \in Tool, RecordInsert(t)
  PROVE  RowInv' /\ ChainInv'
<1>1. /\ At(t, "insert") /\ Goes(t, "exit") /\ UNCHANGED <<clock, forked, setBack>>
      /\ log' = log \cup entry[t] /\ entry'[t] = {}
      /\ \A u \in Tool : u # t => entry'[u] = entry[u]
  BY RecordInsertDoes, Zenon
<1>2. "exit" \notin Recording /\ "insert" \in Recording /\ pc[t] = "insert"
  BY <1>1, Zenon DEF Recording, At
<1>3. CASE entry[t] = {}
  <2>1. log' = log
    BY <1>1, <1>3, Zenon
  <2> QED
    BY <1>1, <1>2, <2>1, QuietFeed, Zenon
<1>4. ASSUME NEW e \in entry[t], entry[t] = {e}, Holds(t, e)
      PROVE  RowInv' /\ ChainInv'
  <2>1. log' = log \cup {e} /\ IsEntry(e)
    BY <1>1, <1>2, <1>4, Zenon DEF Holds, At
  <2>2. \A u \in Tool : pc'[u] \in Recording => u # t /\ pc'[u] = pc[u]
    BY <1>1, <1>2, Zenon DEF Goes
  <2>3. RowInv'
    <3>1. \A u \in Tool : Row(u)'
      <4>1. Row(t)'
        BY <1>1, Zenon DEF Row
      <4> QED
        BY <1>1, <4>1, RowStays, Zenon DEF Goes
    <3>2. FreshIds'
      <4>1. \A u \in Tool : \A c \in entry'[u] : u # t /\ c \in entry[u]
        BY <1>1, Zenon
      <4>2. ASSUME NEW u \in Tool, NEW c \in entry'[u], NEW d \in log' PROVE d.id # c.id
        <5>1. CASE d \in log
          BY <4>1, <5>1, Zenon DEF RowInv, FreshIds
        <5>2. CASE d = e
          BY <4>1, <5>2, Zenon DEF RowInv, FreshIds
        <5> QED
          BY <2>1, <5>1, <5>2, Zenon
      <4>3. ASSUME NEW u \in Tool, NEW c \in entry'[u], NEW v \in Tool, v # u,
                   NEW d \in entry'[v]
            PROVE  d.id # c.id
        BY <4>1, <4>3, Zenon DEF RowInv, FreshIds
      <4> QED
        BY <4>2, <4>3, Zenon DEF FreshIds
    <3>3. IsTable(log')
      <4>1. \A c \in log : c.id # e.id
        BY <1>4, Zenon DEF RowInv, FreshIds
      <4> QED
        BY <2>1, <4>1, LogIsTable, Zenon DEF IsTable
    <3> QED
      BY <1>1, <3>1, <3>2, <3>3, LogIsTable, Zenon DEF RowInv
  <2>4. ASSUME ~forked', ~setBack'
        PROVE  /\ \A u, v \in Tool : pc'[u] \in Recording /\ pc'[v] \in Recording => u = v
               /\ \A c \in log' : c.at <= clock'
               /\ \A u \in Tool : \A c \in entry'[u] :
                    /\ c.at <= clock' /\ \A b \in log' : b.at < c.at
                    /\ At(u, "insert")' => c.prev = LastHash(log')
               /\ Chainable(log')
    <3>1. /\ \A u, v \in Tool : pc[u] \in Recording /\ pc[v] \in Recording => u = v
          /\ \A c \in log : c.at <= clock
          /\ e.at <= clock /\ e.prev = LastHash(log) /\ \A d \in log : d.at < e.at
          /\ Chainable(log)
      BY <1>1, <1>4, <2>4, Zenon DEF ChainInv
    <3>2. \A u \in Tool : u # t => pc[u] \notin Recording /\ entry'[u] = {}
      BY <1>1, <1>2, <3>1, NoRow, Zenon
    <3>3. Chainable(log')
      BY <2>1, <3>1, ChainGrows, LogIsTable, Zenon
    <3>4. \A c \in log' : c.at <= clock'
      BY <1>1, <2>1, <3>1, Zenon
    <3> QED
      BY <1>1, <2>2, <3>2, <3>3, <3>4, Zenon
  <2>5. ChainInv'
    BY <2>4, Zenon DEF ChainInv
  <2> QED
    BY <2>3, <2>5, Zenon
<1> QED
  BY <1>3, <1>4, Zenon DEF RowInv, Row

LEMMA NextFeed ==
  ASSUME SkillProcessesAssumption, Shape, RowInv, ChainInv, NEW t \in Tool, ToolStep(t)
  PROVE  RowInv' /\ ChainInv'
<1>1. ASSUME NEW l, l \notin Recording, Goes(t, l), pc[t] \notin Recording,
             UNCHANGED <<feedVars, clock>>
      PROVE  RowInv' /\ ChainInv'
  <2>1. entry[t] = {} /\ UNCHANGED <<log, entry, clock, forked, setBack>>
    BY <1>1, NoRow, Zenon DEF feedVars
  <2> QED
    BY <1>1, <2>1, QuietFeed, Zenon
<1>2. (\E l \in {"load", "saveKeypair", "clear", "clearing", "saving", "login", "record", "exit",
                 "act", "save"} :
         Goes(t, l) /\ pc[t] \notin Recording /\ UNCHANGED <<feedVars, clock>>)
      => RowInv' /\ ChainInv'
  BY <1>1, Zenon DEF Recording
<1>3. /\ {"off", "saveKeypair", "load", "clear", "save", "clearing", "saving", "login", "act",
          "exit", "end"} \cap Recording = {}
      /\ "select" \in Recording /\ "insert" \in Recording
  BY Zenon DEF Recording
<1>4. CASE LoadKeypair(t)
  <2>1. pc[t] = "off"
    BY <1>4, LoadKeypairDoes, Zenon DEF At
  <2>2. pc[t] \notin Recording
    BY <1>3, <2>1, Zenon
  <2> QED
    BY <1>2, <1>3, <1>4, <2>2, LoadKeypairDoes, Zenon
<1>5. CASE SaveKeypair(t)
  <2>1. pc[t] = "saveKeypair"
    BY <1>5, SaveKeypairDoes, Zenon DEF At
  <2>2. pc[t] \notin Recording
    BY <1>3, <2>1, Zenon
  <2> QED
    BY <1>2, <1>3, <1>5, <2>2, SaveKeypairDoes, Zenon
<1>6. CASE Load(t)
  <2>1. pc[t] = "load"
    BY <1>6, LoadDoes, Zenon DEF At
  <2>2. pc[t] \notin Recording
    BY <1>3, <2>1, Zenon
  <2> QED
    BY <1>2, <1>3, <1>6, <2>2, LoadDoes, Zenon
<1>7. CASE SaveBegin(t)
  <2>1. pc[t] \in {"clear", "save"}
    BY <1>7, SaveBeginDoes, Zenon DEF At
  <2>2. pc[t] \notin Recording
    BY <1>3, <2>1, Zenon
  <2> QED
    BY <1>2, <1>3, <1>7, <2>2, SaveBeginDoes, Zenon
<1>8. CASE SaveEnd(t)
  <2>1. pc[t] \in {"clearing", "saving"}
    BY <1>8, SaveEndDoes, Zenon DEF At
  <2>2. pc[t] \notin Recording
    BY <1>3, <2>1, Zenon
  <2> QED
    BY <1>2, <1>3, <1>8, <2>2, SaveEndDoes, Zenon
<1>9. CASE Leaves(t)
  <2>1. /\ Goes(t, "end") /\ UNCHANGED <<log, clock, forked, setBack>>
        /\ entry'[t] = {} /\ \A u \in Tool : u # t => entry'[u] = entry[u]
    BY <1>9, Zenon DEF Leaves, Ended
  <2>2. "end" \notin Recording
    BY Zenon DEF Recording
  <2> QED
    BY <2>1, <2>2, QuietFeed, Zenon
<1>10. ASSUME NEW l, Passes(t, l), \/ pc[t] = "login" /\ l = "act"
                                   \/ pc[t] = "act" /\ l = "exit"
       PROVE  RowInv' /\ ChainInv'
  <2>1. pc[t] \notin Recording /\ l \notin Recording
    BY <1>3, <1>10, Zenon
  <2> QED
    BY <1>1, <1>3, <1>10, <2>1, Zenon DEF Passes
<1>11. ASSUME NEW s, Changed(t, s) PROVE RowInv' /\ ChainInv'
  <2>1. pc[t] = "act"
    BY <1>11, Zenon DEF Changed, At
  <2>2. pc[t] \notin Recording
    BY <1>3, <2>1, Zenon
  <2> QED
    BY <1>2, <1>3, <1>11, <2>2, Zenon DEF Changed
<1> QED
  BY <1>4, <1>5, <1>6, <1>7, <1>8, <1>9, <1>10, <1>11, RecordStartFeed, RecordSelectFeed,
     RecordInsertFeed, Steps, Zenon DEF At

-----------------------------------------------------------------------------
(* What pinch-audit-verify accepts and what it reports                     *)

(* The entries before e, and the one the walk compares e with.             *)
LEMMA WalkStep ==
  ASSUME NEW rows, Verify(rows), NEW e \in Chained(rows), NEW d \in Chained(rows),
         Before(d, e)
  PROVE  \E c \in Last({x \in Chained(rows) : Before(x, e)}) : e.prev = c.hash
<1>1. {x \in Chained(rows) : Before(x, e)} # {}
  OBVIOUS
<1> QED
  BY <1>1, Zenon DEF Verify, Walk

(* Newest rows that leave out no row after one of them verify as well.     *)
LEMMA TailWalks ==
  ASSUME NEW rows, Verify(rows), NEW tail, tail \subseteq Chained(rows),
         \A d \in tail, e \in Chained(rows) : Before(d, e) => e \in tail
  PROVE  Walk(tail, FALSE)
<1>1. ASSUME NEW e \in tail, NEW d \in tail, Before(d, e)
      PROVE  \E c \in Last({x \in tail : Before(x, e)}) : e.prev = c.hash
  <2>1. PICK c \in Last({x \in Chained(rows) : Before(x, e)}) : e.prev = c.hash
    BY <1>1, WalkStep, Zenon
  <2>2. /\ c \in Chained(rows) /\ Before(c, e)
        /\ \A x \in Chained(rows) : Before(x, e) => x = c \/ Before(x, c)
    BY Zenon DEF Last
  <2>3. c \in tail
    BY <1>1, <2>2, Zenon
  <2>4. c \in Last({x \in tail : Before(x, e)})
    BY <2>2, <2>3, Zenon DEF Last
  <2> QED
    BY <2>1, <2>4, Zenon
<1>2. ASSUME NEW e \in tail
      PROVE  /\ e.hash = Hash(e)
             /\ LET earlier == {x \in tail : Before(x, e)}
                IN  IF earlier = {} THEN FALSE => e.prev = <<>>
                    ELSE \E c \in Last(earlier) : e.prev = c.hash
  <2>1. e.hash = Hash(e)
    BY Zenon DEF Verify, Walk
  <2> QED
    BY <1>1, <2>1, Zenon
<1> QED
  BY <1>2, Zenon DEF Walk

(* A row whose hash is of other fields than it has is reported.            *)
LEMMA ForgedIsReported ==
  ASSUME NEW rows, NEW f \in rows, f.hash # <<>>, f.hash # Hash(f)
  PROVE  ~Verify(rows)
BY Zenon DEF Verify, Walk, Chained

(* A row that lost the one before it is reported.                          *)
LEMMA GapIsReported ==
  ASSUME NEW rows, IsTable(rows), Verify(rows), NEW e \in Chained(rows),
         NEW m \in Chained(rows), Before(e, m),
         \A d \in Chained(rows) : Before(e, d) => d = m \/ Before(m, d)
  PROVE  ~Verify(rows \ {e})
<1>1. /\ Chained(rows) \subseteq rows /\ e \in rows /\ m \in rows
      /\ \A x \in Chained(rows) : x.hash = Hash(x) /\ x.hash # <<>>
  BY TableRow, Zenon DEF Chained
<1>2. m # e /\ ~Before(m, m)
  BY <1>1, BeforeIsOrder, Zenon
<1>3. PICK c \in Last({x \in Chained(rows) : Before(x, m)}) : m.prev = c.hash
  BY WalkStep, Zenon
<1>4. /\ c \in Chained(rows) /\ Before(c, m)
      /\ \A x \in Chained(rows) : Before(x, m) => x = c \/ Before(x, c)
  BY Zenon DEF Last
<1>5. c = e
  <2>1. e = c \/ Before(e, c)
    BY <1>4, Zenon
  <2>2. Before(e, c) => c = m \/ Before(m, c)
    BY <1>4, Zenon
  <2>3. ~(Before(m, c) /\ Before(c, m))
    BY <1>1, <1>4, BeforeIsOrder, Zenon
  <2> QED
    BY <1>2, <1>4, <2>1, <2>2, <2>3, Zenon
<1>6. Chained(rows \ {e}) = Chained(rows) \ {e}
  BY Zenon DEF Chained
<1>7. SUFFICES ASSUME Verify(rows \ {e}) PROVE FALSE
  OBVIOUS
<1>8. m \in Chained(rows \ {e})
  BY <1>2, <1>6, Zenon
<1>9. CASE {x \in Chained(rows \ {e}) : Before(x, m)} = {}
  <2>1. m.prev = <<>>
    BY <1>7, <1>8, <1>9, Zenon DEF Verify, Walk
  <2> QED
    BY <1>1, <1>3, <1>5, <2>1, Zenon
<1>10. CASE {x \in Chained(rows \ {e}) : Before(x, m)} # {}
  <2>1. PICK b \in Last({x \in Chained(rows \ {e}) : Before(x, m)}) : m.prev = b.hash
    BY <1>7, <1>8, <1>10, Zenon DEF Verify, Walk
  <2>2. b \in Chained(rows) /\ b # e
    BY <1>6, <2>1, Zenon DEF Last
  <2>3. Hash(b) = Hash(e)
    BY <1>1, <1>3, <1>5, <2>1, <2>2, Zenon
  <2>4. b.id = e.id
    BY <2>3, HashTells, Zenon
  <2> QED
    BY <1>1, <2>2, <2>4, Zenon DEF IsTable
<1> QED
  BY <1>9, <1>10, Zenon

LEMMA ForgeryIsReported ==
  ASSUME RowInv, NEW e \in Chained(log)
  PROVE  /\ ~Verify((log \ {e}) \cup {[e EXCEPT !.what = {}]})
         /\ ~Verify((log \ {e}) \cup {[e EXCEPT !.at = @ + 1]})
<1>1. IsEntry(e) /\ e.hash # <<>>
  BY LogIsTable, TableRow, Zenon DEF Chained
<1>2. e.hash = <<e.id, e.at, e.what, e.prev>> /\ e.what # {} /\ e.at \in Nat
  BY <1>1, Zenon DEF IsEntry, IsDraft, IsRow, Hash
<1>3. e = [id |-> e.id, at |-> e.at, what |-> e.what, prev |-> e.prev, hash |-> e.hash]
  BY <1>1, Zenon DEF IsEntry, IsDraft, IsRow
<1>4. PICK i, a, w, p, h :
        /\ e = [id |-> i, at |-> a, what |-> w, prev |-> p, hash |-> h]
        /\ h = <<i, a, w, p>> /\ w # {} /\ a \in Nat /\ h # <<>>
  BY <1>1, <1>2, <1>3
<1>5. ASSUME NEW f, f = [e EXCEPT !.what = {}] PROVE f.hash # <<>> /\ f.hash # Hash(f)
  <2>1. f = [id |-> i, at |-> a, what |-> {}, prev |-> p, hash |-> h]
    BY <1>4, <1>5, Zenon
  <2>2. f.hash = <<i, a, w, p>> /\ Hash(f) = <<i, a, {}, p>>
    BY <1>4, <2>1, Zenon DEF Hash
  <2> QED
    BY <1>4, <2>1, <2>2
<1>6. ASSUME NEW f, f = [e EXCEPT !.at = @ + 1] PROVE f.hash # <<>> /\ f.hash # Hash(f)
  <2>1. f = [id |-> i, at |-> a + 1, what |-> w, prev |-> p, hash |-> h]
    BY <1>4, <1>6, Zenon
  <2>2. f.hash = <<i, a, w, p>> /\ Hash(f) = <<i, a + 1, w, p>>
    BY <1>4, <2>1, Zenon DEF Hash
  <2>3. a # a + 1
    BY <1>4
  <2> QED
    BY <1>4, <2>1, <2>2, <2>3
<1> QED
  BY <1>5, <1>6, ForgedIsReported, Zenon

-----------------------------------------------------------------------------
(* A step that changes nothing                                             *)

LEMMA StutterInv ==
  ASSUME IInv, UNCHANGED vars
  PROVE  IInv'
<1>1. /\ UNCHANGED <<pc, kind, store, keyOf, entry>>
      /\ UNCHANGED <<file, mixed, keyfile, log, clock>>
      /\ UNCHANGED <<saved, after, disturbed, keyRaced, forked, setBack>>
  BY Zenon DEF vars
<1>2. Shape' /\ KeyInv'
  BY <1>1, Zenon DEF IInv, Shape, KeyInv, At
<1>3. FlagInv'
  BY <1>1, Zenon DEF IInv, FlagInv, PassthroughCleared
<1>4. SaveInv'
  BY <1>1, Zenon DEF IInv, SaveInv, Kept
<1>5. RowInv'
  <2>1. RowInv /\ \A u \in Tool : \A c \in entry'[u] : \E e \in entry[u] : c.id = e.id
    BY <1>1, Zenon DEF IInv
  <2>2. (\A u \in Tool : Row(u)') /\ FreshIds'
    BY <1>1, <2>1, RowStays, IdsStay, Zenon
  <2> QED
    BY <1>1, <2>1, <2>2, LogIsTable, Zenon DEF RowInv
<1>6. ChainInv' /\ IsFiniteSet(log)'
  BY <1>1, Zenon DEF IInv, ChainInv, At
<1> QED
  BY <1>2, <1>3, <1>4, <1>5, <1>6, Zenon DEF IInv

-----------------------------------------------------------------------------
(* The row after a row, and the rows of --tail                             *)

INSTANCE WellFoundedInduction
INSTANCE FiniteSetTheorems

Less == {p \in Nat \X Nat : p[1] < p[2]}

LEMMA LessIsWellFounded == IsWellFoundedOn(Less, Nat)
BY NatLessThanWellFounded, Zenon DEF OpToRel, Less

LEMMA LessIsLess ==
  ASSUME NEW x \in Nat, NEW y \in Nat
  PROVE  <<x, y>> \in Less <=> x < y
BY Zenon DEF Less

LEMMA NatMin ==
  ASSUME NEW T, T \subseteq Nat, T # {}
  PROVE  \E n \in T : \A m \in T : n <= m
<1>1. PICK n \in T : \A m \in T : ~(<<m, n>> \in Less)
  BY LessIsWellFounded, WFMin, Zenon
<1>2. ASSUME NEW m \in T PROVE n <= m
  <2>1. n \in Nat /\ m \in Nat
    OBVIOUS
  <2>2. ~(m < n)
    BY <1>1, <2>1, LessIsLess, Zenon
  <2> QED
    BY <2>1, <2>2
<1> QED
  BY <1>2, Zenon

(* Of the rows after e there is a first.                                   *)
LEMMA FirstAfter ==
  ASSUME NEW rows, IsTable(rows), NEW e \in Chained(rows), NEW d \in Chained(rows),
         Before(e, d)
  PROVE  \E m \in Chained(rows) :
           /\ Before(e, m)
           /\ \A x \in Chained(rows) : Before(e, x) => x = m \/ Before(m, x)
<1> DEFINE T == {x \in Chained(rows) : Before(e, x)}
<1>1. \A x \in Chained(rows) : x \in rows /\ x.at \in Nat /\ x.id \in Nat
  BY TableRow, Zenon DEF Chained
<1>2. PICK a \in {x.at : x \in T} : \A b \in {x.at : x \in T} : a <= b
  <2>1. {x.at : x \in T} \subseteq Nat /\ {x.at : x \in T} # {}
    BY <1>1, Zenon
  <2> HIDE DEF T
  <2> QED
    BY <2>1, NatMin, Zenon
<1>3. PICK i \in {x.id : x \in {y \in T : y.at = a}} :
        \A j \in {x.id : x \in {y \in T : y.at = a}} : i <= j
  <2>1. /\ {x.id : x \in {y \in T : y.at = a}} \subseteq Nat
        /\ {x.id : x \in {y \in T : y.at = a}} # {}
    BY <1>1, <1>2, Zenon
  <2> HIDE DEF T
  <2> QED
    BY <2>1, NatMin, Zenon
<1>4. PICK m \in T : m.at = a /\ m.id = i
  BY <1>3, Zenon
<1>5. ASSUME NEW x \in T PROVE x = m \/ Before(m, x)
  <2>1. a <= x.at /\ (x.at = a => i <= x.id)
    BY <1>2, <1>3, Zenon
  <2>2. x.id = m.id => x = m
    BY <1>1, Zenon DEF IsTable
  <2> QED
    BY <1>1, <1>4, <2>1, <2>2 DEF Before
<1> QED
  BY <1>4, <1>5, Zenon

LEMMA ReportsChanges ==
  ASSUME RowInv
  PROVE  ChangeIsDetected
<1>1. ASSUME Verify(log), NEW e \in Chained(log), NEW d \in Chained(log), Before(e, d)
      PROVE  ~Verify(log \ {e})
  <2>1. PICK m \in Chained(log) :
          /\ Before(e, m)
          /\ \A x \in Chained(log) : Before(e, x) => x = m \/ Before(m, x)
    BY <1>1, FirstAfter, LogIsTable, Zenon
  <2> QED
    BY <1>1, <2>1, GapIsReported, LogIsTable
<1> QED
  BY <1>1, ForgeryIsReported, Zenon DEF ChangeIsDetected

(* --tail n leaves out no row after one it reads.                          *)
LEMMA TailIsUpward ==
  ASSUME NEW rows, IsTable(rows), IsFiniteSet(rows), NEW n \in Nat,
         NEW d \in Newest(rows, n), NEW e \in Chained(rows), Before(d, e)
  PROVE  e \in Newest(rows, n)
<1> DEFINE After(x) == {y \in Chained(rows) : Before(x, y)}
<1>1. d \in Chained(rows) /\ Cardinality(After(d)) < n
  BY Zenon DEF Newest
<1>2. Chained(rows) \subseteq rows
  BY Zenon DEF Chained
<1>3. After(e) \subseteq After(d) /\ After(d) \subseteq rows
  BY <1>1, <1>2, BeforeIsOrder, Zenon
<1> HIDE DEF After
<1>4. IsFiniteSet(After(d))
  BY <1>3, FS_Subset, Zenon
<1>5. IsFiniteSet(After(e)) /\ Cardinality(After(e)) <= Cardinality(After(d))
  BY <1>3, <1>4, FS_Subset, Zenon
<1>6. Cardinality(After(e)) \in Nat /\ Cardinality(After(d)) \in Nat
  BY <1>4, <1>5, FS_CardinalityType, Zenon
<1>7. Cardinality(After(e)) < n
  BY <1>1, <1>5, <1>6
<1> QED
  BY <1>7, Zenon DEF Newest, After

LEMMA AcceptsWhatIsRecorded ==
  ASSUME RowInv, ChainInv, IsFiniteSet(log)
  PROVE  ChainVerifies
<1>1. ASSUME ~forked, ~setBack PROVE Verify(log)
  BY <1>1, Zenon DEF ChainInv, Chainable
<1>2. ASSUME Verify(log), NEW n \in 1 .. Cardinality(log) PROVE VerifyTail(log, n)
  <2>1. n \in Nat /\ Newest(log, n) \subseteq Chained(log)
    BY DEF Newest
  <2>2. \A d \in Newest(log, n), e \in Chained(log) : Before(d, e) => e \in Newest(log, n)
    BY <2>1, TailIsUpward, LogIsTable, Zenon
  <2> QED
    BY <1>2, <2>1, <2>2, TailWalks, Zenon DEF VerifyTail
<1> QED
  BY <1>1, <1>2, Zenon DEF ChainVerifies

-----------------------------------------------------------------------------
(* The theorems                                                            *)

LEMMA InitFinite ==
  ASSUME Init
  PROVE  IsFiniteSet(log)
<1>1. log = {} \/ log = {Legacy}
  BY Zenon DEF Init
<1>2. IsFiniteSet({}) /\ IsFiniteSet({Legacy})
  BY FS_EmptySet, FS_Singleton, Zenon
<1> QED
  BY <1>1, <1>2, Zenon

LEMMA NextFinite ==
  ASSUME Shape, RowInv, IsFiniteSet(log), NEW t \in Tool, ToolStep(t)
  PROVE  IsFiniteSet(log')
<1>1. log' = log \/ RecordInsert(t)
  BY Steps, LoadKeypairDoes, SaveKeypairDoes, LoadDoes, SaveBeginDoes, SaveEndDoes,
     RecordStartDoes, RecordSelectDoes, Zenon DEF Leaves, Passes, Changed, feedVars
<1>2. CASE log' = log
  BY <1>2, Zenon
<1>3. CASE RecordInsert(t)
  <2>1. log' = log \cup entry[t] /\ (entry[t] = {} \/ \E e : entry[t] = {e})
    BY <1>3, RecordInsertDoes, Zenon DEF RowInv, Row
  <2>2. CASE entry[t] = {}
    BY <2>1, <2>2, Zenon
  <2>3. ASSUME NEW e, entry[t] = {e} PROVE IsFiniteSet(log')
    BY <2>1, <2>3, FS_AddElement, Zenon
  <2> QED
    BY <2>1, <2>2, <2>3, Zenon
<1> QED
  BY <1>1, <1>2, <1>3, Zenon

LEMMA Invariance == Spec => []IInv
<1>1. Init => IInv
  BY InitShape, InitKey, InitFlag, InitSave, InitFeed, InitFinite, Zenon DEF IInv
<1>2. IInv /\ [Next]_vars => IInv'
  <2> SUFFICES ASSUME IInv, [Next]_vars PROVE IInv'
    OBVIOUS
  <2>1. ASSUME NEW t \in Tool, ToolStep(t) PROVE IInv'
    BY <2>1, SkillProcessesAssumption, NextShape, NextKey, NextFlag, NextSave, NextFeed,
       NextFinite, Zenon DEF IInv
  <2> QED
    BY <2>1, NextIsToolStep, StutterInv, Zenon
<1> QED
  BY <1>1, <1>2, PTL DEF Spec

LEMMA InvImplies ==
  ASSUME IInv
  PROVE  /\ SavedStays /\ PassthroughCleared /\ OneIdentity
         /\ ChainVerifies /\ ChangeIsDetected
BY SaveImplies, KeyImplies, AcceptsWhatIsRecorded, ReportsChanges, Zenon DEF IInv, FlagInv

(* A change that a tool saved stays in connections.json unless another     *)
(* tool loaded the file before the last write of one that was at it, or a  *)
(* process was killed while it wrote.                                      *)
THEOREM SavedChangesStay == Spec => []SavedStays
BY Invariance, InvImplies, PTL

(* The passthrough flag that pinch-intervene left behind never comes back  *)
(* once a later tool has cleared it, with any overlap of saves and kills.  *)
THEOREM NoStuckPassthrough == Spec => []PassthroughCleared
BY Invariance, InvImplies, PTL

(* All tools of an agent use one keypair, also when one is killed while it *)
(* writes keypair.json, unless two generated one side by side.             *)
THEOREM AgentHasOneIdentity == Spec => []OneIdentity
BY Invariance, InvImplies, PTL

(* pinch-audit-verify accepts what record() wrote, in full and with every  *)
(* --tail, unless two tools recorded at the same time or in the same       *)
(* millisecond, or the clock was set back.                                 *)
THEOREM RecordedChainVerifies == Spec => []ChainVerifies
BY Invariance, InvImplies, PTL

(* pinch-audit-verify reports a changed action or time of any entry of a   *)
(* chain that verified, and the loss of any entry but the newest.          *)
THEOREM ChangesAreReported == Spec => []ChangeIsDetected
BY Invariance, InvImplies, PTL
=============================================================================
