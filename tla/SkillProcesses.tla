--------------------------- MODULE SkillProcesses ---------------------------
(***************************************************************************)
(* The tools of one agent, each a process of its own, on the files they    *)
(* share: keypair.json, connections.json and the activity feed in SQLite.  *)
(* Every tool bootstraps (keypair, load, clear the passthrough flags,      *)
(* save, log in), changes one connection, saves, records what it did, and  *)
(* ends. Nothing locks the files; writeFile truncates and then writes.     *)
(*                                                                         *)
(* A change is named after the tool run that makes it.                     *)
(***************************************************************************)
EXTENDS AuditChain

CONSTANTS
  Tool,      \* tool runs
  MaxAlive,  \* bound: runs at the same time
  MaxClock,  \* bound on the wall clock, in milliseconds
  MaxId,     \* bound on the ids uuidv7() draws
  MaxFaults  \* bound: processes killed, clocks set back

ASSUME SkillProcessesAssumption ==
  /\ MaxAlive \in Nat \ {0} /\ MaxClock \in Nat \ {0}
  /\ MaxId \in Nat /\ MaxFaults \in Nat

VARIABLES
  pc,        \* where each run is
  kind,      \* which tool it is, once it has started
  store,     \* its ConnectionStore
  keyOf,     \* the keypair it uses, {} before
  entry,     \* the feed entry it is about to insert
  file,      \* connections.json
  mixed,     \* writers overtaken by another write since they truncated
  keyfile,   \* keypair.json
  log,       \* table activity_events
  online,    \* the run that is logged in at the relay
  clock, faults,
  saved,     \* history: runs whose change was saved
  after,     \* history: for each run, the runs that had saved when it loaded
  disturbed, \* history: a run loaded while another was between load and save,
             \* or a process was killed while it wrote
  keyRaced,  \* history: two runs generated a keypair side by side
  forked,    \* history: two runs were recording at the same time, or recorded
             \* in the same millisecond
  setBack    \* history: the clock was set back

procVars == <<pc, kind, store, keyOf, entry>>
fileVars == <<file, mixed, keyfile, log, online>>
pastVars == <<saved, after, disturbed, keyRaced, forked, setBack>>
vars == <<procVars, fileVars, clock, faults, pastVars>>

-----------------------------------------------------------------------------
Kind == {"mute", "intervene", "permissions"}

(* What a store holds: whether it knows the connection, the changes in it, *)
(* and the run whose passthrough flag is set.                              *)
Empty == [known |-> FALSE, changes |-> {}, passthrough |-> {}]

Legacy == [id |-> 0, at |-> 0, what |-> {}, prev |-> <<>>, hash |-> <<>>]

Init ==
  /\ pc = [t \in Tool |-> "off"]
  /\ kind = [t \in Tool |-> "mute"]
  /\ store = [t \in Tool |-> Empty]
  /\ keyOf = [t \in Tool |-> {}]
  /\ entry = [t \in Tool |-> {}]
  /\ file = [ok |-> TRUE, store |-> [Empty EXCEPT !.known = TRUE]]
  /\ mixed = {}
  /\ keyfile = [ok |-> FALSE, key |-> {}]
  /\ log \in {{}, {Legacy}}
  /\ online = {}
  /\ clock = 1 /\ faults = 0
  /\ saved = {} /\ after = [t \in Tool |-> {}]
  /\ disturbed = FALSE /\ keyRaced = FALSE /\ forked = FALSE /\ setBack = FALSE

Goto(t, l) == pc' = [pc EXCEPT ![t] = l]
End(t) ==
  /\ Goto(t, "end")
  /\ store' = [store EXCEPT ![t] = Empty]
  /\ entry' = [entry EXCEPT ![t] = {}]
  /\ after' = [after EXCEPT ![t] = {}]
At(t, l) == pc[t] = l
Others(t, ls) == \E u \in Tool \ {t} : pc[u] \in ls

Fault == faults < MaxFaults /\ faults' = faults + 1

-----------------------------------------------------------------------------
(* bootstrap() and bootstrapLocal()                                        *)

(* A tool starts: loadKeypair(), or generateKeypair() when that throws, as *)
(* it does for a missing file and for one that does not parse.             *)
LoadKeypair(t) ==
  /\ At(t, "off")
  /\ Cardinality({u \in Tool : pc[u] \notin {"off", "end"}}) < MaxAlive
  /\ \E k \in Kind : kind' = [kind EXCEPT ![t] = k]
  /\ IF keyfile.ok
     THEN /\ keyOf' = [keyOf EXCEPT ![t] = keyfile.key]
          /\ Goto(t, "load")
          /\ UNCHANGED <<keyfile, keyRaced>>
     ELSE /\ Goto(t, "saveKeypair")
          /\ keyfile' = [ok |-> FALSE, key |-> {}]
          /\ keyRaced' = (keyRaced \/ Others(t, {"saveKeypair"}))
          /\ UNCHANGED keyOf
  /\ UNCHANGED <<store, entry, file, mixed, log, online, clock, faults,
                 saved, after, disturbed, forked, setBack>>

SaveKeypairBug(t) ==
  /\ At(t, "saveKeypair")
  /\ keyOf' = [keyOf EXCEPT ![t] = {t}]
  /\ Goto(t, "load")
  /\ UNCHANGED <<kind, store, entry, fileVars, clock, faults, pastVars>>

SaveKeypair(t) ==
  /\ At(t, "saveKeypair")
  /\ keyOf' = [keyOf EXCEPT ![t] = {t}]
  /\ keyfile' = [ok |-> TRUE, key |-> {t}]
  /\ Goto(t, "load")
  /\ UNCHANGED <<kind, store, entry, file, mixed, log, online, clock,
                 faults, pastVars>>

LoadBug(t) ==
  /\ At(t, "load")
  /\ store' = [store EXCEPT ![t] = IF file.ok THEN file.store ELSE Empty]
  /\ Goto(t, "clear")
  /\ after' = [after EXCEPT ![t] = saved]
  /\ disturbed' = (disturbed \/ ~file.ok
                     \/ Others(t, {"clear", "clearing", "login", "act", "save",
                                   "saving"}))
  /\ UNCHANGED <<kind, keyOf, entry, fileVars, clock, faults, saved,
                 keyRaced, forked, setBack>>

(* ConnectionStore.load: a file that is missing or does not parse is taken *)
(* for an empty store. clearPassthroughFlags follows, and saves.           *)
Load(t) ==
  /\ At(t, "load")
  /\ store' = [store EXCEPT ![t] =
                 IF file.ok THEN [file.store EXCEPT !.passthrough = {}]
                 ELSE Empty]
  /\ Goto(t, "clear")
  /\ after' = [after EXCEPT ![t] = saved]
  /\ disturbed' = (disturbed \/ ~file.ok
                     \/ Others(t, {"clear", "clearing", "login", "act", "save",
                                   "saving"}))
  /\ UNCHANGED <<kind, keyOf, entry, fileVars, clock, faults, saved,
                 keyRaced, forked, setBack>>

(* save(): writeFile truncates the file, then writes what it serialised.   *)
(* Bytes of a write in between may be left behind the shorter of the two.  *)
SaveBegin(t) ==
  /\ pc[t] \in {"clear", "save"}
  /\ Goto(t, IF At(t, "clear") THEN "clearing" ELSE "saving")
  /\ file' = [ok |-> FALSE, store |-> Empty]
  /\ UNCHANGED <<kind, store, keyOf, entry, mixed, keyfile, log, online, clock,
                 faults, pastVars>>

Recorded == {"mute", "intervene"}

SaveEnd(t) ==
  /\ pc[t] \in {"clearing", "saving"}
  /\ \/ file' = [ok |-> TRUE, store |-> store[t]]
     \/ t \in mixed /\ file' = [ok |-> FALSE, store |-> Empty]
  /\ mixed' = {u \in Tool \ {t} : u \in mixed \/ pc[u] \in {"clearing", "saving"}}
  /\ Goto(t, IF At(t, "clearing") THEN "login"
             ELSE IF kind[t] \in Recorded THEN "record" ELSE "exit")
  /\ saved' = IF At(t, "saving") THEN saved \cup {t} ELSE saved
  /\ UNCHANGED <<kind, store, keyOf, entry, keyfile, log, online, clock,
                 faults, after, disturbed, keyRaced, forked, setBack>>

(* relayClient.connect(): refused while another run of the agent is logged *)
(* in; pinch-permissions stays local.                                      *)
Login(t) ==
  /\ At(t, "login")
  /\ \/ /\ kind[t] = "permissions" \/ online = {}
        /\ online' = IF kind[t] = "permissions" THEN online ELSE {t}
        /\ Goto(t, "act")
        /\ UNCHANGED <<store, entry, after>>
     \/ /\ kind[t] # "permissions" /\ online # {}
        /\ End(t)
        /\ UNCHANGED online
  /\ UNCHANGED <<kind, keyOf, file, mixed, keyfile, log, clock, faults,
                 saved, disturbed, keyRaced, forked, setBack>>

-----------------------------------------------------------------------------
(* What the tool does                                                      *)

(* The store is changed in memory, and the save comes next.                *)
Changes(t, new) ==
  /\ At(t, "act") /\ store[t].known
  /\ store' = [store EXCEPT ![t] = new]
  /\ Goto(t, "save")
  /\ UNCHANGED <<kind, keyOf, entry, fileVars, clock, faults, pastVars>>

(* The tool ends without a change: the store does not know the connection, *)
(* or setPermissions() refuses the manifest.                               *)
GivesUp(t) ==
  /\ At(t, "act") /\ (~store[t].known \/ kind[t] = "permissions")
  /\ Goto(t, "exit")
  /\ UNCHANGED <<kind, store, keyOf, entry, fileVars, clock, faults,
                 pastVars>>

Mute(t) ==
  kind[t] = "mute" /\ Changes(t, [store[t] EXCEPT !.changes = @ \cup {t}])

Intervene(t) ==
  kind[t] = "intervene" /\ Changes(t, [store[t] EXCEPT !.passthrough = {t}])

EditPermissionsBug(t) ==
  kind[t] = "permissions" /\ Changes(t, [store[t] EXCEPT !.changes = {t}])

EditPermissions(t) ==
  kind[t] = "permissions" /\ Changes(t, [store[t] EXCEPT !.changes = @ \cup {t}])

(* The wall clock record() reads: it goes on, or was set back.             *)
ReadClock ==
  \/ /\ clock' \in clock .. MaxClock
     /\ UNCHANGED <<setBack, faults>>
  \/ /\ clock' \in 0 .. clock - 1 /\ Fault
     /\ setBack' = TRUE

(* ActivityFeed.record draws an id and reads the clock, then reads the     *)
(* newest hash, then inserts the entry that links to it, in statements of  *)
(* their own and no transaction. The ids of two processes in one           *)
(* millisecond are in no particular order.                                 *)
RecordStart(t) ==
  /\ At(t, "record")
  /\ ReadClock
  /\ \E i \in (1 .. MaxId) \ {e.id : e \in log \cup UNION {entry[u] : u \in Tool}} :
       entry' = [entry EXCEPT ![t] = {[id |-> i, at |-> clock', what |-> {t},
                                       prev |-> <<>>, hash |-> <<>>]}]
  /\ forked' = (forked \/ Others(t, {"select", "insert"}) \/ \E e \in log : e.at = clock')
  /\ Goto(t, "select")
  /\ UNCHANGED <<kind, store, keyOf, fileVars, saved, after, disturbed, keyRaced>>

RecordSelect(t) ==
  /\ At(t, "select")
  /\ entry' = [entry EXCEPT ![t] = {Linked(e, LastHash(log)) : e \in entry[t]}]
  /\ Goto(t, "insert")
  /\ UNCHANGED <<kind, store, keyOf, fileVars, clock, faults, pastVars>>

RecordInsert(t) ==
  /\ At(t, "insert")
  /\ log' = log \cup entry[t]
  /\ entry' = [entry EXCEPT ![t] = {}]
  /\ Goto(t, "exit")
  /\ UNCHANGED <<kind, store, keyOf, file, mixed, keyfile, online, clock,
                 faults, pastVars>>

(* shutdown() and shutdownLocal().                                         *)
Shutdown(t) ==
  /\ At(t, "exit")
  /\ online' = online \ {t}
  /\ End(t)
  /\ UNCHANGED <<kind, keyOf, file, mixed, keyfile, log, clock, faults,
                 saved, disturbed, keyRaced, forked, setBack>>

-----------------------------------------------------------------------------
(* A process is killed, anywhere.                                          *)
Kill(t) ==
  /\ pc[t] \notin {"off", "end"} /\ Fault
  /\ End(t)
  /\ online' = online \ {t}
  /\ mixed' = mixed \ {t}
  /\ disturbed' = (disturbed \/ pc[t] \in {"clearing", "saving"})
  /\ UNCHANGED <<kind, keyOf, file, keyfile, log, clock, saved, keyRaced,
                 forked, setBack>>

Next ==
  \E t \in Tool :
    \/ LoadKeypair(t) \/ SaveKeypair(t) \/ Load(t) \/ SaveBegin(t) \/ SaveEnd(t)
    \/ Login(t) \/ Mute(t) \/ Intervene(t) \/ EditPermissions(t) \/ GivesUp(t)
    \/ RecordStart(t) \/ RecordSelect(t) \/ RecordInsert(t)
    \/ Shutdown(t) \/ Kill(t)

Spec == Init /\ [][Next]_vars

-----------------------------------------------------------------------------
(* Properties                                                              *)

(* A change that was saved stays in connections.json, and in what the tool *)
(* writing it is about to write, as long as no tool loads the file between *)
(* another one's load and its last write, and none is killed while it      *)
(* writes. Overlaps and kills anywhere else do no harm.                    *)
SavedStays ==
  ~disturbed =>
    LET kept == {t \in saved : kind[t] # "intervene"}
    IN  IF file.ok THEN kept \subseteq file.store.changes
        ELSE \E t \in Tool : /\ pc[t] \in {"clearing", "saving"}
                             /\ kept \subseteq store[t].changes

(* No passthrough flag is stuck: once a tool is past its bootstrap, the    *)
(* flag of an intervention that was saved before that tool loaded is not   *)
(* in the file again, whatever the others write, and whoever is killed.    *)
PassthroughCleared ==
  \A t \in Tool :
    /\ pc[t] \in {"login", "act", "save", "record", "select", "insert", "exit"}
    /\ file.ok
    => file.store.passthrough \cap after[t] = {}

(* The agent keeps its identity: all tools that got through the keypair    *)
(* step use one keypair, also after a kill within saveKeypair(), unless    *)
(* two found none at the same time.                                        *)
OneIdentity ==
  ~keyRaced => \A t, u \in Tool : keyOf[t] # {} /\ keyOf[u] # {} => keyOf[t] = keyOf[u]

(* pinch-audit-verify accepts what record() wrote, in full and for every   *)
(* --tail, on top of rows older than the chain, unless two processes       *)
(* recorded at the same time or in the same millisecond, or the clock was  *)
(* set back.                                                               *)
ChainVerifies ==
  ~forked /\ ~setBack =>
    Verify(log) /\ \A n \in 1 .. Cardinality(log) : VerifyTail(log, n)

(* In a chain that verifies, an entry whose recorded action or time was    *)
(* changed, and a missing entry other than the newest, is reported.        *)
ChangeIsDetected ==
  Verify(log) =>
    \A e \in Chained(log) :
      /\ ~Verify((log \ {e}) \cup {[e EXCEPT !.what = {}]})
      /\ ~Verify((log \ {e}) \cup {[e EXCEPT !.at = @ + 1]})
      /\ (\E d \in Chained(log) : Before(e, d)) => ~Verify(log \ {e})
=============================================================================
