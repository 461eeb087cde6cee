------------------------------ MODULE Install -------------------------------
(***************************************************************************)
(* One installation: its data directory, its vault and its application.    *)
(*                                                                         *)
(* The dispatcher with its lifecycle lock and uninstall fence              *)
(* (bank_feed_server.py), the ledger file with its open lock, schema and   *)
(* install marker (store.py), the setup ladder (tools_auth.py), the vault  *)
(* items and the record of their creation (opvault.py), the exports        *)
(* (casa_handoff.py), and the two erasers an uninstall runs                *)
(* (tools_destructive.py).                                                 *)
(*                                                                         *)
(* Every process is one server, started in one mode, serving one call at a *)
(* time; any of them may die between two steps.  An `op item create` runs  *)
(* in a child that survives its server and holds the server's lock.  What  *)
(* a child does is decided when it ends.  `sc` is the scenario, chosen     *)
(* once (see MCInstall).                                                   *)
(***************************************************************************)
EXTENDS Integers, FiniteSets

CONSTANTS Procs, Nobody, Scenarios

\* A scenario lets some of the servers take calls of the tools that are here.
ASSUME InstallAssumption ==
  /\ Nobody \notin Procs
  /\ \A s \in Scenarios :
       /\ s.procs \subseteq Procs
       /\ s.tools \subseteq {"setup", "signin", "accept", "write", "daily", "export",
                             "erase_all", "erase_data"}

VARIABLES
  sc,       \* the scenario
  disk,     \* the plugin data directory and the handoff folder
  vault,    \* the items in 1Password
  panel,    \* the applications registered at the provider
  proc,     \* the call each server is in
  opener,   \* who holds the open lock
  kids,     \* `op item create` children that have not ended
  issued,   \* numbers handed out: instances, nonces, applications
  left,     \* what remains of the scenario's bounds
  hist      \* history the properties speak of; no action reads it

vars == <<sc, disk, vault, panel, proc, opener, kids, issued, left, hist>>

Modes == {"PRODUCTION", "SANDBOX"}
Other(m) == CHOOSE n \in Modes : n # m

Tables == 3      \* statements of the schema: meta, accounts, the rest
Current == 2     \* SCHEMA_VERSION
LiteralKey == 91 \* a key wired as text: its only copy is the environment

NoLedger == [there |-> FALSE, tables |-> 0, version |-> 0, instance |-> 0, data |-> FALSE,
             fence |-> FALSE, app |-> 0, accepted |-> 0, consents |-> FALSE]
NoRecord == [lines |-> {}, torn |-> FALSE, copy |-> FALSE]

Down == [pc |-> "down", next |-> "", tool |-> "", mode |-> "PRODUCTION", conn |-> FALSE,
         lock |-> "none", envkey |-> 0, envapp |-> 0, source |-> "", key |-> 0, item |-> "",
         nonce |-> 0, rec |-> 0, seen |-> {}, kept |-> {}, ok |-> TRUE, why |-> ""]

KeyItem(m) == <<m, "key">>
CredItem(m) == <<m, "credential">>
Items(title) == {i \in vault : i.title = title}

Ledger(p) == disk.ledger[proc[p].mode]
WriteLedger(p, new) == disk' = [disk EXCEPT !.ledger[proc[p].mode] = new]

Goto(p, pc) == proc' = [proc EXCEPT ![p].pc = pc]

\* The call returns: its lock and what it held in memory are gone, the
\* connection stays.
Ended(p, why) ==
  [Down EXCEPT !.pc = "idle", !.mode = proc[p].mode, !.conn = proc[p].conn,
               !.envkey = proc[p].envkey, !.envapp = proc[p].envapp,
               !.tool = proc[p].tool, !.why = why]
Return(p, why) == proc' = [proc EXCEPT ![p] = Ended(p, why)]

\* Something outside answers with an error: 1Password, the provider, the disk.
Fault == left.faults > 0 /\ left' = [left EXCEPT !.faults = @ - 1]

-----------------------------------------------------------------------------
(* Servers start, take calls and die.                                      *)

\* The environment is resolved once, when casa starts the server: a reference
\* by what the vault holds then, a wired application id as it was recorded.
Spawn(p, mode) ==
  LET items == Items(KeyItem(mode))
      resolved == IF Cardinality(items) = 1 THEN (CHOOSE i \in items : TRUE).key ELSE 0
  IN /\ proc[p].pc = "down" /\ mode \in sc.modes
     /\ proc' = [proc EXCEPT ![p] = [Down EXCEPT
          !.pc = "idle", !.mode = mode,
          !.envkey = CASE sc.wiring = "reference" -> resolved
                       [] sc.wiring = "literal" -> LiteralKey
                       [] OTHER -> 0,
          !.envapp = IF sc.wiring = "none" THEN 0 ELSE disk.ledger[mode].app]]
     /\ UNCHANGED <<sc, disk, vault, panel, opener, kids, issued, left, hist>>

\* Death at any point: the kernel drops the locks of the process, not those of
\* its children.
Crash(p) ==
  /\ proc[p].pc # "down" /\ left.crashes > 0
  /\ left' = [left EXCEPT !.crashes = @ - 1]
  /\ proc' = [proc EXCEPT ![p] = Down]
  /\ opener' = IF opener = p THEN Nobody ELSE opener
  /\ UNCHANGED <<sc, disk, vault, panel, kids, issued, hist>>

Call(p, tool) ==
  /\ proc[p].pc = "idle" /\ tool \in sc.tools /\ left.calls > 0
  /\ proc' = [proc EXCEPT ![p].pc = "lock", ![p].tool = tool, ![p].why = ""]
  /\ left' = [left EXCEPT !.calls = @ - 1]
  /\ UNCHANGED <<sc, disk, vault, panel, opener, kids, issued, hist>>

-----------------------------------------------------------------------------
(* The dispatcher.                                                         *)

\* Mutant of Exclusive: the clean slate shares the directory.
ExclusiveButTheSlate == {"erase_data", "daily"}

\* daily_sync, like unlink_bank, keeps every other call out (EXCLUSIVE_TOOLS).
Exclusive == {"erase_all", "erase_data", "daily"}

\* Mutant of FenceExempt: a writer may pass too.
FenceExemptWriters == {"erase_all", "erase_data", "setup", "signin", "daily"}
FenceExempt == {"erase_all", "erase_data", "setup", "signin"}

\* The tools that read and record which application is ours.
Binding == {"setup", "signin", "accept"}

\* Mutant of LockFree: the children of a dead server hold nothing.
LockFreeOfServers(p) ==
  IF proc[p].tool \in Exclusive THEN \A q \in Procs \ {p} : proc[q].lock = "none"
  ELSE \A q \in Procs \ {p} : proc[q].lock # "ex"

\* flock on the data directory.  Every `op` child has inherited the shared
\* lock of the call that started it.
LockFree(p) ==
  IF proc[p].tool \in Exclusive
  THEN kids = {} /\ \A q \in Procs \ {p} : proc[q].lock = "none"
  ELSE \A q \in Procs \ {p} : proc[q].lock # "ex"

TakeLock(p) ==
  /\ proc[p].pc = "lock" /\ LockFree(p)
  /\ proc' = [proc EXCEPT ![p].lock = IF proc[p].tool \in Exclusive THEN "ex" ELSE "sh",
                          ![p].pc = "mode"]
  /\ hist' = [hist EXCEPT !.overlap = @ \/
       /\ proc[p].tool \in Binding
       /\ \E q \in Procs \ {p} : proc[q].lock # "none" /\ proc[q].tool \in Binding]
  /\ UNCHANGED <<sc, disk, vault, panel, opener, kids, issued, left>>

Busy(p) ==
  /\ proc[p].pc = "lock" /\ ~LockFree(p)
  /\ Return(p, "busy")
  /\ UNCHANGED <<sc, disk, vault, panel, opener, kids, issued, left, hist>>

\* Mutant of Ours: only the marker is asked.
OursByMarker(m) == disk.marker \in {"absent", m}

\* check_mode_marker: the other mode's ledger refuses first and whatever the
\* marker says; a marker that cannot be read as one of the modes refuses.
Ours(m) == ~disk.ledger[Other(m)].there /\ disk.marker \in {"absent", m}

CheckMode(p) ==
  /\ proc[p].pc = "mode"
  /\ IF Ours(proc[p].mode) THEN Goto(p, "fence") ELSE Return(p, "other world")
  /\ UNCHANGED <<sc, disk, vault, panel, opener, kids, issued, left, hist>>

\* Where the tool begins, and whether it opens the ledger first.
Body(tool) == CASE tool = "setup" -> "lift" [] tool = "signin" -> "key"
                [] tool \in {"write", "daily"} -> "write" [] tool = "export" -> "stage"
                [] tool = "accept" -> "vanished" [] OTHER -> "rows"
Opened(p, next) ==
  IF proc[p].conn THEN Goto(p, next)
  ELSE proc' = [proc EXCEPT ![p].pc = "open", ![p].next = next]

CheckFence(p) ==
  /\ proc[p].pc = "fence"
  /\ CASE proc[p].tool \notin FenceExempt /\ Ledger(p).fence -> Return(p, "fenced")
       [] proc[p].tool \in {"setup", "signin"} -> Goto(p, Body(proc[p].tool))
       [] OTHER -> Opened(p, Body(proc[p].tool))
  /\ UNCHANGED <<sc, disk, vault, panel, opener, kids, issued, left, hist>>

-----------------------------------------------------------------------------
(* Opening the ledger, under the open lock.                                *)

\* Mutant of Refuse: an error on the way leaves the open lock held.
RefuseHolding(p, why) == Return(p, why) /\ UNCHANGED opener
Refuse(p, why) == Return(p, why) /\ opener' = Nobody

TakeOpenLock(p) ==
  /\ proc[p].pc = "open" /\ opener = Nobody
  /\ IF Ours(proc[p].mode) THEN opener' = p /\ Goto(p, "file") ELSE Refuse(p, "other world")
  /\ UNCHANGED <<sc, disk, vault, panel, kids, issued, left, hist>>

OpenBusy(p) ==
  /\ proc[p].pc = "open" /\ opener # Nobody
  /\ Return(p, "busy")
  /\ UNCHANGED <<sc, disk, vault, panel, opener, kids, issued, left, hist>>

\* The file is created empty; no meta table means a fresh file, a meta table
\* without a version row counts as version 0.
OpenFile(p) ==
  LET l == Ledger(p)
  IN /\ proc[p].pc = "file"
     /\ WriteLedger(p, [l EXCEPT !.there = TRUE])
     /\ CASE l.tables = 0 -> Goto(p, "schema") /\ UNCHANGED opener
          [] l.tables > 0 /\ l.version > Current -> Refuse(p, "newer")
          [] l.tables > 0 /\ l.version = Current -> Goto(p, "mint") /\ UNCHANGED opener
          [] OTHER -> Goto(p, "snapshot") /\ UNCHANGED opener
     /\ UNCHANGED <<sc, vault, panel, kids, issued, left, hist>>

\* Mutant of SchemaStep: the version is stamped with the first table.
SchemaStepStamped(l) ==
  IF l.tables < Tables THEN [l EXCEPT !.tables = @ + 1, !.version = Current]
  ELSE [l EXCEPT !.version = Current]

\* A fresh ledger's schema: every statement commits by itself, the version
\* stamp last.
SchemaStep(l) ==
  IF l.tables < Tables THEN [l EXCEPT !.tables = @ + 1] ELSE [l EXCEPT !.version = Current]

Schema(p) ==
  /\ proc[p].pc = "schema"
  /\ WriteLedger(p, SchemaStep(Ledger(p)))
  /\ Goto(p, IF Ledger(p).tables < Tables THEN "schema" ELSE "mint")
  /\ UNCHANGED <<sc, vault, panel, opener, kids, issued, left, hist>>

Snapshot(p) ==
  /\ proc[p].pc = "snapshot"
  /\ \/ disk' = [disk EXCEPT !.snapshots = TRUE] /\ Goto(p, "migrate")
        /\ UNCHANGED <<opener, left>>
     \/ Fault /\ Refuse(p, "snapshot failed") /\ UNCHANGED disk
  /\ UNCHANGED <<sc, vault, panel, kids, issued, hist>>

\* One transaction: schema, migrations, stamp.  Whether the column is missing
\* is read before it; with no accounts table yet the schema creates the table
\* with the column and the ALTER then fails.
Migrate(p) ==
  /\ proc[p].pc = "migrate"
  /\ \/ /\ Ledger(p).tables = 1
        /\ Refuse(p, "duplicate column") /\ UNCHANGED <<disk, left>>
     \/ /\ Ledger(p).tables > 1
        /\ WriteLedger(p, [Ledger(p) EXCEPT !.tables = Tables, !.version = Current])
        /\ Goto(p, "mint") /\ UNCHANGED <<opener, left>>
     \/ Fault /\ Refuse(p, "migration failed") /\ UNCHANGED disk
  /\ UNCHANGED <<sc, vault, panel, kids, issued, hist>>

\* The instance id, when absent; a busy ledger is opened without one.
Mint(p) ==
  /\ proc[p].pc = "mint"
  /\ \/ /\ Ledger(p).instance = 0
        /\ issued' = [issued EXCEPT !.instance = @ + 1]
        /\ WriteLedger(p, [Ledger(p) EXCEPT !.instance = issued.instance + 1])
        /\ UNCHANGED left
     \/ Ledger(p).instance # 0 /\ UNCHANGED <<disk, issued, left>>
     \/ Ledger(p).instance = 0 /\ Fault /\ UNCHANGED <<disk, issued>>
  /\ Goto(p, "mark")
  /\ UNCHANGED <<sc, vault, panel, opener, kids, hist>>

Connected(p) ==
  /\ proc' = [proc EXCEPT ![p].conn = TRUE, ![p].pc = proc[p].next, ![p].next = ""]
  /\ opener' = Nobody

\* commit_mode_marker: created exclusively and then written; an existing one
\* can only be ours, as it was when this open began under the same lock.
Mark(p) ==
  /\ proc[p].pc = "mark"
  /\ \/ /\ disk.marker = "absent"
        /\ disk' = [disk EXCEPT !.marker = "torn"]
        /\ Goto(p, "sign") /\ UNCHANGED opener
     \/ disk.marker # "absent" /\ Ours(proc[p].mode) /\ Connected(p) /\ UNCHANGED disk
  /\ UNCHANGED <<sc, vault, panel, kids, issued, left, hist>>

Sign(p) ==
  /\ proc[p].pc = "sign"
  /\ \/ disk' = [disk EXCEPT !.marker = proc[p].mode] /\ Connected(p) /\ UNCHANGED left
     \/ Fault /\ Refuse(p, "marker not written") /\ UNCHANGED disk
  /\ UNCHANGED <<sc, vault, panel, kids, issued, hist>>

\* A marker with nothing in it refuses every call; the operator removes it.
ClearMarker ==
  /\ disk.marker = "torn" /\ opener = Nobody
  /\ disk' = [disk EXCEPT !.marker = "absent"]
  /\ UNCHANGED <<sc, vault, panel, proc, opener, kids, issued, left, hist>>

-----------------------------------------------------------------------------
(* Calls that write bank data, and exports.                                *)

\* Any fetch or edit; a write under a workflow leaves a backup copy first.
Write(p) ==
  /\ proc[p].pc = "write"
  /\ \E copies \in {disk.copies, TRUE} :
       disk' = [disk EXCEPT !.ledger[proc[p].mode] = [Ledger(p) EXCEPT !.data = TRUE],
                            !.copies = copies]
  /\ Return(p, "ok")
  /\ UNCHANGED <<sc, vault, panel, opener, kids, issued, left, hist>>

\* publish: a staging folder, renamed into place.
Stage(p) ==
  /\ proc[p].pc = "stage"
  /\ disk' = [disk EXCEPT !.staging = TRUE]
  /\ Goto(p, "publish")
  /\ UNCHANGED <<sc, vault, panel, opener, kids, issued, left, hist>>

Publish(p) ==
  /\ proc[p].pc = "publish"
  /\ \/ disk' = [disk EXCEPT !.staging = FALSE, !.published = TRUE] /\ UNCHANGED left
     \/ Fault /\ disk' = [disk EXCEPT !.staging = FALSE]
  /\ Return(p, "ok")
  /\ UNCHANGED <<sc, vault, panel, opener, kids, issued, hist>>

-----------------------------------------------------------------------------
(* The setup ladder: setup_bank_feed, and bank_feed_signin without Lift.   *)

Stop(p) == Return(p, "stopped")

\* setup_bank_feed lifts the uninstall fence of a ledger that is there.
Lift(p) ==
  /\ proc[p].pc = "lift"
  /\ IF Ledger(p).there /\ proc[p].conn
     THEN WriteLedger(p, [Ledger(p) EXCEPT !.fence = FALSE]) /\ Goto(p, "key")
     ELSE /\ UNCHANGED disk
          /\ IF Ledger(p).there THEN Opened(p, "lift") ELSE Goto(p, "key")
  /\ UNCHANGED <<sc, vault, panel, opener, kids, issued, left, hist>>

\* Rung 2 settles on a key; rung 3 needs the ledger.
Resolved(p, source, key) ==
  proc' = [proc EXCEPT ![p].source = source, ![p].key = key,
                       ![p].pc = IF proc[p].conn THEN "cred" ELSE "open",
                       ![p].next = IF proc[p].conn THEN "" ELSE "cred"]

\* Only the explicit answer that there is no such item leads on towards a
\* create: a failed or an ambiguous read stops.
ResolveKey(p) ==
  LET items == Items(KeyItem(proc[p].mode))
  IN /\ proc[p].pc = "key"
     /\ \/ proc[p].envkey # 0 /\ Resolved(p, "env", proc[p].envkey) /\ UNCHANGED left
        \/ proc[p].envkey = 0 /\ Fault /\ Stop(p)
        \/ /\ proc[p].envkey = 0 /\ UNCHANGED left
           /\ CASE items = {} -> Goto(p, "absent")
                [] Cardinality(items) = 1 ->
                     Resolved(p, "vault", (CHOOSE i \in items : TRUE).key)
                [] OTHER -> Stop(p)
     /\ UNCHANGED <<sc, disk, vault, panel, opener, kids, issued, hist>>

\* The second, independent negative before a create.
Towards(p, item) ==
  proc' = [proc EXCEPT ![p].pc = "record", ![p].item = item]

ConfirmAbsent(p) ==
  /\ proc[p].pc = "absent"
  /\ \/ Fault /\ Stop(p)
     \/ Items(KeyItem(proc[p].mode)) # {} /\ Stop(p) /\ UNCHANGED left
     \/ Items(KeyItem(proc[p].mode)) = {} /\ Towards(p, "key") /\ UNCHANGED left
  /\ UNCHANGED <<sc, disk, vault, panel, opener, kids, issued, hist>>

\* What a create that did not come off means: rung 2 stops, rung 3 continues
\* on the credential it holds in memory.
NotCreated(p) == IF proc[p].item = "key" THEN Stop(p) ELSE Goto(p, "app")

\* The record is open under its own lock, a torn tail is cut, and the bytes of
\* the new line start to land.
StartLine(p) ==
  /\ proc[p].pc = "record"
  /\ \A q \in Procs : proc[q].pc # "line"
  /\ disk' = [disk EXCEPT !.record.torn = TRUE]
  /\ issued' = [issued EXCEPT !.nonce = @ + 1]
  /\ proc' = [proc EXCEPT ![p].pc = "line", ![p].nonce = issued.nonce + 1]
  /\ UNCHANGED <<sc, vault, panel, opener, kids, left, hist>>

\* Whole and flushed; or it failed, and cutting it back may fail too.
EndLine(p) ==
  /\ proc[p].pc = "line"
  /\ \/ /\ disk' = [disk EXCEPT !.record.torn = FALSE,
                                !.record.lines = @ \cup {proc[p].nonce}]
        /\ Goto(p, "create") /\ UNCHANGED left
     \/ /\ Fault /\ NotCreated(p)
        /\ \E torn \in BOOLEAN : disk' = [disk EXCEPT !.record.torn = torn]
  /\ UNCHANGED <<sc, vault, panel, opener, kids, issued, hist>>

Child(p) == [title |-> <<proc[p].mode, proc[p].item>>, nonce |-> proc[p].nonce]

Create(p) ==
  /\ proc[p].pc = "create"
  /\ kids' = kids \cup {Child(p)}
  /\ Goto(p, "waiting")
  /\ UNCHANGED <<sc, disk, vault, panel, opener, issued, left, hist>>

\* A child ends, whether or not its server still lives.
ChildEnds(kid) ==
  /\ kids' = kids \ {kid}
  /\ \/ vault' = vault \cup {[title |-> kid.title, nonce |-> kid.nonce, key |-> kid.nonce]}
        /\ UNCHANGED left
     \/ Fault /\ UNCHANGED vault
  /\ UNCHANGED <<sc, disk, panel, proc, opener, issued, hist>>

\* The answer of the create; a timeout or a lost answer looks like a failure.
Answer(p) ==
  LET landed == \E i \in vault : i.nonce = proc[p].nonce
  IN /\ proc[p].pc = "waiting" /\ Child(p) \notin kids
     /\ \/ /\ landed /\ UNCHANGED left
           /\ Goto(p, IF proc[p].item = "key" THEN "readback" ELSE "app")
        \/ landed /\ Fault /\ NotCreated(p)
        \/ ~landed /\ NotCreated(p) /\ UNCHANGED left
     /\ UNCHANGED <<sc, disk, vault, panel, opener, kids, issued, hist>>

\* The read-back, not the create, proves the key.
ReadBack(p) ==
  LET items == Items(KeyItem(proc[p].mode))
  IN /\ proc[p].pc = "readback"
     /\ \/ /\ Cardinality(items) = 1 /\ UNCHANGED left
           /\ Resolved(p, "forged", (CHOOSE i \in items : TRUE).key)
        \/ Cardinality(items) # 1 /\ Stop(p) /\ UNCHANGED left
        \/ Cardinality(items) = 1 /\ Fault /\ Stop(p)
     /\ UNCHANGED <<sc, disk, vault, panel, opener, kids, issued, hist>>

\* Rung 3: no credential; one that mints; or a fresh one to store, for which a
\* missing item is created under the same rule.
Credential(p) ==
  /\ proc[p].pc = "cred"
  /\ \E outcome \in sc.cred :
       CASE outcome = "stop" -> Stop(p)
         [] outcome = "store" /\ Items(CredItem(proc[p].mode)) = {} -> Towards(p, "credential")
         [] OTHER -> Goto(p, "app")
  /\ UNCHANGED <<sc, disk, vault, panel, opener, kids, issued, left, hist>>

-----------------------------------------------------------------------------
(* Rung 4: which application is ours.                                      *)

Bound(p, app) == WriteLedger(p, [Ledger(p) EXCEPT !.app = app])
BoundAlive(p, app) == WriteLedger(p, [Ledger(p) EXCEPT !.app = app, !.accepted = 0])
ProvenAlive(app) == hist' = [hist EXCEPT !.grants = @ \ {app}]

Listing == {a \in panel : a.listed}
LooksOurs(p, a) == a.ours /\ a.world = proc[p].mode
Matches(p) == {a \in proc[p].seen : LooksOurs(p, a)}

\* A wired id is checked for its world and recorded; whether it is alive is not
\* asked, so an acceptance stands.
WiredApp(p) ==
  LET fits == \E a \in Listing : a.id = proc[p].envapp /\ a.world = proc[p].mode
  IN /\ proc[p].pc = "app" /\ proc[p].envapp # 0
     /\ \/ fits /\ Bound(p, proc[p].envapp) /\ Goto(p, "health") /\ UNCHANGED left
        \/ ~fits /\ Stop(p) /\ UNCHANGED <<disk, left>>
        \/ fits /\ Fault /\ Stop(p) /\ UNCHANGED disk
     /\ UNCHANGED <<sc, vault, panel, opener, kids, issued, hist>>

ReadBinding(p) ==
  /\ proc[p].pc = "app" /\ proc[p].envapp = 0
  /\ proc' = [proc EXCEPT ![p].pc = "list", ![p].rec = Ledger(p).app]
  /\ UNCHANGED <<sc, disk, vault, panel, opener, kids, issued, left, hist>>

List(p) ==
  /\ proc[p].pc = "list"
  /\ \/ proc' = [proc EXCEPT ![p].seen = Listing, ![p].pc = "bind"] /\ UNCHANGED left
     \/ Fault /\ Stop(p)
  /\ UNCHANGED <<sc, disk, vault, panel, opener, kids, issued, hist>>

\* The recorded binding is in the list: adopted, or refused when it no longer
\* looks like ours.  Either way it is alive and an acceptance is void.
Recognise(p) ==
  /\ proc[p].pc = "bind"
  /\ \E a \in proc[p].seen :
       /\ a.id = proc[p].rec
       /\ BoundAlive(p, Ledger(p).app) /\ ProvenAlive(a.id)
       /\ IF LooksOurs(p, a) THEN Goto(p, "health") ELSE Stop(p)
  /\ UNCHANGED <<sc, vault, panel, opener, kids, issued, left>>

Accepted(p) == Ledger(p).accepted = proc[p].rec

\* No binding, or one that vanished and may be replaced: search by name.
Search(p) ==
  /\ proc[p].pc = "bind"
  /\ \A a \in proc[p].seen : a.id # proc[p].rec
  /\ IF proc[p].rec # 0 /\ ~Accepted(p) THEN Stop(p)
     ELSE CASE Cardinality(Matches(p)) > 1 -> Stop(p)
            [] Cardinality(Matches(p)) = 1 -> Goto(p, "keyed")
            [] OTHER -> Goto(p, "register")
  /\ UNCHANGED <<sc, disk, vault, panel, opener, kids, issued, left, hist>>

\* Mutant of Mismatch: an application of another key is taken for absent.
MismatchIsAbsent(p) == Goto(p, "register")
Mismatch(p) == Stop(p)

\* A name is not ownership: the key has to authenticate before it is adopted.
Keyed(p) ==
  /\ proc[p].pc = "keyed"
  /\ \E found \in Matches(p) :
       \/ /\ \E a \in panel : a.id = found.id /\ a.listed /\ a.key = proc[p].key
          /\ BoundAlive(p, found.id) /\ ProvenAlive(found.id)
          /\ Goto(p, "health") /\ UNCHANGED left
       \/ /\ \A a \in panel : a.id = found.id => ~a.listed \/ a.key # proc[p].key
          /\ Mismatch(p) /\ UNCHANGED <<disk, left, hist>>
       \/ Fault /\ Stop(p) /\ UNCHANGED <<disk, hist>>
  /\ UNCHANGED <<sc, vault, panel, opener, kids, issued>>

\* Mutant of Rereadable: the environment's key is as good as the vault's.
RereadableAnyway(p) == TRUE

\* A key read from or made in the vault is there; one from the environment has
\* to be found there again.
Rereadable(p) ==
  proc[p].source = "env" =>
    \E i \in vault : Items(KeyItem(proc[p].mode)) = {i} /\ i.key = proc[p].key

\* Made; made with the answer lost; or refused.
Register(p) ==
  LET id == issued.app + 1
      made == [id |-> id, world |-> proc[p].mode, key |-> proc[p].key,
               ours |-> TRUE, listed |-> TRUE]
  IN /\ proc[p].pc = "register"
     /\ \/ ~Rereadable(p) /\ Stop(p) /\ UNCHANGED <<panel, issued, left>>
        \/ /\ Rereadable(p)
           /\ panel' = panel \cup {made}
           /\ issued' = [issued EXCEPT !.app = id]
           /\ \/ proc' = [proc EXCEPT ![p].pc = "verify", ![p].rec = id] /\ UNCHANGED left
              \/ Fault /\ Stop(p)
        \/ Rereadable(p) /\ Fault /\ Stop(p) /\ UNCHANGED <<panel, issued>>
     /\ UNCHANGED <<sc, disk, vault, opener, kids, hist>>

\* The id the answer named must be listed as ours before anything rides it;
\* only now is the acceptance consumed.
Verify(p) ==
  LET shown == \E a \in Listing : a.id = proc[p].rec /\ LooksOurs(p, a)
  IN /\ proc[p].pc = "verify"
     /\ \/ /\ shown /\ BoundAlive(p, proc[p].rec)
           /\ hist' = [hist EXCEPT !.grants = @ \ {Ledger(p).accepted}]
           /\ Goto(p, "health") /\ UNCHANGED left
        \/ ~shown /\ Stop(p) /\ UNCHANGED <<disk, left, hist>>
        \/ Fault /\ Stop(p) /\ UNCHANGED <<disk, hist>>
     /\ UNCHANGED <<sc, vault, panel, opener, kids, issued>>

\* Rungs 5 and 6: the application answers under its own key, the strongest
\* proof that it is alive.
Health(p) ==
  LET items == Items(KeyItem(proc[p].mode))
      key == IF proc[p].envkey # 0 THEN proc[p].envkey
             ELSE IF Cardinality(items) = 1 THEN (CHOOSE i \in items : TRUE).key ELSE 0
      id == IF proc[p].envapp # 0 THEN proc[p].envapp ELSE Ledger(p).app
  IN /\ proc[p].pc = "health"
     /\ \/ /\ \E a \in Listing : a.id = id /\ a.world = proc[p].mode /\ a.key = key
           /\ BoundAlive(p, Ledger(p).app) /\ ProvenAlive(id) /\ UNCHANGED left
        \/ /\ \A a \in Listing : a.id = id => a.world # proc[p].mode \/ a.key # key
           /\ UNCHANGED <<disk, hist, left>>
        \/ Fault /\ UNCHANGED <<disk, hist>>
     /\ Return(p, "ok")
     /\ UNCHANGED <<sc, vault, panel, opener, kids, issued>>

\* accept_app_reregistration, confirmed by the operator: the recorded
\* application must be gone from the list.
Vanished(p) ==
  LET app == Ledger(p).app
      gone == app # 0 /\ \A a \in Listing : a.id # app
  IN /\ proc[p].pc = "vanished"
     /\ \/ /\ gone /\ UNCHANGED left
           /\ proc' = [proc EXCEPT ![p].pc = "accept", ![p].rec = app]
        \/ ~gone /\ Stop(p) /\ UNCHANGED left
        \/ gone /\ Fault /\ Stop(p)
     /\ UNCHANGED <<sc, disk, vault, panel, opener, kids, issued, hist>>

Accept(p) ==
  /\ proc[p].pc = "accept"
  /\ WriteLedger(p, [Ledger(p) EXCEPT !.accepted = proc[p].rec])
  /\ hist' = [hist EXCEPT !.grants = @ \cup {proc[p].rec}]
  /\ Return(p, "ok")
  /\ UNCHANGED <<sc, vault, panel, opener, kids, issued, left>>

-----------------------------------------------------------------------------
(* The two erasers an uninstall runs.                                      *)

\* One of the steps that reports its failure and lets the eraser go on.
Attempt(p, done, next) ==
  \/ disk' = done /\ Goto(p, next) /\ UNCHANGED left
  \/ /\ Fault /\ UNCHANGED disk
     /\ proc' = [proc EXCEPT ![p].pc = next, ![p].ok = FALSE]

\* The row transaction.  delete_all_data keeps the application id, which the
\* withdrawals need; delete_data_keep_signins keeps the binding and its
\* acceptance, and sets the fence.  A failure rolls back and refuses.
Emptied(p) ==
  IF proc[p].tool = "erase_all"
  THEN [Ledger(p) EXCEPT !.data = FALSE, !.fence = FALSE, !.accepted = 0,
                         !.instance = issued.instance + 1]
  ELSE [Ledger(p) EXCEPT !.data = FALSE, !.fence = TRUE, !.instance = issued.instance + 1]

EraseRows(p) ==
  /\ proc[p].pc = "rows"
  /\ \/ /\ WriteLedger(p, Emptied(p))
        /\ issued' = [issued EXCEPT !.instance = @ + 1]
        /\ Goto(p, "copies") /\ UNCHANGED left
     \/ Fault /\ Stop(p) /\ UNCHANGED <<disk, issued>>
  /\ UNCHANGED <<sc, vault, panel, opener, kids, hist>>

EraseCopies(p) ==
  /\ proc[p].pc = "copies"
  /\ Attempt(p, [disk EXCEPT !.copies = FALSE, !.snapshots = FALSE],
             IF proc[p].tool = "erase_all" THEN "withdraw" ELSE "exports")
  /\ UNCHANGED <<sc, vault, panel, opener, kids, issued, hist>>

\* The banks are asked, and the rows of the consents proven gone destroyed.
\* The clean slate runs only if everything before it came off.
Withdraw(p) ==
  LET next(ok) == IF ok THEN "exports" ELSE "reclaim"
  IN /\ proc[p].pc = "withdraw"
     /\ \/ /\ WriteLedger(p, [Ledger(p) EXCEPT !.consents = FALSE])
           /\ Goto(p, next(proc[p].ok)) /\ UNCHANGED left
        \/ /\ Ledger(p).consents /\ Fault /\ UNCHANGED disk
           /\ proc' = [proc EXCEPT ![p].pc = next(FALSE), ![p].ok = FALSE]
     /\ UNCHANGED <<sc, vault, panel, opener, kids, issued, hist>>

EraseExports(p) ==
  /\ proc[p].pc = "exports"
  /\ Attempt(p, [disk EXCEPT !.published = FALSE, !.staging = FALSE],
             IF proc[p].tool = "erase_all" THEN "items" ELSE "residue")
  /\ UNCHANGED <<sc, vault, panel, opener, kids, issued, hist>>

\* The tag of an item this record proves bank-feed created.
Recorded(p, i) == i.nonce \in disk.record.lines

\* erase_recorded: a stale copy and a torn tail go first; each line is dropped
\* once no item carries its tag.  With 1Password failing some lines are kept,
\* whether or not their items went.
Sweep(p) ==
  /\ proc[p].pc = "items"
  /\ disk' = [disk EXCEPT !.record.copy = FALSE, !.record.torn = FALSE]
  /\ \E kept, spared \in SUBSET disk.record.lines :
       /\ spared \subseteq kept
       /\ vault' = {i \in vault : ~Recorded(p, i) \/ i.nonce \in spared}
       /\ proc' = [proc EXCEPT ![p].kept = kept, ![p].pc = "rewrite",
                               ![p].ok = @ /\ kept = {}]
       /\ IF kept = {} THEN UNCHANGED left ELSE Fault
  /\ UNCHANGED <<sc, panel, opener, kids, issued, hist>>

\* The record is replaced whole: a copy with the kept lines, renamed over it,
\* or the file removed.
Rewrite(p) ==
  /\ proc[p].pc = "rewrite"
  /\ \/ /\ proc[p].kept # {} /\ ~disk.record.copy
        /\ disk' = [disk EXCEPT !.record.copy = TRUE]
        /\ UNCHANGED <<proc, left>>
     \/ /\ proc[p].kept = {} \/ disk.record.copy
        /\ disk' = [disk EXCEPT !.record = [NoRecord EXCEPT !.lines = proc[p].kept]]
        /\ Goto(p, "reset") /\ UNCHANGED left
     \/ /\ Fault /\ UNCHANGED disk
        /\ proc' = [proc EXCEPT ![p].pc = "reset", ![p].ok = FALSE]
  /\ UNCHANGED <<sc, vault, panel, opener, kids, issued, hist>>

\* The ledger becomes what a first open creates.
Reset(p) ==
  /\ proc[p].pc = "reset"
  /\ Attempt(p, [disk EXCEPT !.ledger[proc[p].mode] =
                   [Ledger(p) EXCEPT !.app = 0, !.accepted = 0, !.fence = FALSE,
                                     !.instance = issued.instance + 1]], "residue")
  /\ issued' = [issued EXCEPT !.instance = @ + 1]
  /\ UNCHANGED <<sc, vault, panel, opener, kids, hist>>

\* What lies beside the ledger.  The other mode's ledger is never removed, and
\* leaves the erasure incomplete.
Residue(p) ==
  /\ proc[p].pc = "residue"
  /\ \/ /\ disk' = [disk EXCEPT !.snapshots = FALSE] /\ UNCHANGED left
        /\ proc' = [proc EXCEPT ![p].pc = "reclaim",
                                ![p].ok = @ /\ ~disk.ledger[Other(proc[p].mode)].there]
     \/ Fault /\ UNCHANGED disk /\ proc' = [proc EXCEPT ![p].pc = "reclaim", ![p].ok = FALSE]
  /\ UNCHANGED <<sc, vault, panel, opener, kids, issued, hist>>

\* The freed pages, and the verdict casa goes by.
Reclaim(p) ==
  /\ proc[p].pc = "reclaim"
  /\ \/ Return(p, IF proc[p].ok THEN "complete" ELSE "incomplete") /\ UNCHANGED left
     \/ Fault /\ Return(p, "incomplete")
  /\ UNCHANGED <<sc, disk, vault, panel, opener, kids, issued, hist>>

-----------------------------------------------------------------------------
(* The operator and the provider.                                          *)

\* An application disappears from the list, or comes back.
Flap(a) ==
  /\ left.moves > 0 /\ left' = [left EXCEPT !.moves = @ - 1]
  /\ panel' = (panel \ {a}) \cup {[a EXCEPT !.listed = ~@]}
  /\ UNCHANGED <<sc, disk, vault, proc, opener, kids, issued, hist>>

\* An application is renamed in the control panel.
Drift(a) ==
  /\ a.ours /\ a.listed /\ left.moves > 0 /\ left' = [left EXCEPT !.moves = @ - 1]
  /\ panel' = (panel \ {a}) \cup {[a EXCEPT !.ours = FALSE]}
  /\ UNCHANGED <<sc, disk, vault, proc, opener, kids, issued, hist>>

-----------------------------------------------------------------------------
(* How an installation may have begun.                                     *)

Standing == [NoLedger EXCEPT !.there = TRUE, !.tables = Tables, !.version = Current,
                             !.instance = 1, !.data = TRUE]
Disk(ledger, marker, record, files) ==
  [ledger |-> ledger, marker |-> marker, record |-> record, snapshots |-> FALSE,
   copies |-> files, published |-> files, staging |-> FALSE]
OnProduction(l) == [m \in Modes |-> IF m = "PRODUCTION" THEN l ELSE NoLedger]
OurKey(nonce, key) == [title |-> KeyItem("PRODUCTION"), nonce |-> nonce, key |-> key]

\* fresh: nothing yet.  old, newer: another version wrote the ledger.
\* operator: the operator made the key item by hand.  installed: set up and in
\* use, its key item one of ours.
Begun(kind) ==
  LET live == [Standing EXCEPT !.consents = TRUE, !.app = 1]
      old == [Standing EXCEPT !.tables = 2, !.version = 1]
      newer == [Standing EXCEPT !.version = Current + 1]
  IN CASE kind = "old" -> Disk(OnProduction(old), "PRODUCTION", NoRecord, FALSE)
       [] kind = "newer" -> Disk(OnProduction(newer), "PRODUCTION", NoRecord, FALSE)
       [] kind = "installed" -> Disk(OnProduction(live), "PRODUCTION",
                                     [NoRecord EXCEPT !.lines = {1}], TRUE)
       [] OTHER -> Disk(OnProduction(NoLedger), "absent", NoRecord, FALSE)

Init ==
  /\ sc \in Scenarios
  /\ disk = Begun(sc.begun)
  /\ vault = CASE sc.begun = "installed" -> {OurKey(1, 1)}
               [] sc.begun = "operator" -> {OurKey(0, LiteralKey - 1)}
               [] OTHER -> {}
  /\ panel = IF sc.begun = "installed"
             THEN {[id |-> 1, world |-> "PRODUCTION", key |-> 1, ours |-> TRUE, listed |-> TRUE]}
             ELSE {}
  /\ proc = [p \in Procs |-> Down]
  /\ opener = Nobody /\ kids = {}
  /\ issued = [instance |-> 1, nonce |-> 1, app |-> 1]
  /\ left = [calls |-> sc.calls, crashes |-> sc.crashes, faults |-> sc.faults,
             moves |-> sc.moves]
  /\ hist = [overlap |-> FALSE, grants |-> {}]

Step(p) ==
  \/ \E mode \in Modes : Spawn(p, mode)
  \/ Crash(p)
  \/ \E tool \in sc.tools : Call(p, tool)
  \/ TakeLock(p) \/ Busy(p) \/ CheckMode(p) \/ CheckFence(p)
  \/ TakeOpenLock(p) \/ OpenBusy(p) \/ OpenFile(p) \/ Schema(p) \/ Snapshot(p)
  \/ Migrate(p) \/ Mint(p) \/ Mark(p) \/ Sign(p)
  \/ Write(p) \/ Stage(p) \/ Publish(p)
  \/ Lift(p) \/ ResolveKey(p) \/ ConfirmAbsent(p) \/ StartLine(p) \/ EndLine(p)
  \/ Create(p) \/ Answer(p) \/ ReadBack(p) \/ Credential(p)
  \/ WiredApp(p) \/ ReadBinding(p) \/ List(p) \/ Recognise(p) \/ Search(p)
  \/ Keyed(p) \/ Register(p) \/ Verify(p) \/ Health(p) \/ Vanished(p) \/ Accept(p)
  \/ EraseRows(p) \/ EraseCopies(p) \/ Withdraw(p) \/ EraseExports(p) \/ Sweep(p)
  \/ Rewrite(p) \/ Reset(p) \/ Residue(p) \/ Reclaim(p)

Next ==
  \/ \E p \in sc.procs : Step(p)
  \/ \E kid \in kids : ChildEnds(kid)
  \/ \E a \in panel : Flap(a) \/ Drift(a)
  \/ ClearMarker

Spec == Init /\ [][Next]_vars

-----------------------------------------------------------------------------
(* What must hold.                                                         *)

Pcs ==
  [down |-> {"down", "idle", "lock"},
   opening |-> {"file", "schema", "snapshot", "migrate", "mint", "mark", "sign"},
   laddering |-> {"lift", "key", "absent", "record", "line", "create", "waiting", "readback",
                  "cred", "app", "list", "bind", "keyed", "register", "verify", "health",
                  "vanished", "accept"},
   erasing |-> {"rows", "copies", "withdraw", "exports", "items", "rewrite", "reset",
                "residue", "reclaim"},
   other |-> {"mode", "fence", "open", "write", "stage", "publish"}]

\* Types, and who holds what: a call past the lifecycle lock holds it, one that
\* holds it exclusively is alone, and the open lock is held by exactly the
\* process inside store.open_ledger and is let go on every way out of it.
TypeOK ==
  /\ sc \in Scenarios
  /\ \A m \in Modes : LET l == disk.ledger[m] IN
       /\ l.tables \in 0 .. Tables /\ l.version \in 0 .. Current + 1
       /\ l.instance \in 0 .. issued.instance
       /\ {l.app, l.accepted} \subseteq 0 .. issued.app
       /\ {l.there, l.data, l.fence, l.consents} \subseteq BOOLEAN
  /\ disk.marker \in Modes \cup {"absent", "torn"}
  /\ {disk.copies, disk.snapshots, disk.published, disk.staging} \subseteq BOOLEAN
  /\ disk.record.lines \subseteq 1 .. issued.nonce
  /\ {disk.record.torn, disk.record.copy} \subseteq BOOLEAN
  /\ {i.title : i \in vault} \cup {k.title : k \in kids}
       \subseteq Modes \X {"key", "credential"}
  /\ \A a \in panel : a.id \in 1 .. issued.app /\ a.world \in Modes
  /\ opener \in Procs \cup {Nobody}
  /\ \A p \in Procs :
       /\ proc[p].pc \in UNION {Pcs[part] : part \in DOMAIN Pcs}
       /\ (proc[p].lock # "none") <=> (proc[p].pc \notin Pcs.down)
       /\ proc[p].lock = "ex" => \A q \in Procs \ {p} : proc[q].lock = "none"
       /\ proc[p].pc \in Pcs.erasing => proc[p].tool \in {"erase_all", "erase_data"}
       /\ (opener = p) <=> (proc[p].pc \in Pcs.opening)

\* One directory, one world: whatever processes of both modes open, erase and
\* crash, it never holds both ledgers, a signed marker names the only ledger
\* there is, and an open connection is to it (store.check_mode_marker).
OneWorld ==
  /\ ~(\A m \in Modes : disk.ledger[m].there)
  /\ \A m \in Modes : disk.marker = m => ~disk.ledger[Other(m)].there
  /\ \A p \in Procs : proc[p].conn => disk.marker = proc[p].mode

\* A ledger stamped with the current version has every table, however its
\* creation or migration was cut, and no connection is to any other
\* (store._migrate stamps last).
SchemaWhole ==
  /\ \A m \in Modes : disk.ledger[m].version = Current => disk.ledger[m].tables = Tables
  /\ \A p \in Procs : proc[p].conn => Ledger(p).version = Current

\* From the erasure of an uninstall that keeps the sign-ins until setup runs
\* again, no bank data comes back: not into the ledger, not as a copy, not as
\* an export, though calls were already running or queued (the fence of
\* bank_feed_server._fenced, read under the lifecycle lock).
NothingRefills ==
  [][\A m \in Modes : disk'.ledger[m].fence =>
       /\ ~disk'.ledger[m].data
       /\ disk.ledger[m].fence =>
            /\ disk'.copies => disk.copies
            /\ disk'.published => disk.published]_vars

\* Every item bank-feed made in the vault stays recorded until it is gone, also
\* one whose server died before the create landed; and the item the operator
\* made is never deleted (opvault._record_creation, erase_recorded).
RecordedUntilGone ==
  /\ \A i \in vault : i.nonce # 0 => i.nonce \in disk.record.lines
  /\ sc.begun = "operator" => OurKey(0, LiteralKey - 1) \in vault

\* "complete" is said only of an installation that holds nothing of what the
\* eraser covers, whatever failed on the way: casa then removes the plugin and
\* with it the only tool that could finish.
CompleteIsClean ==
  [][\A p \in Procs : proc[p].pc = "reclaim" /\ proc'[p].why = "complete" =>
       /\ ~Ledger(p).data /\ ~disk.copies /\ ~disk.snapshots
       /\ ~disk.published /\ ~disk.staging
       /\ IF proc[p].tool = "erase_data" THEN Ledger(p).fence
          ELSE /\ ~Ledger(p).consents /\ Ledger(p).app = 0 /\ Ledger(p).accepted = 0
               /\ disk.record = NoRecord /\ \A i \in vault : i.nonce = 0]_vars

Registered == {a \in panel' : a.id \notin {b.id : b \in panel}}

\* An application is registered only with a key the vault still holds under the
\* key item's title: nothing else can authenticate to it after a restart.
RegisteredKeyIsReadable ==
  [][\A a \in Registered : \E i \in Items(KeyItem(a.world)) : i.key = a.key]_vars

\* Calls that do not overlap never register an application beside one of ours
\* they were shown, whoever's key it has, and replace a recorded one only under
\* an acceptance given while it was gone and since when it has not been found
\* alive (the marker's lifecycle rule of _reconcile).
OneApplication ==
  [][~hist.overlap => \A a \in Registered :
       /\ disk.ledger[a.world].app \in hist.grants \cup {0}
       /\ \A p \in Procs : proc[p].pc = "register" /\ proc'[p].pc # "register" =>
            \A b \in proc[p].seen : b.world = a.world => ~b.ours]_vars

\* A first open cut by a crash is finished by the next one
\* (store._add_accounts_column says it is safe where the column is there).
CreationSurvivesCrash == \A p \in Procs : proc[p].why # "duplicate column"
=============================================================================
