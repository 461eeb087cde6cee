------------------------------ MODULE Backups ------------------------------
(***************************************************************************)
(* The backup index protocol of plugins/bank-feed/server/backups.py and of *)
(* the tools that drive it: `backup`, `list_backups`, `restore_backup`,    *)
(* the workflow-fenced writes, the scoped erasers (`purge`,                *)
(* `forget_local_account`), the total erasers and the sweep that destroys  *)
(* proven session handles.                                                 *)
(*                                                                         *)
(* Several server processes share one SQLite ledger, one append-only index *)
(* file and one directory of whole-ledger copies.  Every operation takes   *)
(* the ledger's write lock (BEGIN IMMEDIATE), then the index flock, then   *)
(* settles what an earlier process left open, then does its own work, and  *)
(* commits the ledger before it closes its index record.  A process can    *)
(* die between any two steps, an append can fail four ways, an unlink, a   *)
(* rename or a flush can fail, and a power loss takes back whatever was    *)
(* not flushed.                                                            *)
(*                                                                         *)
(* An operation id is modelled by the number of its mint.  Ids are minted  *)
(* under the index lock, so the numeric order of two ids is the order of   *)
(* their `pending` records, which is what the code calls `seq`.            *)
(***************************************************************************)
EXTENDS Integers, Sequences, FiniteSets

CONSTANTS Procs,            \* server processes
          NoProc,           \* nobody, for a lock that is free
          Workflows,        \* workflow strings, each an `install:` reason
          OperatorReasons,  \* the reasons the `backup` tool accepts
          Tools,            \* the calls in use
          MaxOps,           \* bound: operation ids minted
          MaxFaults,        \* bound: failures, crashes and power losses
          Keep              \* retention bound of each class

PreErasure == "pre-erasure"
Classes == OperatorReasons \cup {PreErasure, "orphan"}
Reasons == OperatorReasons \cup {PreErasure} \cup Workflows

ASSUME BackupsAssumption ==
  /\ NoProc \notin Procs
  /\ OperatorReasons \subseteq {"weekly", "manual"}
  /\ Workflows \cap (Classes \cup {"none"}) = {}
  /\ Tools \subseteq {"list", "backup", "write", "scoped", "restore", "erase",
                     "handles"}
  /\ MaxOps \in Nat
  /\ MaxFaults \in Nat
  /\ Keep \in [Classes -> Nat \ {0}]

NoOp == 0
Ops == 1..MaxOps
Snapshot == MaxOps + 1          \* the pre-migration snapshot beside the ledger
Files == Ops \cup {Snapshot}

VARIABLES
  db,        \* the committed ledger
  index,     \* the complete records of the index file
  flushed,   \* how many of them a power loss cannot take back
  torn,      \* TRUE while the file ends in a partial record
  dir,       \* the backups directory as every process sees it
  onDisk,    \* what a power loss may leave of each directory entry
  content,   \* what each whole copy holds
  txn,       \* holder of the ledger's write lock
  lock,      \* holder of the index flock
  job,       \* what each process is doing
  seen,      \* the restore generation each workflow's pass last read
  minted,    \* operation ids minted so far
  faults,    \* failures so far
  \* History: what really happened to the ledger.
  life,      \* total erasures committed
  epoch,     \* erasures of any kind committed: each makes older copies illicit
  restored,  \* restores committed in the ledger
  swept      \* erasures whose sweep has begun

files == <<dir, onDisk, content>>
records == <<index, flushed, torn>>
history == <<life, epoch, restored, swept>>
vars == <<db, records, files, txn, lock, job, seen, minted, faults, history>>

-----------------------------------------------------------------------------
(* The index: `_parse` and `_derive`.                                      *)

Line(kind, op, state) ==
  [kind |-> kind, op |-> op, state |-> state, reason |-> "none", of |-> NoOp]

Has(kind, op, state) ==
  \E i \in DOMAIN index :
    index[i].kind = kind /\ index[i].op = op /\ index[i].state = state

Terminal(kind) == CASE kind = "backup" -> {"committed", "aborted", "orphan"}
                    [] kind = "restore" -> {"committed", "aborted"}
                    [] kind = "erase" -> {"committed"}
                    [] OTHER -> {"done"}

\* Mutant of Open: what is pending once stays open.
OpenWhilePending(kind, op) == Has(kind, op, "pending")

Open(kind, op) == /\ Has(kind, op, "pending")
                  /\ \A s \in Terminal(kind) : ~Has(kind, op, s)

\* The reason a backup's `pending` record carries.
TakenFor(op, reason) ==
  \E i \in DOMAIN index : /\ index[i].kind = "backup" /\ index[i].op = op
                          /\ index[i].state = "pending"
                          /\ index[i].reason = reason

Pruned(op) == Has("prune", op, "done")
CommittedRestores == {r \in Ops : Has("restore", r, "committed")}
Generation == Cardinality(CommittedRestores)

\* The retention class of a copy, if any: an install backup has none.
InClass(op, class) ==
  IF class = "orphan" THEN Has("backup", op, "orphan")
  ELSE Has("backup", op, "committed") /\ TakenFor(op, class)

\* Past its class's bound: at least Keep newer copies of the class stand.
Standing(class) ==
  {b \in Ops : dir[b] = "final" /\ ~Pruned(b) /\ InClass(b, class)}
Excess(classes) ==
  {b \in Ops : \E c \in classes :
     /\ b \in Standing(c)
     /\ Cardinality({n \in Standing(c) : n > b}) >= Keep[c]}

-----------------------------------------------------------------------------
(* `IndexHandle.append`: a record lands and is flushed, lands unflushed    *)
(* (written=True), is cut back (written=False), or leaves a torn tail that *)
(* could not be cut (written=None), after which the handle writes no more. *)

Outcomes == {"ok", "unflushed", "absent", "torn"}

AppendRecord(rec, out) ==
  /\ torn => out = "absent"
  /\ out # "ok" => faults < MaxFaults
  /\ faults' = IF out = "ok" THEN faults ELSE faults + 1
  /\ index' = IF out \in {"ok", "unflushed"} THEN Append(index, rec) ELSE index
  /\ flushed' = IF out = "ok" THEN Len(index) + 1 ELSE flushed
  /\ torn' = (torn \/ out = "torn")

Fault == faults < MaxFaults /\ faults' = faults + 1

Call(tool, reason) == [tool |-> tool, reason |-> reason]
Calls ==
  {c \in {Call(t, "none") : t \in {"list", "restore", "erase", "handles"}}
          \cup {Call("backup", r) : r \in OperatorReasons}
          \cup {Call("scoped", PreErasure)}
          \cup {Call("write", w) : w \in Workflows} : c.tool \in Tools}
Idle == [pc |-> "idle", call |-> Call("list", "none"), op |-> NoOp,
         todo |-> {}, stuck |-> FALSE]

Goto(p, pc) == job' = [job EXCEPT ![p].pc = pc]
GotoWith(p, pc, op) == job' = [job EXCEPT ![p].pc = pc, ![p].op = op]
StartSweep(p, op) ==
  /\ swept' = swept \cup {op}
  /\ job' = [job EXCEPT ![p].pc = "sweep", ![p].op = op, ![p].stuck = FALSE,
                        ![p].todo = {f \in Files : dir[f] # "none"}]

\* ROLLBACK if a transaction is open, then the index handle is closed.
Leave(p) == /\ job' = [job EXCEPT ![p] = Idle]
            /\ txn' = IF txn = p THEN NoProc ELSE txn
            /\ lock' = IF lock = p THEN NoProc ELSE lock

EmptyLedger == [life |-> 0, regs |-> [w \in Workflows |-> NoOp],
                wrote |-> {}, marker |-> NoOp]

Init ==
  /\ db = EmptyLedger
  /\ index = <<>> /\ flushed = 0 /\ torn = FALSE
  /\ dir \in {[f \in Files |-> "none"],
              [f \in Files |-> IF f = Snapshot THEN "final" ELSE "none"]}
  /\ onDisk = [f \in Files |-> {dir[f]}]
  /\ content = [f \in Files |-> [epoch |-> 0, db |-> EmptyLedger]]
  /\ txn = NoProc /\ lock = NoProc
  /\ job = [p \in Procs |-> Idle]
  /\ seen = [w \in Workflows |-> 0]
  /\ minted = 0 /\ faults = 0
  /\ life = 0 /\ epoch = 0 /\ restored = {} /\ swept = {}

-----------------------------------------------------------------------------
(* Entry: BEGIN IMMEDIATE, the bounded wait for the index, settlement.     *)

Begin(p, call) ==
  /\ job[p].pc = "idle" /\ txn = NoProc
  /\ txn' = p
  /\ job' = [job EXCEPT ![p].pc = "begin", ![p].call = call]
  /\ UNCHANGED <<db, records, files, lock, seen, minted, faults, history>>

\* `_acquire_index` gave up after LOCK_WAIT_S: the call refuses as busy.
Busy(p) ==
  /\ job[p].pc = "begin" /\ lock # NoProc
  /\ Leave(p)
  /\ UNCHANGED <<db, records, files, seen, minted, faults, history>>

\* Refused before settlement: another ledger, an authorization in progress,
\* an eraser's own precheck.
RefuseEarly(p) ==
  /\ job[p].pc = "begin"
  /\ job[p].call.tool \in {"write", "scoped", "restore", "erase"}
  /\ Leave(p)
  /\ UNCHANGED <<db, records, files, seen, minted, faults, history>>

\* The lock is taken and a torn tail is cut and flushed.
Acquire(p) ==
  /\ job[p].pc = "begin" /\ lock = NoProc
  /\ lock' = p
  /\ Goto(p, "settle")
  /\ torn' = FALSE
  /\ flushed' = IF torn THEN Len(index) ELSE flushed
  /\ UNCHANGED <<db, index, files, txn, seen, minted, faults, history>>

\* The cut, or its flush, failed: settlement refuses.
AcquireFails(p) ==
  /\ job[p].pc = "begin" /\ lock = NoProc /\ torn
  /\ Fault
  /\ torn' \in BOOLEAN
  /\ Leave(p)
  /\ UNCHANGED <<db, index, flushed, files, seen, minted, history>>

Unlink(f) == /\ dir' = [dir EXCEPT ![f] = "none"]
             /\ onDisk' = [onDisk EXCEPT ![f] = @ \cup {"none"}]
             /\ UNCHANGED content

\* Mutants of FlushDir: the directory is flushed before it is changed, never.
FlushBefore == onDisk' = [f \in Files |-> {dir[f]}]
FlushNever == UNCHANGED onDisk

FlushDir == onDisk' = [f \in Files |-> {dir'[f]}]

OpenErasures == {e \in Ops : Open("erase", e)}

\* Mutant of NothingOpen: settlement leaves pending erasures for later.
NothingElseOpen == \A o \in Ops, k \in {"backup", "restore"} : ~Open(k, o)

NothingOpen == \A o \in Ops, k \in {"erase", "backup", "restore"} : ~Open(k, o)

\* A pending erasure is completed before any other record is settled.
SettleErase(p, e) ==
  /\ job[p].pc = "settle" /\ Open("erase", e)
  /\ StartSweep(p, e)
  /\ UNCHANGED <<db, records, files, txn, lock, seen, minted, faults, life, epoch,
                 restored>>

\* Mutant of SettledState: every install copy found pending is an orphan.
SettledUnread(b) ==
  IF dir[b] # "final" THEN "aborted"
  ELSE IF \E w \in Workflows : TakenFor(b, w) THEN "orphan" ELSE "committed"

\* A copy that reached its name settles by its registration, one that did
\* not is aborted and its partial file removed.
SettledState(b) ==
  IF dir[b] # "final" THEN "aborted"
  ELSE IF \E w \in Workflows : TakenFor(b, w) /\ db.regs[w] # b
       THEN "orphan" ELSE "committed"

SettleBackup(p, b, out) ==
  /\ job[p].pc = "settle" /\ OpenErasures = {} /\ Open("backup", b)
  /\ IF dir[b] = "partial" THEN Unlink(b) ELSE UNCHANGED files
  /\ AppendRecord(Line("backup", b, SettledState(b)), out)
  /\ IF out = "ok" THEN UNCHANGED <<job, txn, lock>> ELSE Leave(p)
  /\ UNCHANGED <<db, seen, minted, history>>

\* Mutant of RestoreOutcome: a restore found pending did not happen.
RestoreLost(r) == "aborted"

\* A restore committed exactly when the ledger's marker names it.
RestoreOutcome(r) == IF db.marker = r THEN "committed" ELSE "aborted"

SettleRestore(p, r, out) ==
  /\ job[p].pc = "settle" /\ Open("restore", r)
  /\ \A o \in Ops : ~Open("erase", o) /\ ~Open("backup", o)
  /\ AppendRecord(Line("restore", r, RestoreOutcome(r)), out)
  /\ IF out = "ok" THEN UNCHANGED <<job, txn, lock>> ELSE Leave(p)
  /\ UNCHANGED <<db, files, seen, minted, history>>

Ready(p) == job[p].pc = "settle" /\ NothingOpen

\* A workflow's pass may bind to the generation a listing prints.
MayBind == \/ UNCHANGED seen
           \/ \E w \in Workflows : seen' = [seen EXCEPT ![w] = Generation]

\* The listing.  The settlement every open of the ledger attempts is this
\* without a reader.
List(p) ==
  /\ Ready(p) /\ job[p].call.tool = "list"
  /\ MayBind
  /\ Leave(p)
  /\ UNCHANGED <<db, records, files, minted, faults, history>>

\* The tool's own checks refuse: a stale generation, a missing row, an
\* unknown copy, no closed session to destroy.
Refuse(p) ==
  /\ Ready(p) /\ job[p].call.tool # "list"
  /\ Leave(p)
  /\ UNCHANGED <<db, records, files, seen, minted, faults, history>>

-----------------------------------------------------------------------------
(* `take_backup`, its callers' COMMIT, `finish_backup` and `prune`.        *)

\* Mutant of Fenced: a pass may be behind the ledger's restores.
FencedBehind(w) == seen[w] <= Generation

Fenced(w) == seen[w] = Generation
Registered(w) == db.regs[w] # NoOp /\ dir[db.regs[w]] = "final"

\* A write of a workflow whose registered copy stands mints nothing.
StageWrite(p) ==
  /\ Ready(p) /\ job[p].call.tool = "write"
  /\ Fenced(job[p].call.reason) /\ Registered(job[p].call.reason)
  /\ Goto(p, "staged")
  /\ UNCHANGED <<db, records, files, txn, lock, seen, minted, faults, history>>

\* VACUUM INTO the partial file, from the last committed ledger.
Copy(p) ==
  LET op == minted + 1 IN
  /\ Ready(p) /\ minted < MaxOps
  /\ \/ job[p].call.tool \in {"backup", "scoped"}
     \/ /\ job[p].call.tool = "write"
        /\ Fenced(job[p].call.reason) /\ ~Registered(job[p].call.reason)
  /\ minted' = op
  /\ dir' = [dir EXCEPT ![op] = "partial"]
  /\ onDisk' = [onDisk EXCEPT ![op] = @ \cup {"partial"}]
  /\ content' = [content EXCEPT ![op] = [epoch |-> epoch, db |-> db]]
  /\ GotoWith(p, "copied", op)
  /\ UNCHANGED <<db, records, txn, lock, seen, faults, history>>

\* The `pending` record; on any failure the partial is removed.
Name(p, out) ==
  /\ job[p].pc = "copied"
  /\ AppendRecord([Line("backup", job[p].op, "pending")
                     EXCEPT !.reason = job[p].call.reason], out)
  /\ IF out = "ok" THEN /\ Goto(p, "named")
                        /\ UNCHANGED <<files, txn, lock>>
                   ELSE Unlink(job[p].op) /\ Leave(p)
  /\ UNCHANGED <<db, seen, minted, history>>

\* rename, then the directory flush, which may fail after the rename.
Place(p) ==
  /\ job[p].pc = "named"
  /\ dir' = [dir EXCEPT ![job[p].op] = "final"]
  /\ \/ /\ FlushDir
        /\ Goto(p, "staged")
        /\ UNCHANGED <<txn, lock, faults>>
     \/ /\ Fault
        /\ onDisk' = [onDisk EXCEPT ![job[p].op] = @ \cup {"final"}]
        /\ Leave(p)
  /\ UNCHANGED <<db, records, content, seen, minted, history>>

\* The rename failed: the partial goes and the attempt is closed here.
PlaceFails(p, out) ==
  /\ job[p].pc = "named" /\ faults < MaxFaults
  /\ Unlink(job[p].op)
  /\ AppendRecord(Line("backup", job[p].op, "aborted"), out)
  /\ Leave(p)
  /\ UNCHANGED <<db, seen, minted, history>>

\* Mutant of Staged: the first write does not register its restore point.
StagedUnregistered(p) ==
  CASE job[p].call.tool = "write" ->
         [db EXCEPT !.wrote = @ \cup {job[p].call.reason}]
    [] job[p].call.tool = "scoped" -> [db EXCEPT !.wrote = {}]
    [] OTHER -> db

\* What the COMMIT of a staged call makes of the ledger.
Staged(p) ==
  LET w == job[p].call.reason IN
  CASE job[p].call.tool = "write" /\ job[p].op # NoOp ->
         [db EXCEPT !.regs[w] = job[p].op, !.wrote = @ \cup {w}]
    [] job[p].call.tool = "write" /\ job[p].op = NoOp ->
         [db EXCEPT !.wrote = @ \cup {w}]
    [] job[p].call.tool = "scoped" -> [db EXCEPT !.wrote = {}]
    [] OTHER -> db

Commit(p) ==
  /\ job[p].pc = "staged"
  /\ db' = Staged(p)
  /\ IF job[p].op = NoOp THEN Leave(p)
     ELSE Goto(p, "closing") /\ txn' = NoProc /\ UNCHANGED lock
  /\ UNCHANGED <<records, files, seen, minted, faults, history>>

\* The COMMIT, or the write before it, failed: the copy of a mint or of a
\* scoped erasure is recorded `orphan`; only the mint then prunes.
CommitFails(p, out) ==
  /\ job[p].pc = "staged" /\ job[p].op # NoOp /\ faults < MaxFaults
  /\ job[p].call.tool \in {"write", "scoped"}
  /\ AppendRecord(Line("backup", job[p].op, "orphan"), out)
  /\ IF out = "ok" /\ job[p].call.tool = "write"
     THEN Goto(p, "prune") /\ txn' = NoProc /\ UNCHANGED lock
     ELSE Leave(p)
  /\ UNCHANGED <<db, files, seen, minted, history>>

Close(p, out) ==
  /\ job[p].pc = "closing"
  /\ AppendRecord(Line("backup", job[p].op, "committed"), out)
  /\ IF out = "ok" THEN Goto(p, "prune") /\ UNCHANGED <<txn, lock>>
                   ELSE Leave(p)
  /\ UNCHANGED <<db, files, seen, minted, history>>

\* A scoped erasure prunes its own class only.
Prunable(p) == Excess(IF job[p].call.tool = "scoped" THEN {PreErasure}
                      ELSE Classes)

\* Unlink, then the audit record.
Prune(p, b, out) ==
  /\ job[p].pc = "prune" /\ b \in Prunable(p)
  /\ Unlink(b)
  /\ AppendRecord(Line("prune", b, "done"), out)
  /\ IF out = "ok" THEN UNCHANGED <<job, txn, lock>> ELSE Leave(p)
  /\ UNCHANGED <<db, seen, minted, history>>

PruneDone(p) ==
  /\ job[p].pc = "prune" /\ Prunable(p) = {}
  /\ Leave(p)
  /\ UNCHANGED <<db, records, files, seen, minted, faults, history>>

-----------------------------------------------------------------------------
(* `restore`.                                                              *)

\* Mutant of Restorable: any file of the directory will do.
RestorableFile(b) == dir[b] # "none"

Restorable(b) == /\ dir[b] = "final"
                 /\ Has("backup", b, "committed") \/ Has("backup", b, "orphan")

RestoreBegin(p, b, out) ==
  LET op == minted + 1 IN
  /\ Ready(p) /\ job[p].call.tool = "restore" /\ minted < MaxOps
  /\ Restorable(b)
  /\ minted' = op
  /\ AppendRecord([Line("restore", op, "pending") EXCEPT !.of = b], out)
  /\ IF out = "ok"
     THEN GotoWith(p, "restoring", op) /\ UNCHANGED <<txn, lock>>
     ELSE Leave(p)
  /\ UNCHANGED <<db, files, seen, history>>

\* Registrations made at or after the restored point do not come back.
RegsFrom(b) == [w \in Workflows |-> IF content[b].db.regs[w] >= b THEN NoOp
                                    ELSE content[b].db.regs[w]]

RestoreOf(op, b) == \E i \in DOMAIN index :
  /\ index[i].kind = "restore" /\ index[i].op = op
  /\ index[i].state = "pending" /\ index[i].of = b

\* The ordinary tables are replaced, `meta` is kept but for the marker.
RestoreCommit(p, b) ==
  /\ job[p].pc = "restoring" /\ RestoreOf(job[p].op, b)
  /\ db' = [life |-> content[b].db.life, regs |-> RegsFrom(b),
            wrote |-> content[b].db.wrote, marker |-> job[p].op]
  /\ restored' = restored \cup {job[p].op}
  /\ txn' = NoProc
  /\ Goto(p, "restored")
  /\ UNCHANGED <<records, files, lock, seen, minted, faults, life, epoch, swept>>

\* The COMMIT stands whatever becomes of the terminal record.
RestoreClose(p, out) ==
  /\ job[p].pc = "restored"
  /\ AppendRecord(Line("restore", job[p].op, "committed"), out)
  /\ Leave(p)
  /\ UNCHANGED <<db, files, seen, minted, history>>

-----------------------------------------------------------------------------
(* Total erasure and the destruction of proven handles.                    *)

\* `erase <op> pending` is the last statement before the COMMIT.
EraseBegin(p, out) ==
  LET op == minted + 1 IN
  /\ Ready(p) /\ job[p].call.tool \in {"erase", "handles"} /\ minted < MaxOps
  /\ minted' = op
  /\ AppendRecord(Line("erase", op, "pending"), out)
  /\ IF out = "ok"
     THEN GotoWith(p, "erasing", op) /\ UNCHANGED <<txn, lock>>
     ELSE Leave(p)
  /\ UNCHANGED <<db, files, seen, history>>

\* Every row goes and the restore marker stays, or the proven session rows
\* go; either way each copy taken so far holds what was just destroyed.
EraseCommit(p) ==
  /\ job[p].pc = "erasing"
  /\ epoch' = epoch + 1
  /\ IF job[p].call.tool = "erase"
     THEN /\ life' = life + 1
          /\ db' = [EmptyLedger EXCEPT !.life = life + 1, !.marker = db.marker]
     ELSE UNCHANGED <<life, db>>
  /\ txn' = NoProc
  /\ StartSweep(p, job[p].op)
  /\ UNCHANGED <<records, files, lock, seen, minted, faults, restored>>

\* One file of the sweep; an indexed copy gets its one audit record.  The
\* snapshots beside the ledger come last.
SweepFile(p, f, out) ==
  /\ job[p].pc = "sweep" /\ f \in job[p].todo
  /\ f = Snapshot => job[p].todo = {Snapshot}
  /\ Unlink(f)
  /\ IF dir[f] = "final" /\ Has("backup", f, "pending") /\ ~Pruned(f)
     THEN AppendRecord(Line("prune", f, "done"), out)
     ELSE out = "ok" /\ UNCHANGED <<records, faults>>
  /\ IF out = "ok"
     THEN /\ job' = [job EXCEPT ![p].todo = @ \ {f}]
          /\ UNCHANGED <<txn, lock>>
     ELSE Leave(p)
  /\ UNCHANGED <<db, seen, minted, history>>

\* A file that cannot be unlinked never stops the sweep.
SweepStuck(p, f) ==
  /\ job[p].pc = "sweep" /\ f \in job[p].todo
  /\ f = Snapshot => job[p].todo = {Snapshot}
  /\ Fault
  /\ job' = [job EXCEPT ![p].todo = @ \ {f}, ![p].stuck = TRUE]
  /\ UNCHANGED <<db, records, files, txn, lock, seen, minted, history>>

\* Mutant of Unaudited: only the files the sweep unlinked are recorded.
UnauditedNone == {}

\* An indexed copy already absent is an erased one: it gets its record here.
Unaudited == {b \in Ops : /\ dir[b] = "none" /\ ~Pruned(b)
                          /\ Has("backup", b, "committed")
                             \/ Has("backup", b, "orphan")}

RecordAbsent(p, b, out) ==
  /\ job[p].pc = "sweep" /\ job[p].todo \subseteq {Snapshot}
  /\ b \in Unaudited
  /\ AppendRecord(Line("prune", b, "done"), out)
  /\ IF out = "ok" THEN UNCHANGED <<job, txn, lock>> ELSE Leave(p)
  /\ UNCHANGED <<db, files, seen, minted, history>>

\* Both directories are flushed, and only then is the erasure committed.  A
\* terminal that landed unflushed completes it too.
SweepDone(p, out) ==
  /\ job[p].pc = "sweep" /\ job[p].todo = {} /\ Unaudited = {}
  /\ ~job[p].stuck
  /\ UNCHANGED <<dir, content>> /\ FlushDir
  /\ AppendRecord(Line("erase", job[p].op, "committed"), out)
  /\ IF txn = p /\ out \in {"ok", "unflushed"}
     THEN GotoWith(p, "settle", NoOp) /\ UNCHANGED <<txn, lock>>
     ELSE Leave(p)
  /\ UNCHANGED <<db, seen, minted, history>>

\* Something would not go, or the flush failed: the record stays pending, and
\* of the calls refused over it the listing still prints a generation.
SweepIncomplete(p) ==
  /\ job[p].pc = "sweep" /\ job[p].todo = {} /\ Unaudited = {}
  /\ UNCHANGED <<dir, content>>
  /\ IF job[p].stuck THEN FlushDir /\ UNCHANGED faults
                     ELSE Fault /\ UNCHANGED onDisk
  /\ IF job[p].call.tool = "list" THEN MayBind ELSE UNCHANGED seen
  /\ Leave(p)
  /\ UNCHANGED <<db, records, minted, history>>

-----------------------------------------------------------------------------
(* The environment.                                                        *)

\* The process dies, or a statement fails and the call rolls back.
Crash(p) ==
  /\ job[p].pc # "idle" /\ Fault
  /\ Leave(p)
  /\ UNCHANGED <<db, records, files, seen, minted, history>>

\* Every process dies; the index keeps a prefix no shorter than what was
\* flushed, each directory entry any state since its last flush.
PowerLoss ==
  /\ Fault
  /\ \E n \in flushed..Len(index) :
       index' = SubSeq(index, 1, n) /\ flushed' = n
  /\ torn' \in BOOLEAN
  /\ dir' \in [Files -> {"none", "partial", "final"}]
  /\ \A f \in Files : dir'[f] \in onDisk[f]
  /\ onDisk' = [f \in Files |-> {dir'[f]}]
  /\ job' = [p \in Procs |-> Idle] /\ txn' = NoProc /\ lock' = NoProc
  /\ UNCHANGED <<db, content, seen, minted, history>>

Advance(p) ==
  \/ Busy(p) \/ RefuseEarly(p) \/ Acquire(p) \/ AcquireFails(p) \/ List(p)
  \/ Refuse(p) \/ StageWrite(p) \/ Copy(p) \/ Place(p) \/ Commit(p) \/ PruneDone(p)
  \/ EraseCommit(p) \/ SweepIncomplete(p)
  \/ \E e \in Ops : SettleErase(p, e)
  \/ \E b \in Ops : RestoreCommit(p, b)
  \/ \E f \in Files : SweepStuck(p, f)
  \/ \E out \in Outcomes :
       \/ Name(p, out) \/ PlaceFails(p, out) \/ CommitFails(p, out)
       \/ Close(p, out) \/ RestoreClose(p, out) \/ EraseBegin(p, out)
       \/ SweepDone(p, out)
       \/ \E b \in Ops : \/ SettleBackup(p, b, out) \/ SettleRestore(p, b, out)
                         \/ Prune(p, b, out) \/ RestoreBegin(p, b, out)
                         \/ RecordAbsent(p, b, out)
       \/ \E f \in Files : SweepFile(p, f, out)

Next == \/ \E p \in Procs : \/ \E call \in Calls : Begin(p, call)
                            \/ Advance(p)
                            \/ Crash(p)
        \/ PowerLoss

Spec == Init /\ [][Next]_vars

\* A call that does not crash runs to its end, and every open of the ledger
\* attempts a settlement: whatever else is called, one gets both locks again
\* and again.
Fairness == /\ \A p \in Procs : WF_vars(Advance(p))
            /\ SF_vars(\E p \in Procs : Begin(p, Call("list", "none")))
FairSpec == Spec /\ Fairness

-----------------------------------------------------------------------------
(* Properties.                                                             *)

Lines == [kind : {"backup", "restore", "erase", "prune"},
          op : Ops,
          state : {"pending", "committed", "aborted", "orphan", "done"},
          reason : Reasons \cup {"none"},
          of : Ops \cup {NoOp}]
Ledgers == [life : Nat, regs : [Workflows -> Ops \cup {NoOp}],
            wrote : SUBSET Workflows, marker : Ops \cup {NoOp}]
FileStates == {"none", "partial", "final"}
Phases == {"idle", "begin", "settle", "sweep", "copied", "named", "staged",
           "closing", "prune", "restoring", "restored", "erasing"}
Job == [pc : Phases, call : Calls \cup {Idle.call}, op : Ops \cup {NoOp},
        todo : SUBSET Files, stuck : BOOLEAN]

\* Every variable has the values the code can give it; the flushed part of
\* the index is a part of it and a directory entry is one of the states a
\* power loss may leave.
TypeOK ==
  /\ db \in Ledgers
  /\ index \in Seq(Lines)
  /\ flushed \in 0..Len(index)
  /\ torn \in BOOLEAN
  /\ dir \in [Files -> FileStates]
  /\ onDisk \in [Files -> SUBSET FileStates]
  /\ \A f \in Files : dir[f] \in onDisk[f]
  /\ content \in [Files -> [epoch : Nat, db : Ledgers]]
  /\ txn \in Procs \cup {NoProc}
  /\ lock \in Procs \cup {NoProc}
  /\ job \in [Procs -> Job]
  /\ seen \in [Workflows -> Nat]
  /\ minted \in 0..MaxOps
  /\ faults \in Nat
  /\ life \in Nat
  /\ epoch \in Nat
  /\ restored \subseteq Ops
  /\ swept \subseteq Ops

\* The index never refuses its own output (`_parse`): no operation has two
\* pending or two terminal records, whatever crashed in between.
IndexParses ==
  \A i, j \in DOMAIN index :
    (i < j /\ index[i].kind = index[j].kind /\ index[i].op = index[j].op)
      => index[i].state = "pending" /\ index[j].state # "pending"

\* Since every operation settles first, two operations are never open at
\* once: a pending restore cannot coexist with a pending erasure
\* (`list_backups` relies on it for the generation it prints).
OneOpen ==
  \A k, l \in {"backup", "restore", "erase"} : \A o, q \in Ops :
    Open(k, o) /\ Open(l, q) => k = l /\ o = q

\* What a settled index says of the restores is what happened to the ledger,
\* even when the process died between the COMMIT and its record.
GenerationIsExact ==
  \A p \in Procs : Ready(p) => CommittedRestores = restored

\* Once an erasure has committed in the ledger, any file that holds what it
\* destroyed, or that a power loss could bring back, is covered by a pending
\* erasure no power loss can take away.
ErasedCopiesGone ==
  \A f \in Files :
    (onDisk[f] # {"none"} /\ content[f].epoch < epoch) =>
      \E e \in Ops : /\ Open("erase", e)
                     /\ \E i \in 1..flushed : index[i].kind = "erase"
                                             /\ index[i].op = e

\* No restore brings back rows of a ledger that was erased.
NoResurrection == db.life = life

\* A workflow's write reaches its COMMIT only if no restore was committed
\* since its pass read the ledger's generation.
FenceHolds ==
  \A p \in Procs :
    job[p].pc = "staged" /\ job[p].call.tool = "write"
      => seen[job[p].call.reason] = Cardinality(restored)

\* A workflow with writes in the ledger has a registered restore point from
\* before its first write, unless an erasure swept that copy and the next
\* write minted another.
RestorePointPrecedes ==
  \A w \in db.wrote :
    /\ db.regs[w] # NoOp
    /\ \/ w \notin content[db.regs[w]].db.wrote
       \/ \E b \in Ops, e \in swept :
            b < e /\ e < db.regs[w] /\ TakenFor(b, w)

\* Nothing but the sweep of a later erasure takes a registered copy away:
\* retention never does, settlement never calls it an orphan, and a power loss
\* never undoes it.
RegisteredCopyStands ==
  \A w \in Workflows :
    LET b == db.regs[w] IN
    b # NoOp => /\ ~Has("backup", b, "orphan")
                /\ \/ /\ ~Has("backup", b, "aborted")
                      /\ onDisk[b] = {"final"}
                   \/ \E e \in swept : e > b

\* After an erasure every indexed copy before it carries its audit record.
ErasureAudited ==
  \A e, b \in Ops :
    (b < e /\ Has("erase", e, "committed")
       /\ (Has("backup", b, "committed") \/ Has("backup", b, "orphan")))
      => Pruned(b)

\* Retention keeps the most recent copies of each class and no more, an
\* orphaned install backup included: when it is done no class is over bound.
RetentionBounded ==
  \A p \in Procs :
    (job[p].pc = "prune" /\ Prunable(p) = {} /\ job[p].call.tool # "scoped")
      => \A c \in Classes :
           Cardinality({b \in Ops : dir[b] = "final" /\ InClass(b, c)}) <= Keep[c]

\* A scoped erasure commits only over a durable, recorded copy of exactly
\* the ledger it erases from.
ScopedErasureKeepsCopy ==
  [][\A p \in Procs :
       (job[p].pc = "staged" /\ job[p].call.tool = "scoped"
          /\ job'[p].pc = "closing")
       => /\ content[job[p].op].db = db
          /\ onDisk[job[p].op] = {"final"}
          /\ \E i \in 1..flushed : index[i].op = job[p].op]_vars

\* Whatever a call left open, a later settlement closes: an erasure once
\* recorded is always completed, however many calls died in it.
OpenOperationsSettle ==
  \A k \in {"backup", "restore", "erase"}, o \in Ops :
    Open(k, o) ~> ~Open(k, o)

-----------------------------------------------------------------------------
(* The promise: what the index, the copies and the ledger add up to.       *)

Rows(ledger) == [life |-> ledger.life, wrote |-> ledger.wrote]

Promise == INSTANCE RestorePoints WITH
  rows <- Rows(db),
  points <- {Rows(content[b].db) :
               b \in {o \in Ops : /\ "final" \in onDisk[o]
                                 /\ content[o].epoch = epoch}},
  restores <- Cardinality(restored),
  bound <- seen,
  erasures <- life

\* The index protocol keeps the promise of RestorePoints.
KeepsPromise == Promise!Spec
=============================================================================
