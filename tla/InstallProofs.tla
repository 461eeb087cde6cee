---------------------------- MODULE InstallProofs ----------------------------
(* Proofs about Install, for every value of its constants.                 *)
EXTENDS Install, TLAPS

-----------------------------------------------------------------------------
(* The shape of the records, whatever their fields hold.                   *)

IsCall(r) ==
  r = [pc |-> r.pc, next |-> r.next, tool |-> r.tool, mode |-> r.mode, conn |-> r.conn,
       lock |-> r.lock, envkey |-> r.envkey, envapp |-> r.envapp, source |-> r.source,
       key |-> r.key, item |-> r.item, nonce |-> r.nonce, rec |-> r.rec, seen |-> r.seen,
       kept |-> r.kept, ok |-> r.ok, why |-> r.why]

IsLedger(l) ==
  l = [there |-> l.there, tables |-> l.tables, version |-> l.version, instance |-> l.instance,
       data |-> l.data, fence |-> l.fence, app |-> l.app, accepted |-> l.accepted,
       consents |-> l.consents]

IsRecord(r) == r = [lines |-> r.lines, torn |-> r.torn, copy |-> r.copy]

IsDisk(d) ==
  /\ d = [ledger |-> d.ledger, marker |-> d.marker, record |-> d.record,
          snapshots |-> d.snapshots, copies |-> d.copies, published |-> d.published,
          staging |-> d.staging]
  /\ d.ledger = [m \in Modes |-> d.ledger[m]]
  /\ \A m \in Modes : IsLedger(d.ledger[m])
  /\ IsRecord(d.record)

Calls ==
  /\ proc = [p \in Procs |-> proc[p]]
  /\ \A p \in Procs : IsCall(proc[p]) /\ proc[p].mode \in Modes

LEMMA OtherMode == \A m \in Modes : Other(m) \in Modes /\ Other(m) # m /\ Other(Other(m)) = m
BY DEF Modes, Other

LEMMA UpdateShape ==
  ASSUME Calls, NEW p \in Procs, NEW r, IsCall(r), r.mode \in Modes,
         proc' = [proc EXCEPT ![p] = r]
  PROVE  Calls' /\ proc'[p] = r /\ \A q \in Procs \ {p} : proc'[q] = proc[q]
BY DEF Calls

LEMMA DownShape ==
  /\ IsCall(Down) /\ Down.pc = "down" /\ Down.lock = "none" /\ Down.conn = FALSE
  /\ Down.mode \in Modes
BY DEF Down, IsCall, Modes

-----------------------------------------------------------------------------
(* What a step does to the call that takes it.                             *)

Opening == Pcs.opening
Laddering == Pcs.laddering
Erasing == Pcs.erasing
Asleep == Pcs.down
Inside == Opening \cup {"open"}

\* The places from which files and rows are filled.
Filling == {"write", "stage", "publish"}

\* The places where the record of the creations is being written.
Writing == {"line", "create", "rewrite"}

LEMMA PcSets ==
  /\ Opening = {"file", "schema", "snapshot", "migrate", "mint", "mark", "sign"}
  /\ Laddering = {"lift", "key", "absent", "record", "line", "create", "waiting", "readback",
                  "cred", "app", "list", "bind", "keyed", "register", "verify", "health",
                  "vanished", "accept"}
  /\ Erasing = {"rows", "copies", "withdraw", "exports", "items", "rewrite", "reset",
                "residue", "reclaim"}
  /\ Asleep = {"down", "idle", "lock"}
  /\ Inside = {"file", "schema", "snapshot", "migrate", "mint", "mark", "sign", "open"}
  /\ Writing = {"line", "create", "rewrite"}
  /\ Filling = {"write", "stage", "publish"}
BY DEF Opening, Laddering, Erasing, Asleep, Inside, Writing, Filling, Pcs

Tools == {"setup", "signin", "accept", "write", "daily", "export", "erase_all", "erase_data"}
Erasers == {"erase_all", "erase_data"}

\* Only the call of p moves, on the connection it has.
Alone(p) ==
  /\ Calls' /\ \A q \in Procs \ {p} : proc'[q] = proc[q]
  /\ proc'[p].mode = proc[p].mode /\ proc'[p].conn = proc[p].conn

Returned(p) == Alone(p) /\ proc'[p].pc = "idle" /\ proc'[p].lock = "none"

\* It goes on, under the lock it holds.
Went(p, pc) ==
  /\ Alone(p) /\ proc'[p].pc = pc
  /\ proc'[p].lock = proc[p].lock /\ proc'[p].tool = proc[p].tool

LEMMA UpdateWent ==
  ASSUME Calls, NEW p \in Procs, NEW r, IsCall(r), proc' = [proc EXCEPT ![p] = r],
         r.mode = proc[p].mode, r.conn = proc[p].conn, r.lock = proc[p].lock,
         r.tool = proc[p].tool
  PROVE  Went(p, r.pc) /\ proc'[p] = r
<1>1. r.mode \in Modes
  BY DEF Calls
<1> QED
  BY <1>1, UpdateShape DEF Went, Alone

LEMMA GotoEffect ==
  ASSUME Calls, NEW p \in Procs, NEW pc, Goto(p, pc)
  PROVE  /\ Went(p, pc) /\ proc'[p].next = proc[p].next
         /\ proc'[p].nonce = proc[p].nonce /\ proc'[p].kept = proc[p].kept
<1> DEFINE r == [proc[p] EXCEPT !.pc = pc]
<1>1. IsCall(proc[p])
  BY DEF Calls
<1>2. /\ IsCall(r) /\ r.mode = proc[p].mode /\ r.pc = pc /\ r.tool = proc[p].tool
      /\ r.conn = proc[p].conn /\ r.lock = proc[p].lock /\ r.next = proc[p].next
      /\ r.nonce = proc[p].nonce /\ r.kept = proc[p].kept
  BY <1>1 DEF IsCall
<1>3. proc' = [proc EXCEPT ![p] = r]
  BY DEF Goto
<1> HIDE DEF r
<1> QED
  BY <1>2, <1>3, UpdateWent

LEMMA ReturnEffect ==
  ASSUME Calls, NEW p \in Procs, NEW why, Return(p, why)
  PROVE  Returned(p)
<1> DEFINE r == Ended(p, why)
<1>1. proc[p].mode \in Modes
  BY DEF Calls
<1>2. r = [Down EXCEPT !.pc = "idle", !.mode = proc[p].mode, !.conn = proc[p].conn,
             !.envkey = proc[p].envkey, !.envapp = proc[p].envapp,
             !.tool = proc[p].tool, !.why = why]
  BY DEF Ended
<1>3. proc' = [proc EXCEPT ![p] = r]
  BY DEF Return
<1> HIDE DEF r
<1>4. IsCall(r)
  BY <1>2, DownShape DEF IsCall
<1>5. r.mode = proc[p].mode /\ r.conn = proc[p].conn /\ r.pc = "idle" /\ r.lock = "none"
  BY <1>2, DownShape DEF IsCall
<1> QED
  BY <1>1, <1>3, <1>4, <1>5, UpdateShape DEF Returned, Alone

LEMMA StopEffect ==
  ASSUME Calls, NEW p \in Procs, Stop(p)
  PROVE  Returned(p)
BY ReturnEffect DEF Stop

LEMMA OpenedEffect ==
  ASSUME Calls, NEW p \in Procs, NEW next, Opened(p, next)
  PROVE  \/ proc[p].conn /\ Went(p, next)
         \/ Went(p, "open") /\ proc'[p].next = next
<1>1. CASE proc[p].conn
  BY <1>1, GotoEffect DEF Opened
<1>2. CASE ~proc[p].conn
  <2> DEFINE c == proc[p]
  <2> DEFINE r == [c EXCEPT !.pc = "open", !.next = next]
  <2>1. IsCall(c) /\ r = [c EXCEPT !.pc = "open", !.next = next]
    BY DEF Calls
  <2>2. proc' = [proc EXCEPT ![p] = r]
    BY <1>2 DEF Opened, Calls
  <2> HIDE DEF c, r
  <2>3. IsCall(r)
    BY <2>1 DEF IsCall
  <2>4. /\ r.mode = c.mode /\ r.conn = c.conn /\ r.lock = c.lock /\ r.tool = c.tool
        /\ r.pc = "open" /\ r.next = next
    BY <2>1 DEF IsCall
  <2>5. Went(p, r.pc) /\ proc'[p] = r
    BY <2>2, <2>3, <2>4, UpdateWent DEF c
  <2>6. Went(p, "open")
    BY <2>4, <2>5
  <2> QED
    BY <2>4, <2>5, <2>6
<1> QED
  BY <1>1, <1>2

LEMMA ResolvedEffect ==
  ASSUME Calls, NEW p \in Procs, NEW source, NEW key, Resolved(p, source, key)
  PROVE  Went(p, "cred") \/ (Went(p, "open") /\ proc'[p].next = "cred")
<1> DEFINE pc == IF proc[p].conn THEN "cred" ELSE "open"
<1> DEFINE next == IF proc[p].conn THEN "" ELSE "cred"
<1>1. /\ pc = "cred" \/ (pc = "open" /\ next = "cred")
      /\ proc' = [proc EXCEPT ![p].source = source, ![p].key = key, ![p].pc = pc,
                             ![p].next = next]
  BY DEF Resolved
<1> HIDE DEF pc, next
<1>2. Went(p, pc) /\ proc'[p].next = next
  <2> DEFINE c == proc[p]
  <2> DEFINE r == [c EXCEPT !.source = source, !.key = key, !.pc = pc, !.next = next]
  <2>1. IsCall(c) /\ r = [c EXCEPT !.source = source, !.key = key, !.pc = pc, !.next = next]
    BY DEF Calls
  <2>2. proc' = [proc EXCEPT ![p] = r]
    BY <1>1 DEF Calls
  <2> HIDE DEF c, r
  <2>3. IsCall(r)
    BY <2>1 DEF IsCall
  <2>4. /\ r.mode = c.mode /\ r.conn = c.conn /\ r.lock = c.lock /\ r.tool = c.tool
        /\ r.pc = pc /\ r.next = next
    BY <2>1 DEF IsCall
  <2> QED
    BY <2>2, <2>3, <2>4, UpdateWent DEF c
<1> QED
  BY <1>1, <1>2

LEMMA TowardsEffect ==
  ASSUME Calls, NEW p \in Procs, NEW item, Towards(p, item)
  PROVE  Went(p, "record")
<1> DEFINE c == proc[p]
<1> DEFINE r == [c EXCEPT !.pc = "record", !.item = item]
<1>1. IsCall(c) /\ r = [c EXCEPT !.pc = "record", !.item = item]
  BY DEF Calls
<1>2. proc' = [proc EXCEPT ![p] = r]
  BY DEF Towards, Calls
<1> HIDE DEF c, r
<1>3. IsCall(r)
  BY <1>1 DEF IsCall
<1>4. /\ r.mode = c.mode /\ r.conn = c.conn /\ r.lock = c.lock /\ r.tool = c.tool
      /\ r.pc = "record"
  BY <1>1 DEF IsCall
<1> QED
  BY <1>2, <1>3, <1>4, UpdateWent DEF c

RecTo(p, pc, rec) == proc' = [proc EXCEPT ![p].pc = pc, ![p].rec = rec]

LEMMA RecEffect ==
  ASSUME Calls, NEW p \in Procs, NEW pc, NEW rec, RecTo(p, pc, rec)
  PROVE  Went(p, pc)
<1> DEFINE c == proc[p]
<1> DEFINE r == [c EXCEPT !.pc = pc, !.rec = rec]
<1>1. IsCall(c) /\ r = [c EXCEPT !.pc = pc, !.rec = rec]
  BY DEF Calls
<1>2. proc' = [proc EXCEPT ![p] = r]
  BY DEF Calls, RecTo
<1> HIDE DEF c, r
<1>3. IsCall(r)
  BY <1>1 DEF IsCall
<1>4. /\ r.mode = c.mode /\ r.conn = c.conn /\ r.lock = c.lock /\ r.tool = c.tool
      /\ r.pc = pc
  BY <1>1 DEF IsCall
<1> QED
  BY <1>2, <1>3, <1>4, UpdateWent DEF c

SeenTo(p, pc, seen) == proc' = [proc EXCEPT ![p].seen = seen, ![p].pc = pc]

LEMMA SeenEffect ==
  ASSUME Calls, NEW p \in Procs, NEW pc, NEW seen, SeenTo(p, pc, seen)
  PROVE  Went(p, pc)
<1> DEFINE c == proc[p]
<1> DEFINE r == [c EXCEPT !.seen = seen, !.pc = pc]
<1>1. IsCall(c) /\ r = [c EXCEPT !.seen = seen, !.pc = pc]
  BY DEF Calls
<1>2. proc' = [proc EXCEPT ![p] = r]
  BY DEF Calls, SeenTo
<1> HIDE DEF c, r
<1>3. IsCall(r)
  BY <1>1 DEF IsCall
<1>4. /\ r.mode = c.mode /\ r.conn = c.conn /\ r.lock = c.lock /\ r.tool = c.tool
      /\ r.pc = pc
  BY <1>1 DEF IsCall
<1> QED
  BY <1>2, <1>3, <1>4, UpdateWent DEF c

OkTo(p, pc, ok) == proc' = [proc EXCEPT ![p].pc = pc, ![p].ok = ok]

LEMMA OkEffect ==
  ASSUME Calls, NEW p \in Procs, NEW pc, NEW ok, OkTo(p, pc, ok)
  PROVE  Went(p, pc)
<1> DEFINE c == proc[p]
<1> DEFINE r == [c EXCEPT !.pc = pc, !.ok = ok]
<1>1. IsCall(c) /\ r = [c EXCEPT !.pc = pc, !.ok = ok]
  BY DEF Calls
<1>2. proc' = [proc EXCEPT ![p] = r]
  BY DEF Calls, OkTo
<1> HIDE DEF c, r
<1>3. IsCall(r)
  BY <1>1 DEF IsCall
<1>4. /\ r.mode = c.mode /\ r.conn = c.conn /\ r.lock = c.lock /\ r.tool = c.tool
      /\ r.pc = pc
  BY <1>1 DEF IsCall
<1> QED
  BY <1>2, <1>3, <1>4, UpdateWent DEF c

-----------------------------------------------------------------------------
(* What a step does to the files.                                          *)

SameFiles(d) ==
  /\ IsDisk(d) /\ d.marker = disk.marker /\ d.ledger = disk.ledger /\ d.record = disk.record

LEMMA FilesEffect ==
  ASSUME IsDisk(disk), NEW d, NEW x, NEW y,
         \/ d = [disk EXCEPT !.snapshots = x]
         \/ d = [disk EXCEPT !.staging = x]
         \/ d = [disk EXCEPT !.copies = x]
         \/ d = [disk EXCEPT !.copies = x, !.snapshots = y]
         \/ d = [disk EXCEPT !.staging = x, !.published = y]
         \/ d = [disk EXCEPT !.published = x, !.staging = y]
  PROVE  SameFiles(d)
<1>1. /\ d = [ledger |-> d.ledger, marker |-> d.marker, record |-> d.record,
              snapshots |-> d.snapshots, copies |-> d.copies, published |-> d.published,
              staging |-> d.staging]
      /\ d.marker = disk.marker /\ d.ledger = disk.ledger /\ d.record = disk.record
  BY DEF IsDisk
<1> QED
  BY <1>1 DEF IsDisk, SameFiles

LEMMA MarkerEffect ==
  ASSUME IsDisk(disk), NEW x, disk' = [disk EXCEPT !.marker = x]
  PROVE  /\ IsDisk(disk)' /\ disk'.marker = x /\ disk'.ledger = disk.ledger
         /\ disk'.record = disk.record
<1>1. /\ disk' = [ledger |-> disk.ledger, marker |-> x, record |-> disk.record,
              snapshots |-> disk.snapshots, copies |-> disk.copies, published |-> disk.published,
              staging |-> disk.staging]
  BY DEF IsDisk
<1> QED
  BY <1>1 DEF IsDisk

LEMMA RecordEffect ==
  ASSUME IsDisk(disk), NEW r, IsRecord(r), disk' = [disk EXCEPT !.record = r]
  PROVE  /\ IsDisk(disk)' /\ disk'.marker = disk.marker /\ disk'.ledger = disk.ledger
         /\ disk'.record = r
<1>1. disk' = [ledger |-> disk.ledger, marker |-> disk.marker, record |-> r,
              snapshots |-> disk.snapshots, copies |-> disk.copies, published |-> disk.published,
              staging |-> disk.staging]
  BY DEF IsDisk
<1> QED
  BY <1>1 DEF IsDisk

LEMMA TornEffect ==
  ASSUME IsDisk(disk), NEW x, disk' = [disk EXCEPT !.record.torn = x]
  PROVE  /\ IsDisk(disk)' /\ disk'.marker = disk.marker /\ disk'.ledger = disk.ledger
         /\ disk'.record.lines = disk.record.lines
<1> DEFINE c == disk.record
<1> DEFINE r == [c EXCEPT !.torn = x]
<1>1. disk' = [disk EXCEPT !.record = r] /\ IsRecord(c) /\ r = [c EXCEPT !.torn = x]
  BY DEF IsDisk
<1> HIDE DEF c, r
<1>2. IsRecord(r) /\ r.lines = c.lines
  BY <1>1 DEF IsRecord
<1> QED
  BY <1>1, <1>2, RecordEffect DEF c

LEMMA LineEffect ==
  ASSUME IsDisk(disk), NEW x, NEW y,
         disk' = [disk EXCEPT !.record.torn = x, !.record.lines = y]
  PROVE  /\ IsDisk(disk)' /\ disk'.marker = disk.marker /\ disk'.ledger = disk.ledger
         /\ disk'.record.lines = y
<1> DEFINE c == disk.record
<1> DEFINE r == [c EXCEPT !.torn = x, !.lines = y]
<1>1. disk' = [disk EXCEPT !.record = r] /\ IsRecord(c) /\ r = [c EXCEPT !.torn = x, !.lines = y]
  BY DEF IsDisk
<1> HIDE DEF c, r
<1>2. IsRecord(r) /\ r.lines = y
  BY <1>1 DEF IsRecord
<1> QED
  BY <1>1, <1>2, RecordEffect DEF c

LEMMA CopyEffect ==
  ASSUME IsDisk(disk), NEW x, NEW y,
         \/ disk' = [disk EXCEPT !.record.copy = x]
         \/ disk' = [disk EXCEPT !.record.copy = x, !.record.torn = y]
  PROVE  /\ IsDisk(disk)' /\ disk'.marker = disk.marker /\ disk'.ledger = disk.ledger
         /\ disk'.record.lines = disk.record.lines
<1> DEFINE c == disk.record
<1>1. PICK r : disk' = [disk EXCEPT !.record = r] /\ IsRecord(c) /\ (r = [c EXCEPT !.copy = x] \/ r = [c EXCEPT !.copy = x, !.torn = y])
  <2>1. CASE disk' = [disk EXCEPT !.record.copy = x]
     <3> WITNESS [c EXCEPT !.copy = x]
     <3> QED BY <2>1 DEF IsDisk
  <2>2. CASE disk' = [disk EXCEPT !.record.copy = x, !.record.torn = y]
     <3> WITNESS [c EXCEPT !.copy = x, !.torn = y]
     <3> QED BY <2>2 DEF IsDisk
  <2> QED BY <2>1, <2>2
<1> HIDE DEF c
<1>2. IsRecord(r) /\ r.lines = c.lines
  BY <1>1 DEF IsRecord
<1> QED
  BY <1>1, <1>2, RecordEffect DEF c

LEMMA WholeEffect ==
  ASSUME IsDisk(disk), NEW y, disk' = [disk EXCEPT !.record = [NoRecord EXCEPT !.lines = y]]
  PROVE  /\ IsDisk(disk)' /\ disk'.marker = disk.marker /\ disk'.ledger = disk.ledger
         /\ disk'.record.lines = y
<1> DEFINE c == NoRecord
<1> DEFINE r == [c EXCEPT !.lines = y]
<1>1. r = [c EXCEPT !.lines = y] /\ disk' = [disk EXCEPT !.record = r]
  OBVIOUS
<1> HIDE DEF r
<1>2. IsRecord(c)
  BY DEF NoRecord, IsRecord
<1> HIDE DEF c
<1>3. IsRecord(r) /\ r.lines = y
  BY <1>1, <1>2 DEF IsRecord
<1> QED
  BY <1>1, <1>3, RecordEffect

LEMMA LedgerEffect ==
  ASSUME IsDisk(disk), NEW p \in Procs, proc[p].mode \in Modes, NEW l, IsLedger(l),
         WriteLedger(p, l)
  PROVE  /\ IsDisk(disk)' /\ disk'.marker = disk.marker /\ disk'.record = disk.record
         /\ disk'.ledger[proc[p].mode] = l
         /\ \A m \in Modes \ {proc[p].mode} : disk'.ledger[m] = disk.ledger[m]
<1> DEFINE ledger == [disk.ledger EXCEPT ![proc[p].mode] = l]
<1>1. disk' = [ledger |-> ledger, marker |-> disk.marker, record |-> disk.record,
              snapshots |-> disk.snapshots, copies |-> disk.copies, published |-> disk.published,
              staging |-> disk.staging]
  BY DEF IsDisk, WriteLedger
<1>2. /\ ledger = [m \in Modes |-> ledger[m]] /\ ledger[proc[p].mode] = l
      /\ \A m \in Modes \ {proc[p].mode} : ledger[m] = disk.ledger[m]
  BY DEF IsDisk
<1> HIDE DEF ledger
<1>3. \A m \in Modes : IsLedger(ledger[m])
  BY <1>2 DEF IsDisk
<1> QED
  BY <1>1, <1>2, <1>3 DEF IsDisk

\* A write that may leave a backup copy, as one formula.
WriteData(p, l, x) == disk' = [disk EXCEPT !.ledger[proc[p].mode] = l, !.copies = x]

LEMMA DataEffect ==
  ASSUME IsDisk(disk), NEW p \in Procs, proc[p].mode \in Modes, NEW l, IsLedger(l), NEW x, WriteData(p, l, x)
  PROVE  /\ IsDisk(disk)' /\ disk'.marker = disk.marker /\ disk'.record = disk.record
         /\ disk'.ledger[proc[p].mode] = l
         /\ \A m \in Modes \ {proc[p].mode} : disk'.ledger[m] = disk.ledger[m]
<1> DEFINE ledger == [disk.ledger EXCEPT ![proc[p].mode] = l]
<1>1. disk' = [ledger |-> ledger, marker |-> disk.marker, record |-> disk.record,
              snapshots |-> disk.snapshots, copies |-> x, published |-> disk.published,
              staging |-> disk.staging]
  BY DEF IsDisk, WriteData
<1>2. /\ ledger = [m \in Modes |-> ledger[m]] /\ ledger[proc[p].mode] = l
      /\ \A m \in Modes \ {proc[p].mode} : ledger[m] = disk.ledger[m]
  BY DEF IsDisk
<1> HIDE DEF ledger
<1>3. \A m \in Modes : IsLedger(ledger[m])
  BY <1>2 DEF IsDisk
<1> QED
  BY <1>1, <1>2, <1>3 DEF IsDisk

-----------------------------------------------------------------------------
(* The invariants.                                                         *)

Bodies == {"lift", "cred", "write", "stage", "vanished", "rows"}

Numbers ==
  /\ issued = [instance |-> issued.instance, nonce |-> issued.nonce, app |-> issued.app]
  /\ issued.nonce \in Nat

Shapes == sc \in Scenarios /\ Calls /\ IsDisk(disk) /\ Numbers

\* Where a call is, or will be once the ledger is open.
Aim(p) == IF proc[p].pc \in Inside THEN proc[p].next ELSE proc[p].pc

\* A call is where its tool leads, under the lock its tool takes.
Post(p) ==
  /\ proc[p].pc \notin {"down", "idle"} => proc[p].tool \in Tools
  /\ proc[p].pc \in Inside => proc[p].next \in Bodies
  /\ Aim(p) \in Laddering => proc[p].tool \in Binding
  /\ Aim(p) \in Erasing => proc[p].tool \in Erasers
  /\ Aim(p) \in Filling => proc[p].tool \in {"write", "daily", "export"}
  /\ proc[p].lock \in {"none", "sh", "ex"}
  /\ proc[p].lock = "none" <=> proc[p].pc \in Asleep
  /\ proc[p].lock = "ex" => proc[p].tool \in Exclusive
  /\ proc[p].lock = "sh" => proc[p].tool \notin Exclusive

Locks ==
  /\ \A p \in Procs : Post(p)
  /\ \A p \in Procs : opener = p <=> proc[p].pc \in Opening
  /\ \A p \in Procs : proc[p].lock = "ex" =>
       kids = {} /\ \A q \in Procs \ {p} : proc[q].lock = "none"

\* While a ledger is being opened the other mode's is not there, and the marker
\* is ours or about to be.
World ==
  /\ OneWorld
  /\ \A p \in Procs : proc[p].pc \in Opening =>
       /\ ~disk.ledger[Other(proc[p].mode)].there
       /\ disk.marker \in {"absent", "torn", proc[p].mode}
       /\ disk.marker = "torn" <=> proc[p].pc = "sign"

Schemas ==
  /\ SchemaWhole
  /\ \A m \in Modes : disk.ledger[m].tables \in 0 .. Tables
  /\ \A p \in Procs : proc[p].pc \in {"mint", "mark", "sign"} => Ledger(p).version = Current

\* A nonce is recorded before anything carries it, and a line goes only when
\* nothing does.
Records ==
  /\ RecordedUntilGone
  /\ 0 \notin disk.record.lines
  /\ \A kid \in kids : kid.nonce \in disk.record.lines
  /\ \A p \in Procs :
       /\ proc[p].pc = "line" => proc[p].nonce # 0
       /\ proc[p].pc = "create" => proc[p].nonce \in disk.record.lines
       /\ proc[p].pc = "rewrite" =>
            /\ proc[p].kept \subseteq disk.record.lines
            /\ \A i \in vault : i.nonce # 0 => i.nonce \in proc[p].kept

Installed == Shapes /\ Locks /\ World /\ Schemas /\ Records

-----------------------------------------------------------------------------
(* Steps that touch neither the door nor the record.                       *)

SameDoor ==
  /\ disk'.marker = disk.marker
  /\ \A m \in Modes :
       /\ disk'.ledger[m].there = disk.ledger[m].there
       /\ disk'.ledger[m].tables = disk.ledger[m].tables
       /\ disk'.ledger[m].version = disk.ledger[m].version

\* The call of p goes on to a place that needs nothing, or returns.
Goes(p) ==
  /\ proc[p].pc \notin Asleep \cup Opening
  /\ \/ Returned(p)
     \/ /\ Went(p, proc'[p].pc) /\ Post(p)'
        /\ proc'[p].pc \notin Asleep \cup Opening \cup Writing

Plain(p) ==
  /\ Shapes' /\ Goes(p) /\ SameDoor /\ disk'.record.lines = disk.record.lines
  /\ UNCHANGED <<sc, vault, opener, kids>>

\* The same without a word about the record.
Walks(p) ==
  /\ Shapes' /\ SameDoor /\ UNCHANGED <<sc, opener>>
  /\ proc[p].pc \notin Asleep \cup Opening
  /\ \/ Returned(p)
     \/ /\ Went(p, proc'[p].pc) /\ Post(p)'
        /\ proc'[p].pc \notin Asleep \cup Opening

LEMMA WalkKeepsLocks ==
  ASSUME Shapes, Locks, NEW p \in Procs, Walks(p),
         \A q \in Procs : proc[q].lock = "ex" => kids' = {}
  PROVE  Locks'
<1>1. \A q \in Procs \ {p} : proc'[q] = proc[q]
  BY DEF Walks, Returned, Went, Alone
<1>2. Post(p)'
  BY PcSets DEF Walks, Returned, Post, Aim
<1>3. \A q \in Procs : Post(q)'
  BY <1>1, <1>2 DEF Locks, Post, Aim
<1>4. \A q \in Procs : (opener = q <=> proc[q].pc \in Opening)'
  <2>1. proc[p].pc \notin Opening /\ proc'[p].pc \notin Opening /\ opener' = opener
    BY PcSets DEF Walks, Returned
  <2> QED
    BY <1>1, <2>1 DEF Locks
<1>5. ASSUME NEW q \in Procs, proc'[q].lock = "ex"
      PROVE  kids' = {} /\ \A r \in Procs \ {q} : proc'[r].lock = "none"
  <2>1. proc'[p].lock \in {"none", proc[p].lock}
    BY DEF Walks, Returned, Went
  <2>2. proc[q].lock = "ex"
    BY <1>1, <1>5, <2>1
  <2> QED
    BY <1>1, <2>1, <2>2 DEF Locks
<1> QED
  BY <1>3, <1>4, <1>5 DEF Locks

LEMMA WalkKeepsWorld ==
  ASSUME Shapes, World, NEW p \in Procs, Walks(p)
  PROVE  World'
<1>1. /\ \A q \in Procs \ {p} : proc'[q] = proc[q]
      /\ proc'[p].mode = proc[p].mode /\ proc'[p].conn = proc[p].conn
  BY DEF Walks, Returned, Went, Alone
<1>2. proc'[p].pc \notin Opening
  BY PcSets DEF Walks, Returned
<1>3. SameDoor
  BY DEF Walks
<1>4. \A q \in Procs : proc[q].mode \in Modes
  BY DEF Shapes, Calls
<1> QED
  BY <1>1, <1>2, <1>3, <1>4, OtherMode DEF World, OneWorld, SameDoor

LEMMA WalkKeepsSchemas ==
  ASSUME Shapes, Schemas, NEW p \in Procs, Walks(p)
  PROVE  Schemas'
<1>1. /\ \A q \in Procs \ {p} : proc'[q] = proc[q]
      /\ proc'[p].mode = proc[p].mode /\ proc'[p].conn = proc[p].conn
  BY DEF Walks, Returned, Went, Alone
<1>2. proc'[p].pc \notin {"mint", "mark", "sign"}
  BY PcSets DEF Walks, Returned
<1>3. SameDoor
  BY DEF Walks
<1>4. \A q \in Procs : proc[q].mode \in Modes
  BY DEF Shapes, Calls
<1> QED
  BY <1>1, <1>2, <1>3, <1>4 DEF Schemas, SchemaWhole, SameDoor, Ledger

LEMMA WalkKeeps ==
  ASSUME Installed, NEW p \in Procs, Walks(p), Records',
         \A q \in Procs : proc[q].lock = "ex" => kids' = {}
  PROVE  Installed'
BY WalkKeepsLocks, WalkKeepsWorld, WalkKeepsSchemas DEF Installed, Walks

LEMMA PlainKeepsRecords ==
  ASSUME Shapes, Records, NEW p \in Procs, Plain(p)
  PROVE  Records'
<1>1. \A q \in Procs \ {p} : proc'[q] = proc[q]
  BY DEF Plain, Goes, Returned, Went, Alone
<1>2. proc'[p].pc \notin Writing
  BY PcSets DEF Plain, Goes, Returned
<1>3. vault' = vault /\ kids' = kids /\ sc' = sc /\ disk'.record.lines = disk.record.lines
  BY DEF Plain
<1> QED
  BY <1>1, <1>2, <1>3, PcSets DEF Records, RecordedUntilGone

LEMMA PlainKeeps ==
  ASSUME Installed, NEW p \in Procs, Plain(p)
  PROVE  Installed'
<1>1. Walks(p) /\ kids' = kids
  BY DEF Plain, Goes, Walks
<1>2. \A q \in Procs : proc[q].lock = "ex" => kids' = {}
  BY <1>1 DEF Installed, Locks
<1>3. Records'
  BY PlainKeepsRecords DEF Installed
<1> QED
  BY <1>1, <1>2, <1>3, WalkKeeps

Files == IsDisk(disk)' /\ SameDoor /\ disk'.record.lines = disk.record.lines

LEMMA FilesStay ==
  ASSUME IsDisk(disk), UNCHANGED disk
  PROVE  Files
BY DEF Files, SameDoor, IsDisk

LEMMA FilesBeside ==
  ASSUME IsDisk(disk), SameFiles(disk')
  PROVE  Files
BY DEF Files, SameDoor, SameFiles

LEMMA FilesOfRows ==
  ASSUME Calls, IsDisk(disk), NEW p \in Procs, NEW l, IsLedger(l), WriteLedger(p, l),
         l.there = Ledger(p).there, l.tables = Ledger(p).tables, l.version = Ledger(p).version
  PROVE  Files
<1>1. proc[p].mode \in Modes
  BY DEF Calls
<1>2. /\ IsDisk(disk)' /\ disk'.marker = disk.marker /\ disk'.record = disk.record
      /\ disk'.ledger[proc[p].mode] = l
      /\ \A m \in Modes \ {proc[p].mode} : disk'.ledger[m] = disk.ledger[m]
  BY <1>1, LedgerEffect
<1> QED
  BY <1>2 DEF Files, SameDoor, Ledger

LEMMA RowsShape ==
  ASSUME Calls, IsDisk(disk), NEW p \in Procs
  PROVE  IsLedger(Ledger(p))
BY DEF Calls, IsDisk, Ledger

LEMMA LadderGoes ==
  ASSUME Locks, NEW p \in Procs, proc[p].pc \in Laddering,
         \/ Returned(p)
         \/ \E pc \in Laddering \ Writing : Went(p, pc)
         \/ Went(p, "open") /\ proc'[p].next \in {"lift", "cred"}
  PROVE  Goes(p)
<1>1. proc[p].pc \notin Asleep \cup Opening /\ Post(p)
  BY PcSets DEF Locks
<1>2. /\ proc[p].tool \in Binding /\ proc[p].tool \in Tools
      /\ proc[p].lock # "none"
  BY <1>1, PcSets DEF Post, Aim
<1>3. CASE Returned(p)
  BY <1>1, <1>3 DEF Goes
<1>4. CASE \E pc \in Laddering \ Writing : Went(p, pc)
  BY <1>1, <1>2, <1>4, PcSets DEF Goes, Went, Post, Aim
<1>5. CASE Went(p, "open") /\ proc'[p].next \in {"lift", "cred"}
  BY <1>1, <1>2, <1>5, PcSets DEF Goes, Went, Post, Aim, Bodies
<1> QED
  BY <1>3, <1>4, <1>5

LEMMA EraseGoes ==
  ASSUME Locks, NEW p \in Procs, proc[p].pc \in Erasing,
         \/ Returned(p)
         \/ \E pc \in Erasing \ Writing : Went(p, pc)
  PROVE  Goes(p)
<1>1. proc[p].pc \notin Asleep \cup Opening /\ Post(p)
  BY PcSets DEF Locks
<1>2. /\ proc[p].tool \in Erasers /\ proc[p].tool \in Tools
      /\ proc[p].lock # "none"
  BY <1>1, PcSets DEF Post, Aim
<1>3. CASE Returned(p)
  BY <1>1, <1>3 DEF Goes
<1>4. CASE \E pc \in Erasing \ Writing : Went(p, pc)
  BY <1>1, <1>2, <1>4, PcSets DEF Goes, Went, Post, Aim
<1> QED
  BY <1>3, <1>4

LEMMA PlainOf ==
  ASSUME Shapes, NEW p \in Procs, Goes(p), Files, Numbers', UNCHANGED <<sc, vault, opener, kids>>
  PROVE  Plain(p)
BY DEF Plain, Shapes, Goes, Files, Returned, Went, Alone

LEMMA NumbersStay == ASSUME Numbers, UNCHANGED issued PROVE Numbers'
BY DEF Numbers

-----------------------------------------------------------------------------
(* The setup ladder.                                                       *)

LEMMA ResolveKeyIsPlain ==
  ASSUME Installed, NEW p \in Procs, ResolveKey(p)
  PROVE  Plain(p)
<1>1. Calls /\ Locks /\ Shapes /\ proc[p].pc \in Laddering
  BY PcSets DEF Installed, Shapes, ResolveKey
<1>2. Returned(p) \/ Went(p, "absent") \/ Went(p, "cred") \/ (Went(p, "open") /\ proc'[p].next = "cred")
  BY <1>1, GotoEffect, ReturnEffect, StopEffect, OpenedEffect, ResolvedEffect, TowardsEffect DEF ResolveKey
<1>3. Goes(p)
  BY <1>1, <1>2, LadderGoes, PcSets
<1>4. Files /\ Numbers' /\ UNCHANGED <<sc, vault, opener, kids>>
  BY FilesStay, NumbersStay DEF ResolveKey, Installed, Shapes
<1> QED
  BY <1>1, <1>3, <1>4, PlainOf

LEMMA ConfirmAbsentIsPlain ==
  ASSUME Installed, NEW p \in Procs, ConfirmAbsent(p)
  PROVE  Plain(p)
<1>1. Calls /\ Locks /\ Shapes /\ proc[p].pc \in Laddering
  BY PcSets DEF Installed, Shapes, ConfirmAbsent
<1>2. Returned(p) \/ Went(p, "record")
  BY <1>1, GotoEffect, ReturnEffect, StopEffect, OpenedEffect, ResolvedEffect, TowardsEffect DEF ConfirmAbsent
<1>3. Goes(p)
  BY <1>1, <1>2, LadderGoes, PcSets
<1>4. Files /\ Numbers' /\ UNCHANGED <<sc, vault, opener, kids>>
  BY FilesStay, NumbersStay DEF ConfirmAbsent, Installed, Shapes
<1> QED
  BY <1>1, <1>3, <1>4, PlainOf

LEMMA AnswerIsPlain ==
  ASSUME Installed, NEW p \in Procs, Answer(p)
  PROVE  Plain(p)
<1>1. Calls /\ Locks /\ Shapes /\ proc[p].pc \in Laddering
  BY PcSets DEF Installed, Shapes, Answer
<1>2. Returned(p) \/ Went(p, "readback") \/ Went(p, "app")
  BY <1>1, GotoEffect, ReturnEffect, StopEffect, OpenedEffect, ResolvedEffect, TowardsEffect DEF Answer, NotCreated
<1>3. Goes(p)
  BY <1>1, <1>2, LadderGoes, PcSets
<1>4. Files /\ Numbers' /\ UNCHANGED <<sc, vault, opener, kids>>
  BY FilesStay, NumbersStay DEF Answer, Installed, Shapes
<1> QED
  BY <1>1, <1>3, <1>4, PlainOf

LEMMA ReadBackIsPlain ==
  ASSUME Installed, NEW p \in Procs, ReadBack(p)
  PROVE  Plain(p)
<1>1. Calls /\ Locks /\ Shapes /\ proc[p].pc \in Laddering
  BY PcSets DEF Installed, Shapes, ReadBack
<1>2. Returned(p) \/ Went(p, "cred") \/ (Went(p, "open") /\ proc'[p].next = "cred")
  BY <1>1, GotoEffect, ReturnEffect, StopEffect, OpenedEffect, ResolvedEffect, TowardsEffect DEF ReadBack
<1>3. Goes(p)
  BY <1>1, <1>2, LadderGoes, PcSets
<1>4. Files /\ Numbers' /\ UNCHANGED <<sc, vault, opener, kids>>
  BY FilesStay, NumbersStay DEF ReadBack, Installed, Shapes
<1> QED
  BY <1>1, <1>3, <1>4, PlainOf

LEMMA CredentialIsPlain ==
  ASSUME Installed, NEW p \in Procs, Credential(p)
  PROVE  Plain(p)
<1>1. Calls /\ Locks /\ Shapes /\ proc[p].pc \in Laddering
  BY PcSets DEF Installed, Shapes, Credential
<1>2. Returned(p) \/ Went(p, "record") \/ Went(p, "app")
  BY <1>1, GotoEffect, ReturnEffect, StopEffect, OpenedEffect, ResolvedEffect, TowardsEffect DEF Credential
<1>3. Goes(p)
  BY <1>1, <1>2, LadderGoes, PcSets
<1>4. Files /\ Numbers' /\ UNCHANGED <<sc, vault, opener, kids>>
  BY FilesStay, NumbersStay DEF Credential, Installed, Shapes
<1> QED
  BY <1>1, <1>3, <1>4, PlainOf

LEMMA ReadBindingIsPlain ==
  ASSUME Installed, NEW p \in Procs, ReadBinding(p)
  PROVE  Plain(p)
<1>1. Calls /\ Locks /\ Shapes /\ proc[p].pc \in Laddering
  BY PcSets DEF Installed, Shapes, ReadBinding
<1>2. Went(p, "list")
  <2>1. CASE RecTo(p, "list", Ledger(p).app)
    BY <1>1, <2>1, RecEffect
  <2> QED
    BY <2>1 DEF ReadBinding, RecTo
<1>3. Goes(p)
  BY <1>1, <1>2, LadderGoes, PcSets
<1>4. Files /\ Numbers' /\ UNCHANGED <<sc, vault, opener, kids>>
  BY FilesStay, NumbersStay DEF ReadBinding, Installed, Shapes
<1> QED
  BY <1>1, <1>3, <1>4, PlainOf

LEMMA ListIsPlain ==
  ASSUME Installed, NEW p \in Procs, List(p)
  PROVE  Plain(p)
<1>1. Calls /\ Locks /\ Shapes /\ proc[p].pc \in Laddering
  BY PcSets DEF Installed, Shapes, List
<1>2. Went(p, "bind") \/ Returned(p)
  <2>1. CASE SeenTo(p, "bind", Listing)
    BY <1>1, <2>1, SeenEffect
  <2>2. CASE Stop(p)
    BY <1>1, <2>2, StopEffect
  <2> QED
    BY <2>1, <2>2 DEF List, SeenTo
<1>3. Goes(p)
  BY <1>1, <1>2, LadderGoes, PcSets
<1>4. Files /\ Numbers' /\ UNCHANGED <<sc, vault, opener, kids>>
  BY FilesStay, NumbersStay DEF List, Installed, Shapes
<1> QED
  BY <1>1, <1>3, <1>4, PlainOf

LEMMA VanishedIsPlain ==
  ASSUME Installed, NEW p \in Procs, Vanished(p)
  PROVE  Plain(p)
<1>1. Calls /\ Locks /\ Shapes /\ proc[p].pc \in Laddering
  BY PcSets DEF Installed, Shapes, Vanished
<1>2. Went(p, "accept") \/ Returned(p)
  <2>1. CASE RecTo(p, "accept", Ledger(p).app)
    BY <1>1, <2>1, RecEffect
  <2>2. CASE Stop(p)
    BY <1>1, <2>2, StopEffect
  <2> QED
    BY <2>1, <2>2 DEF Vanished, RecTo
<1>3. Goes(p)
  BY <1>1, <1>2, LadderGoes, PcSets
<1>4. Files /\ Numbers' /\ UNCHANGED <<sc, vault, opener, kids>>
  BY FilesStay, NumbersStay DEF Vanished, Installed, Shapes
<1> QED
  BY <1>1, <1>3, <1>4, PlainOf

LEMMA SearchIsPlain ==
  ASSUME Installed, NEW p \in Procs, Search(p)
  PROVE  Plain(p)
<1>1. Calls /\ Locks /\ Shapes /\ proc[p].pc \in Laddering
  BY PcSets DEF Installed, Shapes, Search
<1>2. Returned(p) \/ Went(p, "keyed") \/ Went(p, "register")
  BY <1>1, GotoEffect, ReturnEffect, StopEffect, OpenedEffect, ResolvedEffect, TowardsEffect DEF Search
<1>3. Goes(p)
  BY <1>1, <1>2, LadderGoes, PcSets
<1>4. Files /\ Numbers' /\ UNCHANGED <<sc, vault, opener, kids>>
  BY FilesStay, NumbersStay DEF Search, Installed, Shapes
<1> QED
  BY <1>1, <1>3, <1>4, PlainOf

LEMMA FilesOfBound ==
  ASSUME Calls, IsDisk(disk), NEW p \in Procs, NEW app, Bound(p, app)
  PROVE  Files
<1> DEFINE c == Ledger(p)
<1> DEFINE l == [c EXCEPT !.app = app]
<1>1. l = [c EXCEPT !.app = app] /\ IsLedger(c)
  BY RowsShape
<1>2. WriteLedger(p, l)
  BY DEF Bound
<1> HIDE DEF c, l
<1>3. IsLedger(l)
  BY <1>1 DEF IsLedger
<1>4. l.there = c.there /\ l.tables = c.tables /\ l.version = c.version
  BY <1>1 DEF IsLedger
<1> QED
  BY <1>2, <1>3, <1>4, FilesOfRows DEF c

LEMMA FilesOfBoundAlive ==
  ASSUME Calls, IsDisk(disk), NEW p \in Procs, NEW app, BoundAlive(p, app)
  PROVE  Files
<1> DEFINE c == Ledger(p)
<1> DEFINE l == [c EXCEPT !.app = app, !.accepted = 0]
<1>1. l = [c EXCEPT !.app = app, !.accepted = 0] /\ IsLedger(c)
  BY RowsShape
<1>2. WriteLedger(p, l)
  BY DEF BoundAlive
<1> HIDE DEF c, l
<1>3. IsLedger(l)
  BY <1>1 DEF IsLedger
<1>4. l.there = c.there /\ l.tables = c.tables /\ l.version = c.version
  BY <1>1 DEF IsLedger
<1> QED
  BY <1>2, <1>3, <1>4, FilesOfRows DEF c

LEMMA FilesOfFence ==
  ASSUME Calls, IsDisk(disk), NEW p \in Procs, NEW fence,
         WriteLedger(p, [Ledger(p) EXCEPT !.fence = fence])
  PROVE  Files
<1> DEFINE c == Ledger(p)
<1> DEFINE l == [c EXCEPT !.fence = fence]
<1>1. l = [c EXCEPT !.fence = fence] /\ IsLedger(c)
  BY RowsShape
<1>2. WriteLedger(p, l)
  OBVIOUS
<1> HIDE DEF c, l
<1>3. IsLedger(l)
  BY <1>1 DEF IsLedger
<1>4. l.there = c.there /\ l.tables = c.tables /\ l.version = c.version
  BY <1>1 DEF IsLedger
<1> QED
  BY <1>2, <1>3, <1>4, FilesOfRows DEF c

LEMMA FilesOfAccept ==
  ASSUME Calls, IsDisk(disk), NEW p \in Procs, NEW accepted,
         WriteLedger(p, [Ledger(p) EXCEPT !.accepted = accepted])
  PROVE  Files
<1> DEFINE c == Ledger(p)
<1> DEFINE l == [c EXCEPT !.accepted = accepted]
<1>1. l = [c EXCEPT !.accepted = accepted] /\ IsLedger(c)
  BY RowsShape
<1>2. WriteLedger(p, l)
  OBVIOUS
<1> HIDE DEF c, l
<1>3. IsLedger(l)
  BY <1>1 DEF IsLedger
<1>4. l.there = c.there /\ l.tables = c.tables /\ l.version = c.version
  BY <1>1 DEF IsLedger
<1> QED
  BY <1>2, <1>3, <1>4, FilesOfRows DEF c

LEMMA FilesOfConsents ==
  ASSUME Calls, IsDisk(disk), NEW p \in Procs, NEW consents,
         WriteLedger(p, [Ledger(p) EXCEPT !.consents = consents])
  PROVE  Files
<1> DEFINE c == Ledger(p)
<1> DEFINE l == [c EXCEPT !.consents = consents]
<1>1. l = [c EXCEPT !.consents = consents] /\ IsLedger(c)
  BY RowsShape
<1>2. WriteLedger(p, l)
  OBVIOUS
<1> HIDE DEF c, l
<1>3. IsLedger(l)
  BY <1>1 DEF IsLedger
<1>4. l.there = c.there /\ l.tables = c.tables /\ l.version = c.version
  BY <1>1 DEF IsLedger
<1> QED
  BY <1>2, <1>3, <1>4, FilesOfRows DEF c

LEMMA LiftIsPlain ==
  ASSUME Installed, NEW p \in Procs, Lift(p)
  PROVE  Plain(p)
<1>1. Calls /\ Locks /\ Shapes /\ proc[p].pc \in Laddering
  BY PcSets DEF Installed, Shapes, Lift
<1>2. Returned(p) \/ Went(p, "key") \/ Went(p, "lift") \/ (Went(p, "open") /\ proc'[p].next = "lift")
  BY <1>1, GotoEffect, ReturnEffect, StopEffect, OpenedEffect, ResolvedEffect, TowardsEffect DEF Lift
<1>3. Goes(p)
  BY <1>1, <1>2, LadderGoes, PcSets
<1>4. Files /\ Numbers' /\ UNCHANGED <<sc, vault, opener, kids>>
  BY <1>1, FilesStay, NumbersStay, FilesOfFence DEF Lift, Shapes
<1> QED
  BY <1>1, <1>3, <1>4, PlainOf

LEMMA WiredAppIsPlain ==
  ASSUME Installed, NEW p \in Procs, WiredApp(p)
  PROVE  Plain(p)
<1>1. Calls /\ Locks /\ Shapes /\ proc[p].pc \in Laddering
  BY PcSets DEF Installed, Shapes, WiredApp
<1>2. Returned(p) \/ Went(p, "health")
  BY <1>1, GotoEffect, ReturnEffect, StopEffect, OpenedEffect, ResolvedEffect, TowardsEffect DEF WiredApp
<1>3. Goes(p)
  BY <1>1, <1>2, LadderGoes, PcSets
<1>4. Files /\ Numbers' /\ UNCHANGED <<sc, vault, opener, kids>>
  BY <1>1, FilesStay, NumbersStay, FilesOfBound DEF WiredApp, Shapes
<1> QED
  BY <1>1, <1>3, <1>4, PlainOf

LEMMA RecogniseIsPlain ==
  ASSUME Installed, NEW p \in Procs, Recognise(p)
  PROVE  Plain(p)
<1>1. Calls /\ Locks /\ Shapes /\ proc[p].pc \in Laddering
  BY PcSets DEF Installed, Shapes, Recognise
<1>2. Returned(p) \/ Went(p, "health")
  BY <1>1, GotoEffect, ReturnEffect, StopEffect, OpenedEffect, ResolvedEffect, TowardsEffect DEF Recognise
<1>3. Goes(p)
  BY <1>1, <1>2, LadderGoes, PcSets
<1>4. Files /\ Numbers' /\ UNCHANGED <<sc, vault, opener, kids>>
  BY <1>1, FilesStay, NumbersStay, FilesOfBoundAlive DEF Recognise, Shapes
<1> QED
  BY <1>1, <1>3, <1>4, PlainOf

LEMMA KeyedIsPlain ==
  ASSUME Installed, NEW p \in Procs, Keyed(p)
  PROVE  Plain(p)
<1>1. Calls /\ Locks /\ Shapes /\ proc[p].pc \in Laddering
  BY PcSets DEF Installed, Shapes, Keyed
<1>2. Returned(p) \/ Went(p, "health")
  BY <1>1, GotoEffect, ReturnEffect, StopEffect, OpenedEffect, ResolvedEffect, TowardsEffect DEF Keyed, Mismatch
<1>3. Goes(p)
  BY <1>1, <1>2, LadderGoes, PcSets
<1>4. Files /\ Numbers' /\ UNCHANGED <<sc, vault, opener, kids>>
  BY <1>1, FilesStay, NumbersStay, FilesOfBoundAlive DEF Keyed, Shapes
<1> QED
  BY <1>1, <1>3, <1>4, PlainOf

LEMMA VerifyIsPlain ==
  ASSUME Installed, NEW p \in Procs, Verify(p)
  PROVE  Plain(p)
<1>1. Calls /\ Locks /\ Shapes /\ proc[p].pc \in Laddering
  BY PcSets DEF Installed, Shapes, Verify
<1>2. Returned(p) \/ Went(p, "health")
  BY <1>1, GotoEffect, ReturnEffect, StopEffect, OpenedEffect, ResolvedEffect, TowardsEffect DEF Verify
<1>3. Goes(p)
  BY <1>1, <1>2, LadderGoes, PcSets
<1>4. Files /\ Numbers' /\ UNCHANGED <<sc, vault, opener, kids>>
  BY <1>1, FilesStay, NumbersStay, FilesOfBoundAlive DEF Verify, Shapes
<1> QED
  BY <1>1, <1>3, <1>4, PlainOf

LEMMA HealthIsPlain ==
  ASSUME Installed, NEW p \in Procs, Health(p)
  PROVE  Plain(p)
<1>1. Calls /\ Locks /\ Shapes /\ proc[p].pc \in Laddering
  BY PcSets DEF Installed, Shapes, Health
<1>2. Returned(p)
  BY <1>1, GotoEffect, ReturnEffect, StopEffect, OpenedEffect, ResolvedEffect, TowardsEffect DEF Health
<1>3. Goes(p)
  BY <1>1, <1>2, LadderGoes, PcSets
<1>4. Files /\ Numbers' /\ UNCHANGED <<sc, vault, opener, kids>>
  BY <1>1, FilesStay, NumbersStay, FilesOfBoundAlive DEF Health, Shapes
<1> QED
  BY <1>1, <1>3, <1>4, PlainOf

LEMMA AcceptIsPlain ==
  ASSUME Installed, NEW p \in Procs, Accept(p)
  PROVE  Plain(p)
<1>1. Calls /\ Locks /\ Shapes /\ proc[p].pc \in Laddering
  BY PcSets DEF Installed, Shapes, Accept
<1>2. Returned(p)
  BY <1>1, GotoEffect, ReturnEffect, StopEffect, OpenedEffect, ResolvedEffect, TowardsEffect DEF Accept
<1>3. Goes(p)
  BY <1>1, <1>2, LadderGoes, PcSets
<1>4. Files /\ Numbers' /\ UNCHANGED <<sc, vault, opener, kids>>
  BY <1>1, FilesStay, NumbersStay, FilesOfAccept DEF Accept, Shapes
<1> QED
  BY <1>1, <1>3, <1>4, PlainOf

LEMMA RegisterIsPlain ==
  ASSUME Installed, NEW p \in Procs, Register(p)
  PROVE  Plain(p)
<1>1. Calls /\ Locks /\ Shapes /\ proc[p].pc \in Laddering
  BY PcSets DEF Installed, Shapes, Register
<1>2. Went(p, "verify") \/ Returned(p)
  <2>1. CASE RecTo(p, "verify", issued.app + 1)
    BY <1>1, <2>1, RecEffect
  <2>2. CASE Stop(p)
    BY <1>1, <2>2, StopEffect
  <2> QED
    BY <2>1, <2>2 DEF Register, RecTo
<1>3. Goes(p)
  BY <1>1, <1>2, LadderGoes, PcSets
<1>4. Files /\ UNCHANGED <<sc, vault, opener, kids>>
  BY <1>1, FilesStay DEF Register, Shapes
<1>5. issued' = issued \/ issued' = [issued EXCEPT !.app = issued.app + 1]
  BY DEF Register
<1>6. Numbers'
  BY <1>1, <1>5 DEF Shapes, Numbers
<1> QED
  BY <1>1, <1>3, <1>4, <1>6, PlainOf

-----------------------------------------------------------------------------
(* The erasers, the writers and the dispatcher.                            *)

LEMMA FilesOfEmptied ==
  ASSUME Calls, IsDisk(disk), NEW p \in Procs, WriteLedger(p, Emptied(p))
  PROVE  Files
<1> DEFINE c == Ledger(p)
<1> DEFINE l == Emptied(p)
<1>1. /\ IsLedger(c)
      /\ \/ l = [c EXCEPT !.data = FALSE, !.fence = FALSE, !.accepted = 0,
                          !.instance = issued.instance + 1]
         \/ l = [c EXCEPT !.data = FALSE, !.fence = TRUE, !.instance = issued.instance + 1]
  BY RowsShape DEF Emptied
<1>2. WriteLedger(p, l)
  OBVIOUS
<1> HIDE DEF c, l
<1>3. IsLedger(l)
  BY <1>1 DEF IsLedger
<1>4. l.there = c.there /\ l.tables = c.tables /\ l.version = c.version
  BY <1>1 DEF IsLedger
<1> QED
  BY <1>2, <1>3, <1>4, FilesOfRows DEF c

LEMMA FilesOfReset ==
  ASSUME Calls, IsDisk(disk), NEW p \in Procs, NEW instance,
         WriteLedger(p, [Ledger(p) EXCEPT !.app = 0, !.accepted = 0, !.fence = FALSE,
                                          !.instance = instance])
  PROVE  Files
<1> DEFINE c == Ledger(p)
<1> DEFINE l == [c EXCEPT !.app = 0, !.accepted = 0, !.fence = FALSE, !.instance = instance]
<1>1. l = [c EXCEPT !.app = 0, !.accepted = 0, !.fence = FALSE, !.instance = instance] /\ IsLedger(c)
  BY RowsShape
<1>2. WriteLedger(p, l)
  OBVIOUS
<1> HIDE DEF c, l
<1>3. IsLedger(l)
  BY <1>1 DEF IsLedger
<1>4. l.there = c.there /\ l.tables = c.tables /\ l.version = c.version
  BY <1>1 DEF IsLedger
<1> QED
  BY <1>2, <1>3, <1>4, FilesOfRows DEF c

LEMMA FilesOfData ==
  ASSUME Calls, IsDisk(disk), NEW p \in Procs, NEW x,
         WriteData(p, [Ledger(p) EXCEPT !.data = TRUE], x)
  PROVE  Files
<1> DEFINE c == Ledger(p)
<1> DEFINE l == [c EXCEPT !.data = TRUE]
<1>1. l = [c EXCEPT !.data = TRUE] /\ IsLedger(c) /\ proc[p].mode \in Modes
  BY RowsShape DEF Calls
<1>2. WriteData(p, l, x)
  OBVIOUS
<1> HIDE DEF c, l
<1>3. IsLedger(l)
  BY <1>1 DEF IsLedger
<1>4. l.there = c.there /\ l.tables = c.tables /\ l.version = c.version
  BY <1>1 DEF IsLedger
<1>5. /\ IsDisk(disk)' /\ disk'.marker = disk.marker /\ disk'.record = disk.record
      /\ disk'.ledger[proc[p].mode] = l
      /\ \A m \in Modes \ {proc[p].mode} : disk'.ledger[m] = disk.ledger[m]
  BY <1>1, <1>2, <1>3, DataEffect
<1> QED
  BY <1>1, <1>4, <1>5 DEF Files, SameDoor, Ledger, c

LEMMA EraseRowsIsPlain ==
  ASSUME Installed, NEW p \in Procs, EraseRows(p)
  PROVE  Plain(p)
<1>1. Calls /\ Locks /\ Shapes /\ proc[p].pc \in Erasing
  BY PcSets DEF Installed, Shapes, EraseRows
<1>2. Returned(p) \/ Went(p, "copies")
  BY <1>1, GotoEffect, ReturnEffect, StopEffect, OpenedEffect, ResolvedEffect, TowardsEffect DEF EraseRows
<1>3. Goes(p)
  BY <1>1, <1>2, EraseGoes, PcSets
<1>4. Files /\ UNCHANGED <<sc, vault, opener, kids>>
  BY <1>1, FilesStay, FilesOfEmptied DEF EraseRows, Shapes
<1>6. issued' = issued \/ issued' = [issued EXCEPT !.instance = issued.instance + 1]
  BY DEF EraseRows
<1>7. Numbers'
  BY <1>1, <1>6 DEF Shapes, Numbers
<1> QED
  BY <1>1, <1>3, <1>4, <1>7, PlainOf

LEMMA AttemptMoves ==
  ASSUME Calls, NEW p \in Procs, NEW done, NEW next, Attempt(p, done, next)
  PROVE  Went(p, next) /\ (disk' = done \/ UNCHANGED disk)
<1>1. CASE Goto(p, next) /\ disk' = done
  BY <1>1, GotoEffect
<1>2. CASE OkTo(p, next, FALSE) /\ UNCHANGED disk
  BY <1>2, OkEffect
<1> QED
  BY <1>1, <1>2 DEF Attempt, OkTo

LEMMA EraseCopiesIsPlain ==
  ASSUME Installed, NEW p \in Procs, EraseCopies(p)
  PROVE  Plain(p)
<1> DEFINE done == [disk EXCEPT !.copies = FALSE, !.snapshots = FALSE]
<1>1. Calls /\ Locks /\ Shapes /\ proc[p].pc \in Erasing
  BY PcSets DEF Installed, Shapes, EraseCopies
<1>2. (Went(p, "withdraw") \/ Went(p, "exports")) /\ (disk' = done \/ UNCHANGED disk)
  BY <1>1, AttemptMoves DEF EraseCopies
<1>3. Goes(p)
  BY <1>1, <1>2, EraseGoes, PcSets
<1>4. SameFiles(done)
  BY <1>1, FilesEffect DEF Shapes
<1> HIDE DEF done
<1>5. Files /\ Numbers' /\ UNCHANGED <<sc, vault, opener, kids>>
  BY <1>1, <1>2, <1>4, FilesStay, FilesBeside, NumbersStay DEF EraseCopies, Shapes
<1> QED
  BY <1>1, <1>3, <1>5, PlainOf

LEMMA EraseExportsIsPlain ==
  ASSUME Installed, NEW p \in Procs, EraseExports(p)
  PROVE  Plain(p)
<1> DEFINE done == [disk EXCEPT !.published = FALSE, !.staging = FALSE]
<1>1. Calls /\ Locks /\ Shapes /\ proc[p].pc \in Erasing
  BY PcSets DEF Installed, Shapes, EraseExports
<1>2. (Went(p, "items") \/ Went(p, "residue")) /\ (disk' = done \/ UNCHANGED disk)
  BY <1>1, AttemptMoves DEF EraseExports
<1>3. Goes(p)
  BY <1>1, <1>2, EraseGoes, PcSets
<1>4. SameFiles(done)
  BY <1>1, FilesEffect DEF Shapes
<1> HIDE DEF done
<1>5. Files /\ Numbers' /\ UNCHANGED <<sc, vault, opener, kids>>
  BY <1>1, <1>2, <1>4, FilesStay, FilesBeside, NumbersStay DEF EraseExports, Shapes
<1> QED
  BY <1>1, <1>3, <1>5, PlainOf

LEMMA WithdrawIsPlain ==
  ASSUME Installed, NEW p \in Procs, Withdraw(p)
  PROVE  Plain(p)
<1>1. Calls /\ Locks /\ Shapes /\ proc[p].pc \in Erasing
  BY PcSets DEF Installed, Shapes, Withdraw
<1>2. Went(p, "exports") \/ Went(p, "reclaim")
  <2>1. CASE Goto(p, "exports")
    BY <1>1, <2>1, GotoEffect
  <2>2. CASE Goto(p, "reclaim")
    BY <1>1, <2>2, GotoEffect
  <2>3. CASE OkTo(p, "reclaim", FALSE)
    BY <1>1, <2>3, OkEffect
  <2> QED
    BY <2>1, <2>2, <2>3 DEF Withdraw, OkTo
<1>3. Goes(p)
  BY <1>1, <1>2, EraseGoes, PcSets
<1>4. Files /\ Numbers' /\ UNCHANGED <<sc, vault, opener, kids>>
  BY <1>1, FilesStay, NumbersStay, FilesOfConsents DEF Withdraw, Shapes
<1> QED
  BY <1>1, <1>3, <1>4, PlainOf

LEMMA ResetIsPlain ==
  ASSUME Installed, NEW p \in Procs, Reset(p)
  PROVE  Plain(p)
<1> DEFINE done == [disk EXCEPT !.ledger[proc[p].mode] =
             [Ledger(p) EXCEPT !.app = 0, !.accepted = 0, !.fence = FALSE,
                               !.instance = issued.instance + 1]]
<1>1. Calls /\ Locks /\ Shapes /\ proc[p].pc \in Erasing
  BY PcSets DEF Installed, Shapes, Reset
<1>2. (Went(p, "residue")) /\ (disk' = done \/ UNCHANGED disk)
  BY <1>1, AttemptMoves DEF Reset
<1>3. Goes(p)
  BY <1>1, <1>2, EraseGoes, PcSets
<1>4. Files
  BY <1>1, <1>2, FilesStay, FilesOfReset DEF Shapes, WriteLedger
<1>5. UNCHANGED <<sc, vault, opener, kids>>
  BY DEF Reset
<1>6. issued' = issued \/ issued' = [issued EXCEPT !.instance = issued.instance + 1]
  BY DEF Reset
<1>7. Numbers'
  BY <1>1, <1>6 DEF Shapes, Numbers
<1> QED
  BY <1>1, <1>3, <1>4, <1>5, <1>7, PlainOf

LEMMA ResidueIsPlain ==
  ASSUME Installed, NEW p \in Procs, Residue(p)
  PROVE  Plain(p)
<1>1. Calls /\ Locks /\ Shapes /\ proc[p].pc \in Erasing
  BY PcSets DEF Installed, Shapes, Residue
<1>2. Went(p, "reclaim")
  <2>1. CASE \E ok : OkTo(p, "reclaim", ok)
    BY <1>1, <2>1, OkEffect
  <2> QED
    BY <2>1 DEF Residue, OkTo
<1>3. Goes(p)
  BY <1>1, <1>2, EraseGoes, PcSets
<1>4. SameFiles([disk EXCEPT !.snapshots = FALSE])
  BY <1>1, FilesEffect DEF Shapes
<1>5. Files /\ Numbers' /\ UNCHANGED <<sc, vault, opener, kids>>
  BY <1>1, <1>4, FilesStay, FilesBeside, NumbersStay DEF Residue, Shapes
<1> QED
  BY <1>1, <1>3, <1>5, PlainOf

LEMMA ReclaimIsPlain ==
  ASSUME Installed, NEW p \in Procs, Reclaim(p)
  PROVE  Plain(p)
<1>1. Calls /\ Locks /\ Shapes /\ proc[p].pc \in Erasing
  BY PcSets DEF Installed, Shapes, Reclaim
<1>2. Returned(p)
  BY <1>1, GotoEffect, ReturnEffect, StopEffect, OpenedEffect, ResolvedEffect, TowardsEffect DEF Reclaim
<1>3. Goes(p)
  BY <1>1, <1>2, EraseGoes, PcSets
<1>4. Files /\ Numbers' /\ UNCHANGED <<sc, vault, opener, kids>>
  BY FilesStay, NumbersStay DEF Reclaim, Installed, Shapes
<1> QED
  BY <1>1, <1>3, <1>4, PlainOf

LEMMA OtherGoes ==
  ASSUME Locks, NEW p \in Procs, proc[p].pc \in {"mode", "fence", "open", "write", "stage", "publish"},
         \/ Returned(p)
         \/ Went(p, "fence")
         \/ proc[p].pc = "stage" /\ Went(p, "publish")
         \/ /\ proc[p].tool \in Binding
            /\ \/ \E pc \in Laddering \ Writing : Went(p, pc)
               \/ Went(p, "open") /\ proc'[p].next = "vanished"
         \/ /\ proc[p].tool \in {"write", "daily", "export"}
            /\ \E pc \in {"write", "stage"} :
                 Went(p, pc) \/ (Went(p, "open") /\ proc'[p].next = pc)
         \/ /\ proc[p].tool \in Erasers
            /\ Went(p, "rows") \/ (Went(p, "open") /\ proc'[p].next = "rows")
  PROVE  Goes(p)
<1>1. proc[p].pc \notin Asleep \cup Opening /\ Post(p)
  BY PcSets DEF Locks
<1>2. proc[p].tool \in Tools /\ proc[p].lock # "none"
  BY <1>1, PcSets DEF Post
<1>3. CASE Returned(p)
  BY <1>1, <1>3 DEF Goes
<1>4. CASE Went(p, "fence") \/ (proc[p].pc = "stage" /\ Went(p, "publish"))
  BY <1>1, <1>2, <1>4, PcSets DEF Goes, Went, Post, Aim
<1>5. CASE /\ proc[p].tool \in Binding
           /\ \/ \E pc \in Laddering \ Writing : Went(p, pc)
              \/ Went(p, "open") /\ proc'[p].next = "vanished"
  BY <1>1, <1>2, <1>5, PcSets DEF Goes, Went, Post, Aim, Bodies
<1>6. CASE /\ proc[p].tool \in {"write", "daily", "export"}
           /\ \E pc \in {"write", "stage"} :
                Went(p, pc) \/ (Went(p, "open") /\ proc'[p].next = pc)
  BY <1>1, <1>2, <1>6, PcSets DEF Goes, Went, Post, Aim, Bodies
<1>7. CASE /\ proc[p].tool \in Erasers
           /\ Went(p, "rows") \/ (Went(p, "open") /\ proc'[p].next = "rows")
  BY <1>1, <1>2, <1>7, PcSets DEF Goes, Went, Post, Aim, Bodies
<1> QED
  BY <1>3, <1>4, <1>5, <1>6, <1>7

LEMMA CheckModeIsPlain ==
  ASSUME Installed, NEW p \in Procs, CheckMode(p)
  PROVE  Plain(p)
<1>1. Calls /\ Locks /\ Shapes /\ proc[p].pc = "mode"
  BY DEF Installed, Shapes, CheckMode
<1>2. Returned(p) \/ Went(p, "fence")
  BY <1>1, GotoEffect, ReturnEffect DEF CheckMode
<1>3. Goes(p)
  BY <1>1, <1>2, OtherGoes
<1>4. Files /\ Numbers' /\ UNCHANGED <<sc, vault, opener, kids>>
  BY FilesStay, NumbersStay DEF CheckMode, Installed, Shapes
<1> QED
  BY <1>1, <1>3, <1>4, PlainOf

LEMMA OpenBusyIsPlain ==
  ASSUME Installed, NEW p \in Procs, OpenBusy(p)
  PROVE  Plain(p)
<1>1. Calls /\ Locks /\ Shapes /\ proc[p].pc = "open"
  BY DEF Installed, Shapes, OpenBusy
<1>2. Returned(p)
  BY <1>1, GotoEffect, ReturnEffect DEF OpenBusy
<1>3. Goes(p)
  BY <1>1, <1>2, OtherGoes
<1>4. Files /\ Numbers' /\ UNCHANGED <<sc, vault, opener, kids>>
  BY FilesStay, NumbersStay DEF OpenBusy, Installed, Shapes
<1> QED
  BY <1>1, <1>3, <1>4, PlainOf

LEMMA StageIsPlain ==
  ASSUME Installed, NEW p \in Procs, Stage(p)
  PROVE  Plain(p)
<1>1. Calls /\ Locks /\ Shapes /\ proc[p].pc = "stage"
  BY DEF Installed, Shapes, Stage
<1>2. Went(p, "publish")
  BY <1>1, GotoEffect, ReturnEffect DEF Stage
<1>3. Goes(p)
  BY <1>1, <1>2, OtherGoes
<1>5. SameFiles([disk EXCEPT !.staging = TRUE])
  BY <1>1, FilesEffect DEF Shapes
<1>4. Files /\ Numbers' /\ UNCHANGED <<sc, vault, opener, kids>>
  BY <1>1, <1>5, FilesStay, FilesBeside, NumbersStay DEF Stage, Shapes
<1> QED
  BY <1>1, <1>3, <1>4, PlainOf

LEMMA PublishIsPlain ==
  ASSUME Installed, NEW p \in Procs, Publish(p)
  PROVE  Plain(p)
<1>1. Calls /\ Locks /\ Shapes /\ proc[p].pc = "publish"
  BY DEF Installed, Shapes, Publish
<1>2. Returned(p)
  BY <1>1, GotoEffect, ReturnEffect DEF Publish
<1>3. Goes(p)
  BY <1>1, <1>2, OtherGoes
<1>5. /\ SameFiles([disk EXCEPT !.staging = FALSE])
      /\ SameFiles([disk EXCEPT !.staging = FALSE, !.published = TRUE])
  BY <1>1, FilesEffect DEF Shapes
<1>4. Files /\ Numbers' /\ UNCHANGED <<sc, vault, opener, kids>>
  BY <1>1, <1>5, FilesStay, FilesBeside, NumbersStay DEF Publish, Shapes
<1> QED
  BY <1>1, <1>3, <1>4, PlainOf

LEMMA WriteIsPlain ==
  ASSUME Installed, NEW p \in Procs, Write(p)
  PROVE  Plain(p)
<1>1. Calls /\ Locks /\ Shapes /\ proc[p].pc = "write"
  BY DEF Installed, Shapes, Write
<1>2. Returned(p)
  BY <1>1, GotoEffect, ReturnEffect DEF Write
<1>3. Goes(p)
  BY <1>1, <1>2, OtherGoes
<1>4. Files /\ Numbers' /\ UNCHANGED <<sc, vault, opener, kids>>
  BY <1>1, FilesOfData, NumbersStay DEF Write, WriteData, Shapes
<1> QED
  BY <1>1, <1>3, <1>4, PlainOf

LEMMA CheckFenceIsPlain ==
  ASSUME Installed, NEW p \in Procs, CheckFence(p)
  PROVE  Plain(p)
<1>1. Calls /\ Locks /\ Shapes /\ proc[p].pc = "fence" /\ Post(p)
  BY DEF Installed, Shapes, Locks, CheckFence
<1>2. proc[p].tool \in Tools
  BY <1>1, PcSets DEF Post
<1> DEFINE tool == proc[p].tool
<1> DEFINE body == Body(tool)
<1>3. \/ Returned(p)
      \/ tool \in {"setup", "signin"} /\ Went(p, body)
      \/ /\ tool \notin {"setup", "signin"}
         /\ Went(p, body) \/ (Went(p, "open") /\ proc'[p].next = body)
  <2>1. CASE Return(p, "fenced")
    BY <1>1, <2>1, ReturnEffect
  <2>2. CASE tool \in {"setup", "signin"} /\ Goto(p, body)
    <3> HIDE DEF body
    <3> QED
      BY <1>1, <2>2, GotoEffect
  <2>3. CASE tool \notin {"setup", "signin"} /\ Opened(p, body)
    <3> HIDE DEF body
    <3> QED
      BY <1>1, <2>3, OpenedEffect
  <2> QED
    BY <2>1, <2>2, <2>3 DEF CheckFence
<1>4. /\ tool = "setup" => body = "lift"
      /\ tool = "signin" => body = "key"
      /\ tool \in {"write", "daily"} => body = "write"
      /\ tool = "export" => body = "stage"
      /\ tool = "accept" => body = "vanished"
      /\ tool \in Erasers => body = "rows"
  BY DEF Body, Erasers
<1> HIDE DEF body
<1>5. Goes(p)
  <2>1. tool \in Tools /\ Tools = Binding \cup Erasers \cup {"write", "daily", "export"}
    BY <1>2 DEF Tools, Binding, Erasers
  <2>2. CASE Returned(p)
    BY <1>1, <2>2, OtherGoes
  <2>3. CASE tool \in {"setup", "signin"} /\ Went(p, body)
    BY <1>1, <1>4, <2>3, OtherGoes, PcSets DEF Binding
  <2>4. CASE tool \notin {"setup", "signin"} /\ (Went(p, body) \/ (Went(p, "open") /\ proc'[p].next = body))
    <3>1. CASE tool = "accept"
      BY <1>1, <1>4, <2>4, <3>1, OtherGoes, PcSets DEF Binding
    <3>2. CASE tool \in {"write", "daily", "export"}
      BY <1>1, <1>4, <2>4, <3>2, OtherGoes
    <3>3. CASE tool \in Erasers
      BY <1>1, <1>4, <2>4, <3>3, OtherGoes
    <3> QED
      BY <1>2, <2>4, <3>1, <3>2, <3>3 DEF Tools, Erasers
  <2> QED
    BY <1>3, <2>2, <2>3, <2>4
<1>6. Files /\ Numbers' /\ UNCHANGED <<sc, vault, opener, kids>>
  BY FilesStay, NumbersStay DEF CheckFence, Installed, Shapes
<1> QED
  BY <1>1, <1>5, <1>6, PlainOf

-----------------------------------------------------------------------------
(* Servers that start, wait, die or give up.                               *)

\* p holds nothing afterwards.
Rests(p) ==
  /\ Calls' /\ \A q \in Procs \ {p} : proc'[q] = proc[q]
  /\ proc'[p].pc \in Asleep /\ proc'[p].lock = "none"
  /\ proc'[p].pc = "lock" => proc'[p].tool \in Tools
  /\ proc'[p].conn => (proc[p].conn /\ proc'[p].mode = proc[p].mode)

Falls(p) ==
  /\ Shapes' /\ Rests(p) /\ SameDoor /\ disk'.record.lines = disk.record.lines
  /\ opener' = IF proc[p].pc \in Opening THEN Nobody ELSE opener
  /\ UNCHANGED <<sc, vault, kids>>

LEMMA RestKeepsLocks ==
  ASSUME Shapes, Locks, NEW p \in Procs, Rests(p), kids' = kids,
         opener' = IF proc[p].pc \in Opening THEN Nobody ELSE opener
  PROVE  Locks'
<1>1. \A q \in Procs \ {p} : proc'[q] = proc[q]
  BY DEF Rests
<1>2. Post(p)'
  BY PcSets DEF Rests, Post, Aim
<1>3. \A q \in Procs : Post(q)'
  BY <1>1, <1>2 DEF Locks, Post, Aim
<1>4. \A q \in Procs : (opener = q <=> proc[q].pc \in Opening)'
  <2>1. proc'[p].pc \notin Opening
    BY PcSets DEF Rests
  <2>2. \A q \in Procs : q # Nobody
    BY InstallAssumption
  <2>3. CASE proc[p].pc \in Opening
    BY <1>1, <2>1, <2>2, <2>3 DEF Locks
  <2>4. CASE proc[p].pc \notin Opening
    BY <1>1, <2>1, <2>4 DEF Locks
  <2> QED
    BY <2>3, <2>4
<1>5. ASSUME NEW q \in Procs, proc'[q].lock = "ex"
      PROVE  kids' = {} /\ \A r \in Procs \ {q} : proc'[r].lock = "none"
  <2>1. proc'[p].lock = "none"
    BY DEF Rests
  <2>2. q # p /\ proc[q].lock = "ex"
    BY <1>1, <1>5, <2>1
  <2> QED
    BY <1>1, <2>1, <2>2 DEF Locks
<1> QED
  BY <1>3, <1>4, <1>5 DEF Locks

LEMMA FallKeepsWorld ==
  ASSUME Shapes, World, NEW p \in Procs, Falls(p)
  PROVE  World'
<1>1. /\ \A q \in Procs \ {p} : proc'[q] = proc[q]
      /\ proc'[p].conn => (proc[p].conn /\ proc'[p].mode = proc[p].mode)
  BY DEF Falls, Rests
<1>2. proc'[p].pc \notin Opening
  BY PcSets DEF Falls, Rests
<1>3. SameDoor
  BY DEF Falls
<1>4. \A q \in Procs : proc[q].mode \in Modes
  BY DEF Shapes, Calls
<1> QED
  BY <1>1, <1>2, <1>3, <1>4, OtherMode DEF World, OneWorld, SameDoor

LEMMA FallKeepsSchemas ==
  ASSUME Shapes, Schemas, NEW p \in Procs, Falls(p)
  PROVE  Schemas'
<1>1. /\ \A q \in Procs \ {p} : proc'[q] = proc[q]
      /\ proc'[p].conn => (proc[p].conn /\ proc'[p].mode = proc[p].mode)
  BY DEF Falls, Rests
<1>2. proc'[p].pc \notin {"mint", "mark", "sign"}
  BY PcSets DEF Falls, Rests
<1>3. SameDoor
  BY DEF Falls
<1>4. \A q \in Procs : proc[q].mode \in Modes
  BY DEF Shapes, Calls
<1> QED
  BY <1>1, <1>2, <1>3, <1>4 DEF Schemas, SchemaWhole, SameDoor, Ledger

LEMMA RestKeepsRecords ==
  ASSUME Shapes, Records, NEW p \in Procs, Rests(p), disk'.record.lines = disk.record.lines,
         UNCHANGED <<sc, vault, kids>>
  PROVE  Records'
<1>1. \A q \in Procs \ {p} : proc'[q] = proc[q]
  BY DEF Rests
<1>2. proc'[p].pc \notin Writing
  BY PcSets DEF Rests
<1> QED
  BY <1>1, <1>2, PcSets DEF Records, RecordedUntilGone

LEMMA FallKeeps ==
  ASSUME Installed, NEW p \in Procs, Falls(p)
  PROVE  Installed'
BY RestKeepsLocks, FallKeepsWorld, FallKeepsSchemas, RestKeepsRecords DEF Installed, Falls

LEMMA FallOf ==
  ASSUME Shapes, NEW p \in Procs, Rests(p), Files, Numbers', UNCHANGED <<sc, vault, kids>>,
         opener' = IF proc[p].pc \in Opening THEN Nobody ELSE opener
  PROVE  Falls(p)
BY DEF Falls, Rests, Shapes, Files

LEMMA ReturnRests ==
  ASSUME Calls, NEW p \in Procs, Returned(p)
  PROVE  Rests(p)
BY PcSets DEF Returned, Rests, Alone

LEMMA SpawnFalls ==
  ASSUME Installed, NEW p \in Procs, NEW mode \in Modes, Spawn(p, mode)
  PROVE  Falls(p)
<1>1. Calls /\ Shapes /\ proc[p].pc \notin Opening
  BY PcSets DEF Installed, Shapes, Spawn
<1>2. PICK envkey, envapp :
        proc' = [proc EXCEPT ![p] = [Down EXCEPT !.pc = "idle", !.mode = mode,
                                                 !.envkey = envkey, !.envapp = envapp]]
  BY Zenon DEF Spawn
<1> DEFINE r == [Down EXCEPT !.pc = "idle", !.mode = mode, !.envkey = envkey, !.envapp = envapp]
<1>3. r = [Down EXCEPT !.pc = "idle", !.mode = mode, !.envkey = envkey, !.envapp = envapp]
  OBVIOUS
<1>9. proc' = [proc EXCEPT ![p] = r]
  BY <1>2
<1> HIDE DEF r
<1>4. IsCall(r)
  BY <1>3, DownShape DEF IsCall
<1>5. r.mode = mode /\ r.conn = FALSE /\ r.pc = "idle" /\ r.lock = "none"
  BY <1>3, DownShape DEF IsCall
<1>6. Calls' /\ proc'[p] = r /\ \A q \in Procs \ {p} : proc'[q] = proc[q]
  BY <1>1, <1>4, <1>5, <1>9, UpdateShape
<1>7. Rests(p)
  BY <1>5, <1>6, PcSets DEF Rests
<1>8. Files /\ Numbers' /\ UNCHANGED <<sc, vault, opener, kids>>
  BY FilesStay, NumbersStay DEF Spawn, Installed, Shapes
<1> QED
  BY <1>1, <1>7, <1>8, FallOf

LEMMA CrashFalls ==
  ASSUME Installed, NEW p \in Procs, Crash(p)
  PROVE  Falls(p)
<1>1. Calls /\ Shapes /\ (opener = p <=> proc[p].pc \in Opening)
  BY DEF Installed, Shapes, Locks
<1>2. Calls' /\ proc'[p] = Down /\ \A q \in Procs \ {p} : proc'[q] = proc[q]
  BY <1>1, DownShape, UpdateShape DEF Crash
<1>3. Rests(p)
  BY <1>2, DownShape, PcSets DEF Rests
<1>4. Files /\ Numbers' /\ UNCHANGED <<sc, vault, kids>>
  BY FilesStay, NumbersStay DEF Crash, Installed, Shapes
<1>5. opener' = IF proc[p].pc \in Opening THEN Nobody ELSE opener
  BY <1>1 DEF Crash
<1> QED
  BY <1>1, <1>3, <1>4, <1>5, FallOf

LEMMA CallFalls ==
  ASSUME Installed, NEW p \in Procs, NEW tool \in sc.tools, Call(p, tool)
  PROVE  Falls(p)
<1> DEFINE c == proc[p]
<1> DEFINE r == [c EXCEPT !.pc = "lock", !.tool = tool, !.why = ""]
<1>1. /\ Calls /\ Shapes /\ proc[p].pc = "idle" /\ tool \in Tools
      /\ IsCall(c) /\ r = [c EXCEPT !.pc = "lock", !.tool = tool, !.why = ""]
  BY InstallAssumption DEF Installed, Shapes, Calls, Call, Tools
<1>2. proc' = [proc EXCEPT ![p] = r]
  BY DEF Call
<1> HIDE DEF c, r
<1>3. IsCall(r)
  BY <1>1 DEF IsCall
<1>4. r.mode = c.mode /\ r.conn = c.conn /\ r.lock = c.lock /\ r.tool = tool /\ r.pc = "lock"
  BY <1>1 DEF IsCall
<1>5. c.mode \in Modes /\ c.lock = "none"
  BY <1>1, PcSets DEF c, Calls, Installed, Locks, Post
<1>6. Calls' /\ proc'[p] = r /\ \A q \in Procs \ {p} : proc'[q] = proc[q]
  BY <1>1, <1>2, <1>3, <1>4, <1>5, UpdateShape
<1>7. Rests(p)
  BY <1>1, <1>4, <1>5, <1>6, PcSets DEF Rests, c
<1>8. Files /\ Numbers' /\ UNCHANGED <<sc, vault, opener, kids>>
  BY FilesStay, NumbersStay DEF Call, Installed, Shapes
<1> QED
  BY <1>1, <1>7, <1>8, FallOf, PcSets

LEMMA BusyFalls ==
  ASSUME Installed, NEW p \in Procs, Busy(p)
  PROVE  Falls(p)
<1>1. Calls /\ Shapes /\ proc[p].pc \notin Opening
  BY PcSets DEF Installed, Shapes, Busy
<1>2. Rests(p)
  BY <1>1, ReturnEffect, ReturnRests DEF Busy
<1>3. Files /\ Numbers' /\ UNCHANGED <<sc, vault, opener, kids>>
  BY FilesStay, NumbersStay DEF Busy, Installed, Shapes
<1> QED
  BY <1>1, <1>2, <1>3, FallOf

LEMMA TakeLockKeeps ==
  ASSUME Installed, NEW p \in Procs, TakeLock(p)
  PROVE  Installed'
<1> DEFINE c == proc[p]
<1> DEFINE lock == IF c.tool \in Exclusive THEN "ex" ELSE "sh"
<1> DEFINE r == [c EXCEPT !.lock = lock, !.pc = "mode"]
<1>1. /\ Calls /\ Shapes /\ proc[p].pc = "lock" /\ LockFree(p)
      /\ IsCall(c) /\ r = [c EXCEPT !.lock = lock, !.pc = "mode"]
  BY DEF Installed, Shapes, Calls, TakeLock
<1>2. proc' = [proc EXCEPT ![p] = r]
  BY DEF TakeLock
<1> HIDE DEF c, r, lock
<1>3. IsCall(r)
  BY <1>1 DEF IsCall
<1>4. r.mode = c.mode /\ r.conn = c.conn /\ r.lock = lock /\ r.tool = c.tool /\ r.pc = "mode"
  BY <1>1 DEF IsCall
<1>5. c.mode \in Modes
  BY <1>1 DEF c, Calls
<1>6. Calls' /\ proc'[p] = r /\ \A q \in Procs \ {p} : proc'[q] = proc[q]
  BY <1>1, <1>2, <1>3, <1>4, <1>5, UpdateShape
<1>7. Files /\ Numbers' /\ UNCHANGED <<sc, disk, vault, opener, kids>>
  BY FilesStay, NumbersStay DEF TakeLock, Installed, Shapes
<1>8. Shapes'
  BY <1>1, <1>6, <1>7 DEF Shapes, Files
<1>9. Locks'
  <2>1. lock \in {"sh", "ex"} /\ (lock = "ex" <=> c.tool \in Exclusive)
    BY DEF lock
  <2>2. Post(p)'
    BY <1>1, <1>4, <1>6, <2>1, PcSets DEF Post, Aim, Installed, Locks, c
  <2>3. \A q \in Procs : Post(q)'
    BY <1>6, <2>2 DEF Installed, Locks, Post, Aim
  <2>4. \A q \in Procs : (opener = q <=> proc[q].pc \in Opening)'
    BY <1>1, <1>4, <1>6, <1>7, PcSets DEF Installed, Locks
  <2>5. ASSUME NEW q \in Procs, proc'[q].lock = "ex"
        PROVE  kids' = {} /\ \A s \in Procs \ {q} : proc'[s].lock = "none"
    <3>1. CASE q = p
      <4>1. proc[p].tool \in Exclusive
        BY <1>4, <1>6, <2>1, <2>5, <3>1 DEF c
      <4>2. LockFree(p)
        BY <1>1
      <4>3. kids = {} /\ \A s \in Procs \ {p} : proc[s].lock = "none"
        BY <4>1, <4>2 DEF LockFree
      <4> QED
        BY <1>6, <1>7, <3>1, <4>3
    <3>2. CASE q # p
      <4>1. proc[q].lock = "ex"
        BY <1>6, <2>5, <3>2
      <4>2. LockFree(p)
        BY <1>1
      <4> QED
        BY <3>2, <4>1, <4>2 DEF LockFree
    <3> QED
      BY <3>1, <3>2
  <2> QED
    BY <2>3, <2>4, <2>5 DEF Locks
<1>10. World' /\ Schemas' /\ Records'
  <2>1. /\ proc'[p].pc = "mode" /\ proc'[p].mode = proc[p].mode
        /\ proc'[p].conn = proc[p].conn
    BY <1>4, <1>6 DEF c
  <2>2. World'
    BY <1>6, <1>7, <2>1, PcSets DEF Installed, World, OneWorld
  <2>3. Schemas'
    BY <1>6, <1>7, <2>1 DEF Installed, Schemas, SchemaWhole, Ledger
  <2>4. Records'
    BY <1>6, <1>7, <2>1 DEF Installed, Records, RecordedUntilGone
  <2> QED
    BY <2>2, <2>3, <2>4
<1> QED
  BY <1>8, <1>9, <1>10 DEF Installed

-----------------------------------------------------------------------------
(* Opening the ledger.                                                     *)

\* The open works on its own ledger and goes on, or gives up.
Builds(p) ==
  /\ Shapes' /\ proc[p].pc \in Opening \ {"sign"}
  /\ disk'.marker = disk.marker /\ disk'.record.lines = disk.record.lines
  /\ \A m \in Modes \ {proc[p].mode} : disk'.ledger[m] = disk.ledger[m]
  /\ LET new == disk'.ledger[proc[p].mode] IN
       /\ Ledger(p).version = Current => new.version = Current
       /\ new.version = Current => new.tables = Tables
       /\ new.tables \in 0 .. Tables
       /\ proc'[p].pc \in {"mint", "mark"} => new.version = Current
  /\ UNCHANGED <<sc, vault, kids>>
  /\ \/ Rests(p) /\ opener' = Nobody
     \/ /\ Went(p, proc'[p].pc) /\ proc'[p].pc \in Opening \ {"sign"}
        /\ proc'[p].next = proc[p].next /\ UNCHANGED opener

LEMMA BuildKeepsLocks ==
  ASSUME Shapes, Locks, NEW p \in Procs, Builds(p)
  PROVE  Locks'
<1>1. CASE Rests(p) /\ opener' = Nobody
  BY <1>1, RestKeepsLocks, PcSets DEF Builds
<1>2. CASE /\ Went(p, proc'[p].pc) /\ proc'[p].pc \in Opening
           /\ proc'[p].next = proc[p].next /\ UNCHANGED opener
  <2>1. \A q \in Procs \ {p} : proc'[q] = proc[q]
    BY <1>2 DEF Went, Alone
  <2>2. proc[p].pc \in Opening /\ kids' = kids
    BY DEF Builds
  <2>3. Post(p)'
    BY <1>2, <2>2, PcSets DEF Locks, Post, Aim, Went
  <2>4. \A q \in Procs : Post(q)'
    BY <2>1, <2>3 DEF Locks, Post, Aim
  <2>5. \A q \in Procs : (opener = q <=> proc[q].pc \in Opening)'
    BY <1>2, <2>1, <2>2 DEF Locks
  <2>6. ASSUME NEW q \in Procs, proc'[q].lock = "ex"
        PROVE  kids' = {} /\ \A s \in Procs \ {q} : proc'[s].lock = "none"
    <3>1. \A s \in Procs : proc'[s].lock = proc[s].lock
      BY <1>2, <2>1 DEF Went
    <3> QED
      BY <2>2, <2>6, <3>1 DEF Locks
  <2> QED
    BY <2>4, <2>5, <2>6 DEF Locks
<1> QED
  BY <1>1, <1>2 DEF Builds

LEMMA BuildEffect ==
  ASSUME Shapes, NEW p \in Procs, Builds(p)
  PROVE  /\ \A q \in Procs \ {p} : proc'[q] = proc[q]
         /\ proc'[p].conn => (proc[p].conn /\ proc'[p].mode = proc[p].mode)
         /\ proc'[p].pc \notin Opening \/ (proc'[p].pc # "sign" /\ proc'[p].mode = proc[p].mode)
         /\ proc'[p].pc \notin Writing
BY PcSets DEF Builds, Rests, Went, Alone

LEMMA BuildKeepsWorld ==
  ASSUME Shapes, World, NEW p \in Procs, Locks, Builds(p)
  PROVE  World'
<1>1. /\ \A q \in Procs \ {p} : proc'[q] = proc[q]
      /\ proc'[p].conn => (proc[p].conn /\ proc'[p].mode = proc[p].mode)
      /\ proc'[p].pc \notin Opening \/ (proc'[p].pc # "sign" /\ proc'[p].mode = proc[p].mode)
  BY BuildEffect
<1> DEFINE mode == proc[p].mode
<1>2. /\ mode \in Modes /\ Other(mode) \in Modes /\ Other(mode) # mode
      /\ \A m \in Modes : m = mode \/ m = Other(mode)
  BY OtherMode DEF Shapes, Calls, Modes
<1>3. /\ proc[p].pc \in Opening /\ proc[p].pc # "sign" /\ disk'.marker = disk.marker
      /\ disk'.ledger[Other(mode)] = disk.ledger[Other(mode)]
  BY <1>2 DEF Builds
<1>4. ~disk.ledger[Other(mode)].there /\ disk.marker \in {"absent", mode}
  BY <1>3 DEF World
<1>5. \A q \in Procs \ {p} : proc[q].pc \notin Opening
  BY <1>3 DEF Locks
<1>6. OneWorld'
  <2>1. ~(\A m \in Modes : disk'.ledger[m].there)
    BY <1>2, <1>3, <1>4
  <2>2. \A m \in Modes : disk'.marker = m => ~disk'.ledger[Other(m)].there
    BY <1>2, <1>3, <1>4 DEF Modes
  <2>3. \A q \in Procs : proc'[q].conn => disk'.marker = proc'[q].mode
    BY <1>1, <1>3 DEF World, OneWorld
  <2> QED
    BY <2>1, <2>2, <2>3 DEF OneWorld
<1>7. ASSUME NEW q \in Procs, proc'[q].pc \in Opening
      PROVE  /\ ~disk'.ledger[Other(proc'[q].mode)].there
             /\ disk'.marker \in {"absent", "torn", proc'[q].mode}
             /\ disk'.marker = "torn" <=> proc'[q].pc = "sign"
  <2>1. q = p
    BY <1>1, <1>5, <1>7
  <2>2. proc'[p].mode = mode /\ proc'[p].pc # "sign"
    BY <1>1, <1>7, <2>1
  <2> QED
    BY <1>2, <1>3, <1>4, <2>1, <2>2 DEF Modes
<1> QED
  BY <1>6, <1>7 DEF World

LEMMA BuildKeepsSchemas ==
  ASSUME Shapes, Schemas, NEW p \in Procs, Locks, Builds(p)
  PROVE  Schemas'
<1>1. /\ \A q \in Procs \ {p} : proc'[q] = proc[q]
      /\ proc'[p].conn => (proc[p].conn /\ proc'[p].mode = proc[p].mode)
      /\ proc'[p].pc \notin Opening \/ (proc'[p].pc # "sign" /\ proc'[p].mode = proc[p].mode)
  BY BuildEffect
<1> DEFINE mode == proc[p].mode
<1> DEFINE new == disk'.ledger[mode]
<1>2. /\ \A m \in Modes \ {mode} : disk'.ledger[m] = disk.ledger[m]
      /\ disk.ledger[mode].version = Current => new.version = Current
      /\ new.version = Current => new.tables = Tables
      /\ new.tables \in 0 .. Tables
      /\ proc'[p].pc \in {"mint", "mark"} => new.version = Current
      /\ proc[p].pc \in Opening
  BY DEF Builds, Ledger
<1>3. \A q \in Procs \ {p} : proc[q].pc \notin Opening
  BY <1>2 DEF Locks
<1>4. \A q \in Procs : proc[q].mode \in Modes
  BY DEF Shapes, Calls
<1>5. \A m \in Modes : /\ disk.ledger[m].version = Current => disk'.ledger[m].version = Current
                       /\ disk'.ledger[m].version = Current => disk'.ledger[m].tables = Tables
                       /\ disk'.ledger[m].tables \in 0 .. Tables
  BY <1>2, <1>4 DEF Schemas, SchemaWhole
<1>6. \A q \in Procs : proc'[q].conn => Ledger(q)'.version = Current
  BY <1>1, <1>4, <1>5 DEF Schemas, SchemaWhole, Ledger
<1>7. \A q \in Procs : proc'[q].pc \in {"mint", "mark", "sign"} => Ledger(q)'.version = Current
  BY <1>1, <1>2, <1>3, PcSets DEF Ledger
<1> QED
  BY <1>5, <1>6, <1>7 DEF Schemas, SchemaWhole

LEMMA RecordsKept ==
  ASSUME Records, NEW p \in Procs, \A q \in Procs \ {p} : proc'[q] = proc[q],
         proc'[p].pc \notin Writing, disk'.record.lines = disk.record.lines,
         UNCHANGED <<sc, vault, kids>>
  PROVE  Records'
BY PcSets DEF Records, RecordedUntilGone

LEMMA BuildKeeps ==
  ASSUME Installed, NEW p \in Procs, Builds(p)
  PROVE  Installed'
<1>1. Locks' /\ World' /\ Schemas'
  BY BuildKeepsLocks, BuildKeepsWorld, BuildKeepsSchemas DEF Installed
<1>2. Records'
  BY BuildEffect, RecordsKept DEF Installed, Builds
<1> QED
  BY <1>1, <1>2 DEF Installed, Builds

LEMMA WentSelf ==
  ASSUME NEW p, NEW pc, Went(p, pc)
  PROVE  Went(p, proc'[p].pc) /\ proc'[p].pc = pc
BY DEF Went

LEMMA RefuseRests ==
  ASSUME Calls, NEW p \in Procs, NEW why, Refuse(p, why)
  PROVE  Rests(p) /\ opener' = Nobody
BY ReturnEffect, ReturnRests DEF Refuse

\* What is read under the open lock.
LEMMA BuilderFacts ==
  ASSUME Installed, NEW p \in Procs, proc[p].pc \in Opening
  PROVE  /\ Calls /\ IsDisk(disk) /\ Numbers /\ IsLedger(Ledger(p)) /\ opener = p
         /\ proc[p].mode \in Modes /\ Ledger(p).tables \in 0 .. Tables
         /\ Ledger(p).version = Current => Ledger(p).tables = Tables
         /\ proc[p].pc \in {"mint", "mark", "sign"} => Ledger(p).version = Current
BY RowsShape DEF Installed, Shapes, Calls, Locks, Schemas, SchemaWhole, Ledger

\* A step of the open that leaves the files and the numbers alone.
LEMMA BuildOf ==
  ASSUME Installed, NEW p \in Procs, proc[p].pc \in Opening \ {"sign"},
         UNCHANGED <<sc, vault, kids>>, Numbers', Files,
         \/ Rests(p) /\ opener' = Nobody
         \/ /\ Went(p, proc'[p].pc) /\ proc'[p].pc \in Opening \ {"sign"}
            /\ proc'[p].next = proc[p].next /\ UNCHANGED opener
            /\ proc'[p].pc \in {"mint", "mark"} => Ledger(p).version = Current
  PROVE  Installed'
<1>1. CASE Rests(p) /\ opener' = Nobody
  BY <1>1, FallOf, FallKeeps DEF Installed
<1>2. CASE /\ Went(p, proc'[p].pc) /\ proc'[p].pc \in Opening \ {"sign"}
           /\ proc'[p].next = proc[p].next /\ UNCHANGED opener
           /\ proc'[p].pc \in {"mint", "mark"} => Ledger(p).version = Current
  <2>1. Falls(p) => Installed'
    BY FallKeeps
  <2>2. Calls' /\ \A q \in Procs \ {p} : proc'[q] = proc[q]
    BY <1>2 DEF Went, Alone
  <2>3. /\ proc'[p].pc \notin Asleep /\ proc'[p].pc \notin Writing
        /\ proc'[p].mode = proc[p].mode /\ proc'[p].conn = proc[p].conn
    BY <1>2, PcSets DEF Went, Alone
  <2>4. SameDoor /\ disk'.record.lines = disk.record.lines /\ Shapes'
    BY <2>2 DEF Files, Installed, Shapes
  <2>5. \A q \in Procs : proc[q].mode \in Modes
    BY DEF Installed, Shapes, Calls
  <2>6. Records'
    BY <2>2, <2>3, <2>4, RecordsKept DEF Installed
  <2>7. Locks'
    <3>1. Post(p)'
      BY <1>2, PcSets DEF Installed, Locks, Post, Aim, Went
    <3>2. \A q \in Procs : Post(q)'
      BY <2>2, <3>1 DEF Installed, Locks, Post, Aim
    <3>3. \A q \in Procs : (opener = q <=> proc[q].pc \in Opening)'
      BY <1>2, <2>2 DEF Installed, Locks
    <3>4. \A q \in Procs : proc'[q].lock = proc[q].lock
      BY <1>2, <2>2 DEF Went
    <3> QED
      BY <3>2, <3>3, <3>4 DEF Installed, Locks
  <2>8. World'
    BY <1>2, <2>2, <2>3, <2>4, <2>5, OtherMode DEF Installed, World, OneWorld, SameDoor
  <2>9. Schemas'
    BY <1>2, <2>2, <2>3, <2>4, <2>5, PcSets DEF Installed, Schemas, SchemaWhole, SameDoor, Ledger
  <2> QED
    BY <2>4, <2>6, <2>7, <2>8, <2>9 DEF Installed
<1> QED
  BY <1>1, <1>2

\* A step of the open that writes its ledger.
LEMMA BuildsOf ==
  ASSUME Installed, NEW p \in Procs, proc[p].pc \in Opening \ {"sign"},
         UNCHANGED <<sc, vault, kids>>, Numbers', NEW l, IsLedger(l), WriteLedger(p, l),
         Ledger(p).version = Current => l.version = Current,
         l.version = Current => l.tables = Tables,
         l.tables \in 0 .. Tables,
         \/ Rests(p) /\ opener' = Nobody
         \/ /\ Went(p, proc'[p].pc) /\ proc'[p].pc \in Opening \ {"sign"}
            /\ proc'[p].next = proc[p].next /\ UNCHANGED opener
            /\ proc'[p].pc \in {"mint", "mark"} => l.version = Current
  PROVE  Installed'
<1>1. /\ Calls /\ IsDisk(disk) /\ proc[p].mode \in Modes
  BY BuilderFacts
<1>2. /\ IsDisk(disk)' /\ disk'.marker = disk.marker /\ disk'.record = disk.record
      /\ disk'.ledger[proc[p].mode] = l
      /\ \A m \in Modes \ {proc[p].mode} : disk'.ledger[m] = disk.ledger[m]
  BY <1>1, LedgerEffect
<1>3. Calls'
  BY DEF Rests, Went, Alone
<1>4. Shapes'
  BY <1>2, <1>3 DEF Installed, Shapes
<1>5. proc'[p].pc \in {"mint", "mark"} => l.version = Current
  BY PcSets DEF Rests
<1>6. Builds(p)
  BY <1>2, <1>4, <1>5 DEF Builds
<1> QED
  BY <1>6, BuildKeeps

LEMMA OpenFileKeeps ==
  ASSUME Installed, NEW p \in Procs, OpenFile(p)
  PROVE  Installed'
<1> DEFINE c == Ledger(p)
<1> DEFINE l == [c EXCEPT !.there = TRUE]
<1>1. proc[p].pc = "file" /\ proc[p].pc \in Opening \ {"sign"}
  BY PcSets DEF OpenFile
<1>2. /\ Calls /\ c.tables \in 0 .. Tables
      /\ c.version = Current => c.tables = Tables
  BY <1>1, BuilderFacts
<1>3. /\ IsLedger(c) /\ l = [c EXCEPT !.there = TRUE]
  BY <1>1, BuilderFacts
<1>4. WriteLedger(p, l) /\ UNCHANGED <<sc, vault, kids>> /\ Numbers'
  BY <1>1, BuilderFacts, NumbersStay DEF OpenFile
<1>5. \/ Rests(p) /\ opener' = Nobody
      \/ /\ Went(p, proc'[p].pc) /\ proc'[p].pc \in {"schema", "snapshot", "mint"}
         /\ proc'[p].next = proc[p].next /\ UNCHANGED opener
         /\ proc'[p].pc = "mint" => c.version = Current
  <2>1. CASE Goto(p, "schema") /\ UNCHANGED opener
    BY <1>2, <2>1, GotoEffect, WentSelf
  <2>2. CASE Goto(p, "snapshot") /\ UNCHANGED opener
    BY <1>2, <2>2, GotoEffect, WentSelf
  <2>3. CASE Goto(p, "mint") /\ UNCHANGED opener /\ c.version = Current
    BY <1>2, <2>3, GotoEffect, WentSelf
  <2>4. CASE Refuse(p, "newer")
    BY <1>2, <2>4, RefuseRests
  <2> QED
    BY <2>1, <2>2, <2>3, <2>4 DEF OpenFile
<1> HIDE DEF c, l
<1>6. IsLedger(l)
  BY <1>3 DEF IsLedger
<1>7. l.tables = c.tables /\ l.version = c.version
  BY <1>3 DEF IsLedger
<1>8. /\ Ledger(p).version = Current => l.version = Current
      /\ l.version = Current => l.tables = Tables
      /\ l.tables \in 0 .. Tables
  BY <1>2, <1>7 DEF c
<1>9. \/ Rests(p) /\ opener' = Nobody
      \/ /\ Went(p, proc'[p].pc) /\ proc'[p].pc \in Opening \ {"sign"}
         /\ proc'[p].next = proc[p].next /\ UNCHANGED opener
         /\ proc'[p].pc \in {"mint", "mark"} => l.version = Current
  BY <1>5, <1>7, PcSets
<1> QED
  BY <1>1, <1>4, <1>6, <1>8, <1>9, BuildsOf

LEMMA SchemaKeeps ==
  ASSUME Installed, NEW p \in Procs, Schema(p)
  PROVE  Installed'
<1> DEFINE c == Ledger(p)
<1> DEFINE l == SchemaStep(c)
<1>1. proc[p].pc = "schema" /\ proc[p].pc \in Opening \ {"sign"}
  BY PcSets DEF Schema
<1>2. /\ Calls /\ c.tables \in 0 .. Tables
      /\ c.version = Current => c.tables = Tables
  BY <1>1, BuilderFacts
<1>3. /\ IsLedger(c)
      /\ IF c.tables < Tables THEN l = [c EXCEPT !.tables = c.tables + 1]
         ELSE l = [c EXCEPT !.version = Current]
  BY <1>1, BuilderFacts DEF SchemaStep
<1>4. WriteLedger(p, l) /\ UNCHANGED <<sc, vault, kids>> /\ Numbers'
  BY <1>1, BuilderFacts, NumbersStay DEF Schema
<1>5. /\ Went(p, proc'[p].pc) /\ proc'[p].next = proc[p].next /\ UNCHANGED opener
      /\ proc'[p].pc = IF c.tables < Tables THEN "schema" ELSE "mint"
  <2> DEFINE pc == IF c.tables < Tables THEN "schema" ELSE "mint"
  <2>1. Goto(p, pc) /\ UNCHANGED opener
    BY DEF Schema
  <2> HIDE DEF pc
  <2>2. Went(p, pc) /\ proc'[p].next = proc[p].next
    BY <1>2, <2>1, GotoEffect
  <2>3. proc'[p].pc = pc
    BY <2>2 DEF Went
  <2> QED
    BY <2>1, <2>2, <2>3 DEF pc
<1> HIDE DEF c, l
<1>6. IsLedger(l)
  BY <1>3 DEF IsLedger
<1>7. /\ c.tables < Tables => l.tables = c.tables + 1 /\ l.version = c.version
      /\ ~(c.tables < Tables) => l.tables = c.tables /\ l.version = Current
  BY <1>3 DEF IsLedger
<1>8. /\ c.version = Current => l.version = Current
      /\ l.version = Current => l.tables = Tables
      /\ l.tables \in 0 .. Tables
  BY <1>2, <1>7 DEF Tables
<1>9. Ledger(p).version = Current => l.version = Current
  BY <1>8 DEF c
<1>10. /\ proc'[p].pc \in Opening \ {"sign"}
       /\ proc'[p].pc \in {"mint", "mark"} => l.version = Current
  BY <1>5, <1>7, PcSets
<1> QED
  BY <1>1, <1>4, <1>5, <1>6, <1>8, <1>9, <1>10, BuildsOf

LEMMA SnapshotKeeps ==
  ASSUME Installed, NEW p \in Procs, Snapshot(p)
  PROVE  Installed'
<1>1. /\ proc[p].pc \in Opening \ {"sign"} /\ Calls /\ IsDisk(disk) /\ Numbers
  BY BuilderFacts, PcSets DEF Snapshot
<1>2. SameFiles([disk EXCEPT !.snapshots = TRUE])
  BY <1>1, FilesEffect
<1>3. Files /\ Numbers' /\ UNCHANGED <<sc, vault, kids>>
  BY <1>1, <1>2, FilesStay, FilesBeside, NumbersStay DEF Snapshot
<1>4. \/ Rests(p) /\ opener' = Nobody
      \/ /\ Went(p, proc'[p].pc) /\ proc'[p].pc = "migrate"
         /\ proc'[p].next = proc[p].next /\ UNCHANGED opener
  <2>1. CASE Goto(p, "migrate") /\ UNCHANGED opener
    BY <1>1, <2>1, GotoEffect, WentSelf
  <2>2. CASE Refuse(p, "snapshot failed")
    BY <1>1, <2>2, RefuseRests
  <2> QED
    BY <2>1, <2>2 DEF Snapshot
<1> QED
  BY <1>1, <1>3, <1>4, BuildOf, PcSets

LEMMA MigrateKeeps ==
  ASSUME Installed, NEW p \in Procs, Migrate(p)
  PROVE  Installed'
<1>1. /\ proc[p].pc \in Opening \ {"sign"} /\ Calls /\ IsDisk(disk) /\ Numbers
  BY BuilderFacts, PcSets DEF Migrate
<1>2. Numbers' /\ UNCHANGED <<sc, vault, kids>>
  BY <1>1, NumbersStay DEF Migrate
<1>3. CASE \E why : Refuse(p, why) /\ UNCHANGED disk
  BY <1>1, <1>2, <1>3, RefuseRests, FilesStay, BuildOf
<1>4. CASE /\ WriteLedger(p, [Ledger(p) EXCEPT !.tables = Tables, !.version = Current])
           /\ Goto(p, "mint") /\ UNCHANGED opener
  <2> DEFINE c == Ledger(p)
  <2> DEFINE l == [c EXCEPT !.tables = Tables, !.version = Current]
  <2>1. IsLedger(c) /\ l = [c EXCEPT !.tables = Tables, !.version = Current]
    BY <1>1, BuilderFacts
  <2>2. WriteLedger(p, l)
    BY <1>4
  <2>3. /\ Went(p, proc'[p].pc) /\ proc'[p].pc = "mint"
        /\ proc'[p].next = proc[p].next /\ UNCHANGED opener
    BY <1>1, <1>4, GotoEffect, WentSelf
  <2> HIDE DEF c, l
  <2>4. IsLedger(l)
    BY <2>1 DEF IsLedger
  <2>5. l.tables = Tables /\ l.version = Current
    BY <2>1 DEF IsLedger
  <2>6. l.tables \in 0 .. Tables
    BY <2>5 DEF Tables
  <2>7. proc'[p].pc \in Opening \ {"sign"}
    BY <2>3, PcSets
  <2> QED
    BY <1>1, <1>2, <2>2, <2>3, <2>4, <2>5, <2>6, <2>7, BuildsOf
<1> QED
  BY <1>3, <1>4 DEF Migrate

LEMMA MintKeeps ==
  ASSUME Installed, NEW p \in Procs, Mint(p)
  PROVE  Installed'
<1>1. /\ proc[p].pc \in Opening \ {"sign"} /\ Calls /\ IsDisk(disk) /\ Numbers
      /\ Ledger(p).version = Current /\ Ledger(p).tables \in 0 .. Tables
      /\ Ledger(p).tables = Tables
  BY BuilderFacts, PcSets DEF Mint
<1>2. /\ Went(p, proc'[p].pc) /\ proc'[p].pc = "mark" /\ proc'[p].next = proc[p].next
      /\ UNCHANGED <<opener, sc, vault, kids>>
  BY <1>1, GotoEffect, WentSelf DEF Mint
<1>3. proc'[p].pc \in Opening \ {"sign"}
  BY <1>2, PcSets
<1>4. CASE UNCHANGED <<disk, issued>>
  BY <1>1, <1>2, <1>3, <1>4, FilesStay, NumbersStay, BuildOf
<1>5. CASE /\ issued' = [issued EXCEPT !.instance = issued.instance + 1]
           /\ WriteLedger(p, [Ledger(p) EXCEPT !.instance = issued.instance + 1])
  <2> DEFINE c == Ledger(p)
  <2> DEFINE l == [c EXCEPT !.instance = issued.instance + 1]
  <2>1. IsLedger(c) /\ l = [c EXCEPT !.instance = issued.instance + 1]
    BY <1>1, BuilderFacts
  <2>2. WriteLedger(p, l)
    BY <1>5
  <2>3. Numbers'
    BY <1>1, <1>5 DEF Numbers
  <2> HIDE DEF l
  <2>4. IsLedger(l) /\ l.tables = c.tables /\ l.version = c.version
    <3> HIDE DEF c
    <3> QED
      BY <2>1 DEF IsLedger
  <2>5. l.tables = Tables /\ l.version = Current /\ l.tables \in 0 .. Tables
    BY <1>1, <2>4
  <2> QED
    BY <1>1, <1>2, <1>3, <2>2, <2>3, <2>4, <2>5, BuildsOf
<1> QED
  BY <1>4, <1>5 DEF Mint

LEMMA TakeOpenLockKeeps ==
  ASSUME Installed, NEW p \in Procs, TakeOpenLock(p)
  PROVE  Installed'
<1>1. /\ Calls /\ Shapes /\ IsDisk(disk) /\ Numbers /\ proc[p].pc = "open" /\ opener = Nobody
  BY DEF Installed, Shapes, TakeOpenLock
<1>2. Files /\ Numbers' /\ UNCHANGED <<sc, disk, vault, kids>>
  BY <1>1, FilesStay, NumbersStay DEF TakeOpenLock
<1>3. CASE Refuse(p, "other world")
  BY <1>1, <1>2, <1>3, RefuseRests, FallOf, FallKeeps
<1>4. CASE Ours(proc[p].mode) /\ opener' = p /\ Goto(p, "file")
  <2>1. Went(p, "file") /\ proc'[p].next = proc[p].next
    BY <1>1, <1>4, GotoEffect
  <2>2. /\ Calls' /\ proc'[p].pc = "file" /\ \A q \in Procs \ {p} : proc'[q] = proc[q]
        /\ proc'[p].mode = proc[p].mode /\ proc'[p].conn = proc[p].conn
        /\ proc'[p].lock = proc[p].lock /\ proc'[p].tool = proc[p].tool
    BY <2>1 DEF Went, Alone
  <2>3. Shapes'
    BY <1>1, <1>2, <2>2 DEF Shapes, Files
  <2>4. \A q \in Procs : q # Nobody
    BY InstallAssumption
  <2>5. Locks'
    <3>1. Post(p)'
      BY <1>1, <2>1, <2>2, PcSets DEF Installed, Locks, Post, Aim
    <3>2. \A q \in Procs : Post(q)'
      BY <2>2, <3>1 DEF Installed, Locks, Post, Aim
    <3>3. \A q \in Procs : (opener = q <=> proc[q].pc \in Opening)'
      BY <1>1, <1>4, <2>2, <2>4, PcSets DEF Installed, Locks
    <3>4. \A q \in Procs : proc'[q].lock = proc[q].lock
      BY <2>2
    <3> QED
      BY <1>2, <3>2, <3>3, <3>4 DEF Installed, Locks
  <2>6. World'
    <3>1. \A q \in Procs : proc[q].pc \notin Opening
      BY <1>1, <2>4 DEF Installed, Locks
    <3>2. proc[p].mode \in Modes
      BY <1>1 DEF Calls
    <3>3. disk.marker \in {"absent", proc[p].mode} /\ ~disk.ledger[Other(proc[p].mode)].there
      BY <1>4 DEF Ours
    <3>4. disk.marker # "torn"
      BY <3>2, <3>3 DEF Modes
    <3>5. OneWorld'
      BY <1>2, <2>2 DEF Installed, World, OneWorld
    <3> QED
      BY <1>2, <2>2, <3>1, <3>3, <3>4, <3>5 DEF World
  <2>7. Schemas'
    BY <1>2, <2>2 DEF Installed, Schemas, SchemaWhole, Ledger
  <2>8. Records'
    BY <1>2, <2>2, RecordsKept, PcSets DEF Installed
  <2> QED
    BY <2>3, <2>5, <2>6, <2>7, <2>8 DEF Installed
<1> QED
  BY <1>3, <1>4 DEF TakeOpenLock

LEMMA ConnectedEffect ==
  ASSUME Calls, NEW p \in Procs, Connected(p)
  PROVE  /\ Calls' /\ \A q \in Procs \ {p} : proc'[q] = proc[q]
         /\ proc'[p].pc = proc[p].next /\ proc'[p].mode = proc[p].mode
         /\ proc'[p].conn = TRUE /\ proc'[p].lock = proc[p].lock
         /\ proc'[p].tool = proc[p].tool /\ opener' = Nobody
<1> DEFINE c == proc[p]
<1> DEFINE r == [c EXCEPT !.conn = TRUE, !.pc = c.next, !.next = ""]
<1>1. IsCall(c) /\ r = [c EXCEPT !.conn = TRUE, !.pc = c.next, !.next = ""]
  BY DEF Calls
<1>2. proc' = [proc EXCEPT ![p] = r] /\ opener' = Nobody
  BY DEF Connected, Calls
<1>3. c.mode \in Modes
  BY DEF Calls
<1> HIDE DEF c, r
<1>4. IsCall(r)
  BY <1>1 DEF IsCall
<1>5. /\ r.mode = c.mode /\ r.conn = TRUE /\ r.lock = c.lock /\ r.tool = c.tool
      /\ r.pc = c.next
  BY <1>1 DEF IsCall
<1>6. Calls' /\ proc'[p] = r /\ \A q \in Procs \ {p} : proc'[q] = proc[q]
  BY <1>2, <1>3, <1>4, <1>5, UpdateShape
<1> QED
  BY <1>2, <1>5, <1>6 DEF c

\* The open ends with a connection, on a marker that names this mode.
LEMMA ConnectedKeeps ==
  ASSUME Installed, NEW p \in Procs, proc[p].pc \in {"mark", "sign"}, Connected(p),
         IsDisk(disk)', disk'.ledger = disk.ledger, disk'.marker = proc[p].mode,
         disk'.record = disk.record, UNCHANGED <<sc, vault, kids, issued>>,
         proc[p].pc = "mark" => disk.marker = proc[p].mode
  PROVE  Installed'
<1>1. /\ Calls' /\ \A q \in Procs \ {p} : proc'[q] = proc[q]
      /\ proc'[p].pc = proc[p].next /\ proc'[p].mode = proc[p].mode
      /\ proc'[p].conn = TRUE /\ proc'[p].lock = proc[p].lock
      /\ proc'[p].tool = proc[p].tool /\ opener' = Nobody
  BY ConnectedEffect DEF Installed, Shapes
<1>2. proc[p].pc \in Opening /\ proc[p].next \in Bodies /\ opener = p
  BY PcSets DEF Installed, Locks, Post
<1>3. /\ proc[p].mode \in Modes /\ Ledger(p).version = Current
      /\ \A q \in Procs : proc[q].mode \in Modes
  BY <1>2, BuilderFacts DEF Installed, Shapes, Calls
<1>4. proc'[p].pc \notin Asleep \cup Opening \cup Writing \cup Inside
  BY <1>1, <1>2, PcSets DEF Bodies
<1>5. Shapes'
  BY <1>1, NumbersStay DEF Installed, Shapes
<1>6. \A q \in Procs \ {p} : proc[q].pc \notin Opening
  BY <1>2 DEF Installed, Locks
<1>7. Locks'
  <2>1. Post(p)'
    BY <1>1, <1>2, <1>4, PcSets DEF Installed, Locks, Post, Aim
  <2>2. \A q \in Procs : Post(q)'
    BY <1>1, <2>1 DEF Installed, Locks, Post, Aim
  <2>3. \A q \in Procs : (opener = q <=> proc[q].pc \in Opening)'
    <3>1. \A q \in Procs : q # Nobody
      BY InstallAssumption
    <3> QED
      BY <1>1, <1>4, <1>6, <3>1
  <2>4. \A q \in Procs : proc'[q].lock = proc[q].lock
    BY <1>1
  <2> QED
    BY <2>2, <2>3, <2>4 DEF Installed, Locks
<1>8. World'
  <2>1. \A q \in Procs : proc'[q].pc \notin Opening
    BY <1>1, <1>4, <1>6
  <2>2. ~disk.ledger[Other(proc[p].mode)].there
    BY <1>2 DEF Installed, World
  <2>3. \A q \in Procs : proc'[q].conn => disk'.marker = proc'[q].mode
    <3>1. CASE proc[p].pc = "mark"
      BY <1>1, <3>1 DEF Installed, World, OneWorld
    <3>2. CASE proc[p].pc = "sign"
      <4>1. disk.marker = "torn"
        BY <1>2, <3>2 DEF Installed, World
      <4>2. \A q \in Procs : ~proc[q].conn
        BY <1>3, <4>1 DEF Installed, World, OneWorld, Modes
      <4> QED
        BY <1>1, <4>2
    <3> QED
      BY <3>1, <3>2
  <2>4. OneWorld'
    BY <1>3, <2>2, <2>3 DEF Installed, World, OneWorld
  <2> QED
    BY <2>1, <2>4 DEF World
<1>9. Schemas'
  <2>1. \A q \in Procs : proc'[q].conn => Ledger(q)'.version = Current
    BY <1>1, <1>3 DEF Installed, Schemas, SchemaWhole, Ledger
  <2>2. \A q \in Procs : proc'[q].pc \in {"mint", "mark", "sign"} => Ledger(q)'.version = Current
    BY <1>1, <1>4, PcSets DEF Installed, Schemas, Ledger
  <2> QED
    BY <2>1, <2>2 DEF Installed, Schemas, SchemaWhole
<1>10. Records'
  BY <1>1, <1>4, RecordsKept DEF Installed
<1> QED
  BY <1>5, <1>7, <1>8, <1>9, <1>10 DEF Installed

LEMMA MarkKeeps ==
  ASSUME Installed, NEW p \in Procs, Mark(p)
  PROVE  Installed'
<1>1. /\ proc[p].pc = "mark" /\ proc[p].pc \in Opening /\ Calls /\ IsDisk(disk) /\ Numbers
      /\ opener = p /\ UNCHANGED <<sc, vault, kids, issued>> /\ proc[p].mode \in Modes
  BY BuilderFacts, PcSets DEF Mark
<1>2. CASE disk.marker # "absent" /\ Ours(proc[p].mode) /\ Connected(p) /\ UNCHANGED disk
  <2>1. disk.marker = proc[p].mode
    BY <1>2 DEF Ours
  <2> QED
    BY <1>1, <1>2, <2>1, ConnectedKeeps
<1>3. CASE /\ disk.marker = "absent" /\ disk' = [disk EXCEPT !.marker = "torn"]
           /\ Goto(p, "sign") /\ UNCHANGED opener
  <2>1. /\ IsDisk(disk)' /\ disk'.marker = "torn" /\ disk'.ledger = disk.ledger
        /\ disk'.record = disk.record
    BY <1>1, <1>3, MarkerEffect
  <2>2. /\ Calls' /\ \A q \in Procs \ {p} : proc'[q] = proc[q]
        /\ proc'[p].pc = "sign" /\ proc'[p].next = proc[p].next
        /\ proc'[p].mode = proc[p].mode /\ proc'[p].conn = proc[p].conn
        /\ proc'[p].lock = proc[p].lock /\ proc'[p].tool = proc[p].tool
    BY <1>1, <1>3, GotoEffect DEF Went, Alone
  <2>3. Shapes'
    BY <1>1, <2>1, <2>2, NumbersStay DEF Installed, Shapes
  <2>4. \A q \in Procs \ {p} : proc[q].pc \notin Opening
    BY <1>1 DEF Installed, Locks
  <2>5. Locks'
    <3>1. Post(p)'
      BY <1>1, <2>2, PcSets DEF Installed, Locks, Post, Aim
    <3>2. \A q \in Procs : Post(q)'
      BY <2>2, <3>1 DEF Installed, Locks, Post, Aim
    <3>3. \A q \in Procs : (opener = q <=> proc[q].pc \in Opening)'
      BY <1>1, <1>3, <2>2, PcSets DEF Installed, Locks
    <3>4. \A q \in Procs : proc'[q].lock = proc[q].lock
      BY <2>2
    <3> QED
      BY <1>1, <3>2, <3>3, <3>4 DEF Installed, Locks
  <2>6. World'
    <3>1. ~disk.ledger[Other(proc[p].mode)].there
      BY <1>1 DEF Installed, World
    <3>2. \A q \in Procs : proc[q].mode \in Modes /\ ~proc[q].conn
      BY <1>1, <1>3 DEF Installed, World, OneWorld, Calls, Modes
    <3>3. \A q \in Procs : ~proc'[q].conn
      BY <2>2, <3>2
    <3>4. OneWorld'
      BY <2>1, <3>3 DEF Installed, World, OneWorld, Modes
    <3>5. \A q \in Procs : proc'[q].pc \in Opening => q = p
      BY <2>2, <2>4
    <3> QED
      BY <2>1, <2>2, <3>1, <3>4, <3>5 DEF World
  <2>7. Schemas'
    BY <1>1, <2>1, <2>2 DEF Installed, Schemas, SchemaWhole, Ledger
  <2>8. Records'
    BY <1>1, <2>1, <2>2, RecordsKept, PcSets DEF Installed
  <2> QED
    BY <2>3, <2>5, <2>6, <2>7, <2>8 DEF Installed
<1> QED
  BY <1>2, <1>3 DEF Mark

LEMMA SignKeeps ==
  ASSUME Installed, NEW p \in Procs, Sign(p)
  PROVE  Installed'
<1>1. /\ proc[p].pc = "sign" /\ proc[p].pc \in Opening /\ Calls /\ Shapes /\ IsDisk(disk)
      /\ Numbers /\ UNCHANGED <<sc, vault, kids, issued>>
  BY BuilderFacts, PcSets DEF Sign, Installed
<1>2. CASE disk' = [disk EXCEPT !.marker = proc[p].mode] /\ Connected(p)
  <2>1. /\ IsDisk(disk)' /\ disk'.marker = proc[p].mode /\ disk'.ledger = disk.ledger
        /\ disk'.record = disk.record
    BY <1>1, <1>2, MarkerEffect
  <2> QED
    BY <1>1, <1>2, <2>1, ConnectedKeeps
<1>3. CASE Refuse(p, "marker not written") /\ UNCHANGED disk
  <2>1. Rests(p) /\ opener' = Nobody
    BY <1>1, <1>3, RefuseRests
  <2>2. Files /\ Numbers'
    BY <1>1, <1>3, FilesStay, NumbersStay
  <2>3. Falls(p)
    BY <1>1, <2>1, <2>2, FallOf
  <2> QED
    BY <2>3, FallKeeps
<1> QED
  BY <1>2, <1>3 DEF Sign

-----------------------------------------------------------------------------
(* The items in the vault and the record of their creation.                *)

LEMMA StartLineKeeps ==
  ASSUME Installed, NEW p \in Procs, StartLine(p)
  PROVE  Installed'
<1> DEFINE c == proc[p]
<1> DEFINE r == [c EXCEPT !.pc = "line", !.nonce = issued.nonce + 1]
<1>1. /\ Calls /\ Shapes /\ Locks /\ Numbers /\ IsDisk(disk) /\ proc[p].pc = "record"
      /\ UNCHANGED <<sc, vault, opener, kids>>
  BY DEF Installed, Shapes, StartLine
<1>2. IsCall(c) /\ r = [c EXCEPT !.pc = "line", !.nonce = issued.nonce + 1]
  BY <1>1 DEF Calls
<1>3. proc' = [proc EXCEPT ![p] = r]
  BY DEF StartLine, Calls
<1> HIDE DEF c, r
<1>4. IsCall(r)
  BY <1>2 DEF IsCall
<1>5. /\ r.mode = c.mode /\ r.conn = c.conn /\ r.lock = c.lock /\ r.tool = c.tool
      /\ r.pc = "line" /\ r.nonce = issued.nonce + 1
  BY <1>2 DEF IsCall
<1>6. Went(p, r.pc) /\ proc'[p] = r
  BY <1>1, <1>3, <1>4, <1>5, UpdateWent DEF c
<1>7. /\ Calls' /\ \A q \in Procs \ {p} : proc'[q] = proc[q]
      /\ proc'[p].pc = "line" /\ proc'[p].nonce # 0 /\ Went(p, proc'[p].pc)
  <2>1. proc'[p].pc = "line" /\ proc'[p].nonce # 0
    BY <1>1, <1>5, <1>6 DEF Numbers
  <2> QED
    BY <1>6, <2>1, WentSelf DEF Went, Alone
<1>8. Files
  <2>1. disk' = [disk EXCEPT !.record.torn = TRUE]
    BY DEF StartLine
  <2> QED
    BY <1>1, <2>1, TornEffect DEF Files, SameDoor
<1>9. Numbers'
  <2>1. issued' = [issued EXCEPT !.nonce = issued.nonce + 1]
    BY DEF StartLine
  <2> QED
    BY <1>1, <2>1 DEF Numbers
<1>10. Walks(p)
  <2>1. Post(p)'
    BY <1>1, <1>7, PcSets DEF Locks, Post, Aim, Went
  <2> QED
    BY <1>1, <1>7, <1>8, <1>9, <2>1, PcSets DEF Walks, Shapes, Files
<1>11. Records'
  BY <1>1, <1>7, <1>8 DEF Installed, Records, RecordedUntilGone, Files
<1>12. \A q \in Procs : proc[q].lock = "ex" => kids' = {}
  BY <1>1 DEF Locks
<1> QED
  BY <1>10, <1>11, <1>12, WalkKeeps

LEMMA EndLineKeeps ==
  ASSUME Installed, NEW p \in Procs, EndLine(p)
  PROVE  Installed'
<1>1. /\ Calls /\ Shapes /\ Locks /\ Numbers /\ IsDisk(disk) /\ proc[p].pc = "line"
      /\ UNCHANGED <<sc, vault, opener, kids, issued>>
  BY DEF Installed, Shapes, EndLine
<1>2. CASE NotCreated(p) /\ \E torn \in BOOLEAN : disk' = [disk EXCEPT !.record.torn = torn]
  <2>1. Returned(p) \/ Went(p, "app")
    BY <1>1, <1>2, GotoEffect, StopEffect DEF NotCreated
  <2>2. Goes(p)
    BY <1>1, <2>1, LadderGoes, PcSets
  <2>3. Files /\ Numbers'
    BY <1>1, <1>2, TornEffect, NumbersStay DEF Files, SameDoor
  <2> QED
    BY <1>1, <2>2, <2>3, PlainOf, PlainKeeps
<1>3. CASE /\ disk' = [disk EXCEPT !.record.torn = FALSE,
                         !.record.lines = disk.record.lines \cup {proc[p].nonce}]
           /\ Goto(p, "create")
  <2>1. /\ Went(p, proc'[p].pc) /\ proc'[p].pc = "create" /\ proc'[p].nonce = proc[p].nonce
        /\ Calls' /\ \A q \in Procs \ {p} : proc'[q] = proc[q]
    BY <1>1, <1>3, GotoEffect, WentSelf DEF Went, Alone
  <2>2. /\ IsDisk(disk)' /\ disk'.marker = disk.marker /\ disk'.ledger = disk.ledger
        /\ disk'.record.lines = disk.record.lines \cup {proc[p].nonce}
    BY <1>1, <1>3, LineEffect
  <2>3. SameDoor /\ Shapes'
    BY <1>1, <2>1, <2>2, NumbersStay DEF SameDoor, Shapes
  <2>4. Walks(p)
    <3>1. Post(p)'
      BY <1>1, <2>1, PcSets DEF Locks, Post, Aim, Went
    <3> QED
      BY <1>1, <2>1, <2>3, <3>1, PcSets DEF Walks
  <2>5. Records'
    <3>1. proc[p].nonce # 0
      BY <1>1 DEF Installed, Records
    <3> QED
      BY <1>1, <2>1, <2>2, <3>1 DEF Installed, Records, RecordedUntilGone
  <2>6. \A q \in Procs : proc[q].lock = "ex" => kids' = {}
    BY <1>1 DEF Locks
  <2> QED
    BY <2>4, <2>5, <2>6, WalkKeeps
<1> QED
  BY <1>2, <1>3 DEF EndLine

LEMMA CreateKeeps ==
  ASSUME Installed, NEW p \in Procs, Create(p)
  PROVE  Installed'
<1>1. /\ Calls /\ Shapes /\ Locks /\ Numbers /\ IsDisk(disk) /\ proc[p].pc = "create"
      /\ UNCHANGED <<sc, disk, vault, opener, issued>> /\ kids' = kids \cup {Child(p)}
  BY DEF Installed, Shapes, Create
<1>2. /\ Went(p, proc'[p].pc) /\ proc'[p].pc = "waiting"
      /\ Calls' /\ \A q \in Procs \ {p} : proc'[q] = proc[q]
  BY <1>1, GotoEffect, WentSelf DEF Create, Went, Alone
<1>3. Files /\ Shapes'
  BY <1>1, <1>2, FilesStay, NumbersStay DEF Shapes, Files
<1>4. Walks(p)
  <2>1. Post(p)'
    BY <1>1, <1>2, PcSets DEF Locks, Post, Aim, Went
  <2> QED
    BY <1>1, <1>2, <1>3, <2>1, PcSets DEF Walks, Files
<1>5. Records'
  <2>1. Child(p).nonce \in disk.record.lines
    BY <1>1 DEF Installed, Records, Child
  <2> QED
    BY <1>1, <1>2, <1>3, <2>1 DEF Installed, Records, RecordedUntilGone
<1>6. ASSUME NEW q \in Procs, proc[q].lock = "ex"
      PROVE  kids' = {}
  <2>1. proc[p].lock = "sh"
    BY <1>1, PcSets DEF Locks, Post, Aim, Binding, Exclusive
  <2>2. q # p /\ proc[p].lock = "none"
    BY <1>1, <1>6, <2>1 DEF Locks
  <2> QED
    BY <2>1, <2>2
<1> QED
  BY <1>4, <1>5, <1>6, WalkKeeps

\* An eraser holds the directory for itself.
LEMMA EraserAlone ==
  ASSUME Locks, NEW p \in Procs, proc[p].pc \in Erasing
  PROVE  /\ kids = {} /\ \A q \in Procs \ {p} : proc[q].pc \in Asleep
<1>1. proc[p].tool \in Exclusive /\ proc[p].lock # "none"
  BY PcSets DEF Locks, Post, Aim, Erasers, Exclusive
<1>2. proc[p].lock = "ex"
  BY <1>1 DEF Locks, Post
<1>3. kids = {} /\ \A q \in Procs \ {p} : proc[q].lock = "none"
  BY <1>2 DEF Locks
<1> QED
  BY <1>3 DEF Locks, Post

LEMMA SweepKeeps ==
  ASSUME Installed, NEW p \in Procs, Sweep(p)
  PROVE  Installed'
<1>1. /\ Calls /\ Shapes /\ Locks /\ Records /\ Numbers /\ IsDisk(disk) /\ proc[p].pc = "items"
      /\ UNCHANGED <<sc, opener, kids, issued>>
  BY DEF Installed, Shapes, Sweep
<1>2. PICK kept, spared \in SUBSET disk.record.lines :
        /\ spared \subseteq kept
        /\ vault' = {i \in vault : ~Recorded(p, i) \/ i.nonce \in spared}
        /\ \E ok : proc' = [proc EXCEPT ![p].kept = kept, ![p].pc = "rewrite", ![p].ok = ok]
  BY DEF Sweep
<1>3. PICK ok : proc' = [proc EXCEPT ![p].kept = kept, ![p].pc = "rewrite", ![p].ok = ok]
  BY <1>2
<1>4. /\ spared \subseteq kept /\ kept \subseteq disk.record.lines
      /\ vault' = {i \in vault : ~Recorded(p, i) \/ i.nonce \in spared}
  BY <1>2
<1> DEFINE c == proc[p]
<1> DEFINE r == [c EXCEPT !.kept = kept, !.pc = "rewrite", !.ok = ok]
<1>5. IsCall(c) /\ r = [c EXCEPT !.kept = kept, !.pc = "rewrite", !.ok = ok]
  BY <1>1 DEF Calls
<1>6. proc' = [proc EXCEPT ![p] = r]
  BY <1>3 DEF Calls
<1> HIDE DEF c, r
<1>7. IsCall(r)
  BY <1>5 DEF IsCall
<1>8. /\ r.mode = c.mode /\ r.conn = c.conn /\ r.lock = c.lock /\ r.tool = c.tool
      /\ r.pc = "rewrite" /\ r.kept = kept
  BY <1>5 DEF IsCall
<1>9. Went(p, r.pc) /\ proc'[p] = r
  BY <1>1, <1>6, <1>7, <1>8, UpdateWent DEF c
<1>10. /\ Calls' /\ \A q \in Procs \ {p} : proc'[q] = proc[q]
       /\ proc'[p].pc = "rewrite" /\ proc'[p].kept = kept /\ Went(p, proc'[p].pc)
  BY <1>8, <1>9, WentSelf DEF Went, Alone
<1>11. Files
  <2>1. disk' = [disk EXCEPT !.record.copy = FALSE, !.record.torn = FALSE]
    BY DEF Sweep
  <2> QED
    BY <1>1, <2>1, CopyEffect DEF Files, SameDoor
<1>12. Walks(p)
  <2>1. Post(p)'
    BY <1>1, <1>10, PcSets DEF Locks, Post, Aim, Went
  <2> QED
    BY <1>1, <1>10, <1>11, <2>1, PcSets, NumbersStay DEF Walks, Shapes, Files
<1>13. Records'
  <2>1. \A i \in vault' : i \in vault /\ (i.nonce # 0 => i.nonce \in kept)
    BY <1>1, <1>4 DEF Records, RecordedUntilGone, Recorded
  <2>2. sc.begun = "operator" => OurKey(0, LiteralKey - 1) \in vault'
    BY <1>1, <1>4 DEF Records, RecordedUntilGone, Recorded, OurKey
  <2>3. \A q \in Procs \ {p} : proc'[q].pc \in Asleep
    BY <1>1, <1>10, EraserAlone, PcSets
  <2> QED
    BY <1>1, <1>4, <1>10, <1>11, <2>1, <2>2, <2>3, PcSets DEF Records, RecordedUntilGone, Files
<1>14. \A q \in Procs : proc[q].lock = "ex" => kids' = {}
  BY <1>1 DEF Locks
<1> QED
  BY <1>12, <1>13, <1>14, WalkKeeps

LEMMA RewriteKeeps ==
  ASSUME Installed, NEW p \in Procs, Rewrite(p)
  PROVE  Installed'
<1>1. /\ Calls /\ Shapes /\ Locks /\ Records /\ Numbers /\ IsDisk(disk)
      /\ proc[p].pc = "rewrite" /\ UNCHANGED <<sc, vault, opener, kids, issued>>
  BY DEF Installed, Shapes, Rewrite
<1>2. kids = {} /\ \A q \in Procs \ {p} : proc[q].pc \in Asleep
  BY <1>1, EraserAlone, PcSets
<1>3. \A q \in Procs : proc[q].lock = "ex" => kids' = {}
  BY <1>1, <1>2
<1>4. CASE disk' = [disk EXCEPT !.record.copy = TRUE] /\ UNCHANGED proc
  <2>1. /\ IsDisk(disk)' /\ disk'.marker = disk.marker /\ disk'.ledger = disk.ledger
        /\ disk'.record.lines = disk.record.lines
    BY <1>1, <1>4, CopyEffect
  <2>2. Shapes' /\ Locks' /\ Records'
    BY <1>1, <1>4, <2>1, NumbersStay
       DEF Shapes, Calls, Locks, Post, Aim, Records, RecordedUntilGone
  <2>3. World' /\ Schemas'
    BY <1>4, <2>1 DEF Installed, World, OneWorld, Schemas, SchemaWhole, Ledger
  <2> QED
    BY <2>2, <2>3 DEF Installed
<1>5. CASE OkTo(p, "reset", FALSE) /\ UNCHANGED disk
  <2>1. Went(p, "reset")
    BY <1>1, <1>5, OkEffect
  <2>2. Goes(p)
    BY <1>1, <2>1, EraseGoes, PcSets
  <2> QED
    BY <1>1, <1>5, <2>2, FilesStay, NumbersStay, PlainOf, PlainKeeps
<1>6. CASE /\ disk' = [disk EXCEPT !.record = [NoRecord EXCEPT !.lines = proc[p].kept]]
           /\ Goto(p, "reset")
  <2>1. /\ Went(p, proc'[p].pc) /\ proc'[p].pc = "reset"
        /\ Calls' /\ \A q \in Procs \ {p} : proc'[q] = proc[q]
    BY <1>1, <1>6, GotoEffect, WentSelf DEF Went, Alone
  <2>2. /\ IsDisk(disk)' /\ disk'.marker = disk.marker /\ disk'.ledger = disk.ledger
        /\ disk'.record.lines = proc[p].kept
    BY <1>1, <1>6, WholeEffect
  <2>3. Walks(p)
    <3>1. Post(p)'
      BY <1>1, <2>1, PcSets DEF Locks, Post, Aim, Went
    <3> QED
      BY <1>1, <2>1, <2>2, <3>1, PcSets, NumbersStay DEF Walks, Shapes, SameDoor
  <2>4. Records'
    <3>1. /\ proc[p].kept \subseteq disk.record.lines
          /\ \A i \in vault : i.nonce # 0 => i.nonce \in proc[p].kept
      BY <1>1 DEF Records
    <3>2. \A q \in Procs : proc'[q].pc \notin Writing
      BY <1>2, <2>1, PcSets
    <3> QED
      BY <1>1, <1>2, <2>2, <3>1, <3>2, PcSets DEF Records, RecordedUntilGone
  <2> QED
    BY <1>3, <2>3, <2>4, WalkKeeps
<1> QED
  BY <1>4, <1>5, <1>6 DEF Rewrite, OkTo

LEMMA ChildEndsKeeps ==
  ASSUME Installed, NEW kid \in kids, ChildEnds(kid)
  PROVE  Installed'
<1>1. /\ UNCHANGED <<sc, disk, proc, opener, issued>> /\ kids' = kids \ {kid}
      /\ kid.nonce \in disk.record.lines
      /\ \A i \in vault' : i \in vault \/ i.nonce = kid.nonce
      /\ vault \subseteq vault'
  BY DEF ChildEnds, Installed, Records
<1>2. Shapes' /\ World' /\ Schemas'
  BY <1>1 DEF Installed, Shapes, Calls, Numbers, World, OneWorld, Schemas, SchemaWhole, Ledger
<1>3. Locks'
  BY <1>1 DEF Installed, Locks, Post, Aim
<1>4. \A p \in Procs : proc[p].pc # "rewrite"
  BY EraserAlone, PcSets DEF Installed
<1>5. Records'
  BY <1>1, <1>4 DEF Installed, Records, RecordedUntilGone
<1> QED
  BY <1>2, <1>3, <1>5 DEF Installed

LEMMA ClearMarkerKeeps ==
  ASSUME Installed, ClearMarker
  PROVE  Installed'
<1>1. /\ IsDisk(disk) /\ disk.marker = "torn" /\ opener = Nobody
      /\ disk' = [disk EXCEPT !.marker = "absent"]
      /\ UNCHANGED <<sc, vault, proc, opener, kids, issued>>
  BY DEF ClearMarker, Installed, Shapes
<1>2. /\ IsDisk(disk)' /\ disk'.marker = "absent" /\ disk'.ledger = disk.ledger
      /\ disk'.record = disk.record
  BY <1>1, MarkerEffect
<1>3. Shapes' /\ Locks' /\ Schemas' /\ Records'
  BY <1>1, <1>2 DEF Installed, Shapes, Calls, Numbers, Locks, Post, Aim, Schemas, SchemaWhole,
     Ledger, Records, RecordedUntilGone
<1>4. \A p \in Procs : proc[p].pc \notin Opening /\ ~proc[p].conn
  BY <1>1, InstallAssumption DEF Installed, Locks, World, OneWorld, Shapes, Calls, Modes
<1>5. World'
  BY <1>1, <1>2, <1>4 DEF Installed, World, OneWorld, Modes
<1> QED
  BY <1>3, <1>5 DEF Installed

-----------------------------------------------------------------------------
(* All together.                                                           *)

LEMMA DiskShape ==
  ASSUME NEW l, IsLedger(l), l.tables \in 0 .. Tables, l.version = Current => l.tables = Tables,
         NEW marker, NEW record, IsRecord(record), NEW files, NEW d,
         d = Disk(OnProduction(l), marker, record, files)
  PROVE  /\ IsDisk(d) /\ d.marker = marker /\ d.record = record
         /\ ~d.ledger["SANDBOX"].there
         /\ \A m \in Modes : /\ d.ledger[m].tables \in 0 .. Tables
                             /\ d.ledger[m].version = Current => d.ledger[m].tables = Tables
<1>1. /\ IsLedger(NoLedger) /\ NoLedger.there = FALSE /\ NoLedger.tables = 0
      /\ NoLedger.version = 0
  BY DEF IsLedger, NoLedger
<1> DEFINE ledger == OnProduction(l)
<1>2. /\ ledger = [m \in Modes |-> ledger[m]] /\ ledger["SANDBOX"] = NoLedger
      /\ ledger["PRODUCTION"] = l
  BY DEF OnProduction, Modes
<1>3. d = Disk(ledger, marker, record, files)
  OBVIOUS
<1> HIDE DEF ledger
<1>4. d = [ledger |-> ledger, marker |-> marker, record |-> record, snapshots |-> FALSE,
           copies |-> files, published |-> files, staging |-> FALSE]
  BY <1>3 DEF Disk
<1>5. d.ledger = ledger /\ d.marker = marker /\ d.record = record
  BY <1>4
<1>6. \A m \in Modes : IsLedger(ledger[m])
  BY <1>1, <1>2 DEF Modes
<1>7. IsDisk(d)
  BY <1>2, <1>4, <1>6 DEF IsDisk
<1>8. Tables \in Nat /\ Current # 0
  BY DEF Tables, Current
<1>9. \A m \in Modes : /\ ledger[m].tables \in 0 .. Tables
                       /\ ledger[m].version = Current => ledger[m].tables = Tables
  BY <1>1, <1>2, <1>8 DEF Modes
<1> QED
  BY <1>1, <1>2, <1>5, <1>7, <1>9

LEMMA BegunShape ==
  ASSUME NEW kind
  PROVE  /\ IsDisk(Begun(kind)) /\ Begun(kind).marker \in {"absent", "PRODUCTION"}
         /\ ~Begun(kind).ledger["SANDBOX"].there
         /\ \A m \in Modes : LET l == Begun(kind).ledger[m] IN
              l.tables \in 0 .. Tables /\ (l.version = Current => l.tables = Tables)
         /\ 0 \notin Begun(kind).record.lines
         /\ kind = "installed" => 1 \in Begun(kind).record.lines
<1>1. IsLedger(NoLedger) /\ NoLedger.there = FALSE /\ NoLedger.tables = 0 /\ NoLedger.version = 0
  BY DEF IsLedger, NoLedger
<1>2. /\ IsLedger(Standing) /\ Standing.tables = Tables /\ Standing.version = Current
  <2> DEFINE l == NoLedger
  <2>1. IsLedger(l) /\ Standing = [l EXCEPT !.there = TRUE, !.tables = Tables,
                                  !.version = Current, !.instance = 1, !.data = TRUE]
    BY <1>1 DEF Standing
  <2> HIDE DEF l
  <2> QED
    BY <2>1 DEF IsLedger
<1> DEFINE live == [Standing EXCEPT !.consents = TRUE, !.app = 1]
<1> DEFINE old == [Standing EXCEPT !.tables = 2, !.version = 1]
<1> DEFINE newer == [Standing EXCEPT !.version = Current + 1]
<1> DEFINE base == Standing
<1>3. /\ base = Standing
      /\ live = [base EXCEPT !.consents = TRUE, !.app = 1]
  OBVIOUS
<1>4. old = [base EXCEPT !.tables = 2, !.version = 1]
  OBVIOUS
<1>5. newer = [base EXCEPT !.version = Current + 1]
  OBVIOUS
<1> HIDE DEF live, old, newer, base
<1>6. IsLedger(live) /\ live.tables = Tables /\ live.version = Current
  BY <1>2, <1>3 DEF IsLedger
<1>7. IsLedger(old) /\ old.tables = 2 /\ old.version = 1
  BY <1>2, <1>3, <1>4 DEF IsLedger
<1>8. IsLedger(newer) /\ newer.tables = Tables /\ newer.version = Current + 1
  BY <1>2, <1>3, <1>5 DEF IsLedger
<1>9. IsRecord(NoRecord) /\ NoRecord.lines = {}
  BY DEF IsRecord, NoRecord
<1> DEFINE one == [NoRecord EXCEPT !.lines = {1}]
<1> DEFINE none == NoRecord
<1>10. IsRecord(none) /\ one = [none EXCEPT !.lines = {1}]
  BY <1>9
<1> HIDE DEF one, none
<1>11. IsRecord(one) /\ one.lines = {1}
  BY <1>10 DEF IsRecord
<1>13. 2 \in 0 .. Tables /\ Tables \in 0 .. Tables /\ 0 \in 0 .. Tables
       /\ 1 # Current /\ Current + 1 # Current /\ 0 # Current
  BY DEF Tables, Current
<1>14. CASE kind = "old"
  <2> DEFINE d == Begun(kind)
  <2> DEFINE marker == "PRODUCTION"
  <2> DEFINE files == FALSE
  <2>1. d = Disk(OnProduction(old), marker, NoRecord, files)
    BY <1>14 DEF Begun, old
  <2> HIDE DEF d, marker, files
  <2>2. /\ old.tables \in 0 .. Tables
        /\ old.version = Current => old.tables = Tables
    BY <1>7, <1>13
  <2>3. /\ IsDisk(d) /\ d.marker = marker /\ d.record = NoRecord
        /\ ~d.ledger["SANDBOX"].there
        /\ \A m \in Modes : /\ d.ledger[m].tables \in 0 .. Tables
                            /\ d.ledger[m].version = Current => d.ledger[m].tables = Tables
    BY <1>7, <1>9, <2>1, <2>2, DiskShape
  <2> QED
    BY <1>9, <1>14, <2>3 DEF d, marker
<1>15. CASE kind = "newer"
  <2> DEFINE d == Begun(kind)
  <2> DEFINE marker == "PRODUCTION"
  <2> DEFINE files == FALSE
  <2>1. d = Disk(OnProduction(newer), marker, NoRecord, files)
    BY <1>15 DEF Begun, newer
  <2> HIDE DEF d, marker, files
  <2>2. /\ newer.tables \in 0 .. Tables
        /\ newer.version = Current => newer.tables = Tables
    BY <1>8, <1>13
  <2>3. /\ IsDisk(d) /\ d.marker = marker /\ d.record = NoRecord
        /\ ~d.ledger["SANDBOX"].there
        /\ \A m \in Modes : /\ d.ledger[m].tables \in 0 .. Tables
                            /\ d.ledger[m].version = Current => d.ledger[m].tables = Tables
    BY <1>8, <1>9, <2>1, <2>2, DiskShape
  <2> QED
    BY <1>9, <1>15, <2>3 DEF d, marker
<1>16. CASE kind = "installed"
  <2> DEFINE d == Begun(kind)
  <2> DEFINE marker == "PRODUCTION"
  <2> DEFINE files == TRUE
  <2>1. d = Disk(OnProduction(live), marker, one, files)
    BY <1>16 DEF Begun, live, one, none
  <2> HIDE DEF d, marker, files
  <2>2. /\ live.tables \in 0 .. Tables
        /\ live.version = Current => live.tables = Tables
    BY <1>6, <1>13
  <2>3. /\ IsDisk(d) /\ d.marker = marker /\ d.record = one
        /\ ~d.ledger["SANDBOX"].there
        /\ \A m \in Modes : /\ d.ledger[m].tables \in 0 .. Tables
                            /\ d.ledger[m].version = Current => d.ledger[m].tables = Tables
    BY <1>6, <1>11, <2>1, <2>2, DiskShape
  <2> QED
    BY <1>11, <1>16, <2>3 DEF d, marker
<1>17. CASE kind \notin {"old", "newer", "installed"}
  <2> DEFINE d == Begun(kind)
  <2> DEFINE marker == "absent"
  <2> DEFINE files == FALSE
  <2>1. d = Disk(OnProduction(NoLedger), marker, NoRecord, files)
    BY <1>17 DEF Begun
  <2> HIDE DEF d, marker, files
  <2>2. /\ NoLedger.tables \in 0 .. Tables
        /\ NoLedger.version = Current => NoLedger.tables = Tables
    BY <1>1, <1>13
  <2>3. /\ IsDisk(d) /\ d.marker = marker /\ d.record = NoRecord
        /\ ~d.ledger["SANDBOX"].there
        /\ \A m \in Modes : /\ d.ledger[m].tables \in 0 .. Tables
                            /\ d.ledger[m].version = Current => d.ledger[m].tables = Tables
    BY <1>1, <1>9, <2>1, <2>2, DiskShape
  <2> QED
    BY <1>9, <1>17, <2>3 DEF d, marker
<1> QED
  BY <1>14, <1>15, <1>16, <1>17

LEMMA InitInstalled ==
  ASSUME Init
  PROVE  Installed
<1>1. /\ sc \in Scenarios /\ disk = Begun(sc.begun) /\ opener = Nobody /\ kids = {}
      /\ proc = [p \in Procs |-> Down] /\ issued = [instance |-> 1, nonce |-> 1, app |-> 1]
  BY DEF Init
<1>2. \A p \in Procs : proc[p] = Down
  BY <1>1
<1>3. Shapes
  BY <1>1, <1>2, DownShape, BegunShape DEF Shapes, Calls, Numbers
<1>4. Locks
  BY <1>1, <1>2, DownShape, PcSets, InstallAssumption DEF Locks, Post, Aim
<1>5. World
  BY <1>1, <1>2, DownShape, PcSets, BegunShape, OtherMode DEF World, OneWorld, Modes
<1>6. Schemas
  BY <1>1, <1>2, DownShape, BegunShape DEF Schemas, SchemaWhole
<1>7. Records
  <2>1. \A i \in vault : i.nonce # 0 => sc.begun = "installed" /\ i.nonce = 1
    BY DEF Init, OurKey
  <2>2. sc.begun = "operator" => OurKey(0, LiteralKey - 1) \in vault
    BY DEF Init
  <2> QED
    BY <1>1, <1>2, <2>1, <2>2, DownShape, BegunShape DEF Records, RecordedUntilGone
<1> QED
  BY <1>3, <1>4, <1>5, <1>6, <1>7 DEF Installed

LEMMA StepKeeps ==
  ASSUME Installed, NEW p \in Procs, Step(p)
  PROVE  Installed'
<1>1. CASE \E mode \in Modes : Spawn(p, mode)
  BY <1>1, SpawnFalls, FallKeeps
<1>2. CASE Crash(p)
  BY <1>2, CrashFalls, FallKeeps
<1>3. CASE \E tool \in sc.tools : Call(p, tool)
  BY <1>3, CallFalls, FallKeeps
<1>4. CASE Busy(p)
  BY <1>4, BusyFalls, FallKeeps
<1>5. CASE TakeLock(p)
  BY <1>5, TakeLockKeeps
<1>6. CASE TakeOpenLock(p)
  BY <1>6, TakeOpenLockKeeps
<1>7. CASE OpenFile(p)
  BY <1>7, OpenFileKeeps
<1>8. CASE Schema(p)
  BY <1>8, SchemaKeeps
<1>9. CASE Snapshot(p)
  BY <1>9, SnapshotKeeps
<1>10. CASE Migrate(p)
  BY <1>10, MigrateKeeps
<1>11. CASE Mint(p)
  BY <1>11, MintKeeps
<1>12. CASE Mark(p)
  BY <1>12, MarkKeeps
<1>13. CASE Sign(p)
  BY <1>13, SignKeeps
<1>14. CASE StartLine(p)
  BY <1>14, StartLineKeeps
<1>15. CASE EndLine(p)
  BY <1>15, EndLineKeeps
<1>16. CASE Create(p)
  BY <1>16, CreateKeeps
<1>17. CASE Sweep(p)
  BY <1>17, SweepKeeps
<1>18. CASE Rewrite(p)
  BY <1>18, RewriteKeeps
<1>19. CASE CheckMode(p)
  BY <1>19, CheckModeIsPlain, PlainKeeps
<1>20. CASE CheckFence(p)
  BY <1>20, CheckFenceIsPlain, PlainKeeps
<1>21. CASE OpenBusy(p)
  BY <1>21, OpenBusyIsPlain, PlainKeeps
<1>22. CASE Write(p)
  BY <1>22, WriteIsPlain, PlainKeeps
<1>23. CASE Stage(p)
  BY <1>23, StageIsPlain, PlainKeeps
<1>24. CASE Publish(p)
  BY <1>24, PublishIsPlain, PlainKeeps
<1>25. CASE Lift(p)
  BY <1>25, LiftIsPlain, PlainKeeps
<1>26. CASE ResolveKey(p)
  BY <1>26, ResolveKeyIsPlain, PlainKeeps
<1>27. CASE ConfirmAbsent(p)
  BY <1>27, ConfirmAbsentIsPlain, PlainKeeps
<1>28. CASE Answer(p)
  BY <1>28, AnswerIsPlain, PlainKeeps
<1>29. CASE ReadBack(p)
  BY <1>29, ReadBackIsPlain, PlainKeeps
<1>30. CASE Credential(p)
  BY <1>30, CredentialIsPlain, PlainKeeps
<1>31. CASE WiredApp(p)
  BY <1>31, WiredAppIsPlain, PlainKeeps
<1>32. CASE ReadBinding(p)
  BY <1>32, ReadBindingIsPlain, PlainKeeps
<1>33. CASE List(p)
  BY <1>33, ListIsPlain, PlainKeeps
<1>34. CASE Recognise(p)
  BY <1>34, RecogniseIsPlain, PlainKeeps
<1>35. CASE Search(p)
  BY <1>35, SearchIsPlain, PlainKeeps
<1>36. CASE Keyed(p)
  BY <1>36, KeyedIsPlain, PlainKeeps
<1>37. CASE Register(p)
  BY <1>37, RegisterIsPlain, PlainKeeps
<1>38. CASE Verify(p)
  BY <1>38, VerifyIsPlain, PlainKeeps
<1>39. CASE Health(p)
  BY <1>39, HealthIsPlain, PlainKeeps
<1>40. CASE Vanished(p)
  BY <1>40, VanishedIsPlain, PlainKeeps
<1>41. CASE Accept(p)
  BY <1>41, AcceptIsPlain, PlainKeeps
<1>42. CASE EraseRows(p)
  BY <1>42, EraseRowsIsPlain, PlainKeeps
<1>43. CASE EraseCopies(p)
  BY <1>43, EraseCopiesIsPlain, PlainKeeps
<1>44. CASE Withdraw(p)
  BY <1>44, WithdrawIsPlain, PlainKeeps
<1>45. CASE EraseExports(p)
  BY <1>45, EraseExportsIsPlain, PlainKeeps
<1>46. CASE Reset(p)
  BY <1>46, ResetIsPlain, PlainKeeps
<1>47. CASE Residue(p)
  BY <1>47, ResidueIsPlain, PlainKeeps
<1>48. CASE Reclaim(p)
  BY <1>48, ReclaimIsPlain, PlainKeeps
<1> QED
  BY <1>1, <1>2, <1>3, <1>4, <1>5, <1>6, <1>7, <1>8, <1>9, <1>10, <1>11, <1>12, <1>13,
     <1>14, <1>15, <1>16, <1>17, <1>18, <1>19, <1>20, <1>21, <1>22, <1>23, <1>24,
     <1>25, <1>26, <1>27, <1>28, <1>29, <1>30, <1>31, <1>32, <1>33, <1>34, <1>35,
     <1>36, <1>37, <1>38, <1>39, <1>40, <1>41, <1>42, <1>43, <1>44, <1>45, <1>46,
     <1>47, <1>48 DEF Step

LEMMA NextKeeps ==
  ASSUME Installed, [Next]_vars
  PROVE  Installed'
<1>1. CASE \E p \in sc.procs : Step(p)
  <2>1. sc.procs \subseteq Procs
    BY InstallAssumption DEF Installed, Shapes
  <2> QED
    BY <1>1, <2>1, StepKeeps
<1>2. CASE \E kid \in kids : ChildEnds(kid)
  BY <1>2, ChildEndsKeeps
<1>3. CASE ClearMarker
  BY <1>3, ClearMarkerKeeps
<1>4. CASE UNCHANGED <<sc, disk, vault, proc, opener, kids, issued>>
  BY <1>4 DEF Installed, Shapes, Calls, Numbers, Locks, Post, Aim, World, OneWorld, Schemas,
     SchemaWhole, Ledger, Records, RecordedUntilGone
<1>5. CASE \E a \in panel : Flap(a) \/ Drift(a)
  BY <1>4, <1>5 DEF Flap, Drift
<1>6. CASE UNCHANGED vars
  BY <1>4, <1>6 DEF vars
<1> QED
  BY <1>1, <1>2, <1>3, <1>5, <1>6 DEF Next

\* Whatever is started, called, killed or refused, the installation keeps its
\* shape: one lock of the dispatcher, one opener, one world, whole schemas and
\* a record that covers the vault.
THEOREM InstalledAlways == Spec => []Installed
<1>1. Init => Installed
  BY InitInstalled
<1>2. Installed /\ [Next]_vars => Installed'
  BY NextKeeps
<1> QED
  BY <1>1, <1>2, PTL DEF Spec

\* A data directory never holds the ledgers of both modes, and its marker never
\* names the mode it does not hold (store.check_mode_marker, asked again under
\* the open lock; commit_mode_marker).
THEOREM OneWorldAlways == Spec => []OneWorld
<1>1. Installed => OneWorld
  BY DEF Installed, World
<1> QED
  BY <1>1, InstalledAlways, PTL

\* A ledger that says the current version has all its tables, wherever its
\* creation or its migration was cut (store._migrate stamps last).
THEOREM SchemaWholeAlways == Spec => []SchemaWhole
<1>1. Installed => SchemaWhole
  BY DEF Installed, Schemas
<1> QED
  BY <1>1, InstalledAlways, PTL

\* What bank-feed made in the vault is recorded from before it exists until it
\* is gone, a create that outlived its server included; the operator's own item
\* stays (opvault._record_creation, erase_recorded).
THEOREM RecordedUntilGoneAlways == Spec => []RecordedUntilGone
<1>1. Installed => RecordedUntilGone
  BY DEF Installed, Records
<1> QED
  BY <1>1, InstalledAlways, PTL
=============================================================================
