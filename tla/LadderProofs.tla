---------------------------- MODULE LadderProofs ----------------------------
(* Proofs about the erasers and the setup ladder of Install, for every     *)
(* value of its constants: what may fill the data directory again behind   *)
(* the uninstall fence, what is left of an installation when an eraser     *)
(* says it is complete, that the key an application is registered with is  *)
(* in the vault, that calls that do not overlap make no second             *)
(* application, and that every value of the installation keeps its type.   *)
EXTENDS InstallProofs, FiniteSetTheorems


-----------------------------------------------------------------------------
(* The invariant.                                                          *)

\* What p has where it stands: its ledger once it is past the creation of the
\* file, a connection where rows and files are filled or erased, and no fence
\* ahead of what would fill them.
Settled(p) ==
  /\ proc[p].pc \in Opening \ {"file"} => Ledger(p).there
  /\ proc[p].conn => Ledger(p).there
  /\ proc[p].pc \in Filling \cup Erasing => proc[p].conn
  /\ Aim(p) \in Filling => ~Ledger(p).fence

Fences ==
  /\ \A m \in Modes : disk.ledger[m].fence => disk.ledger[m].there /\ ~disk.ledger[m].data
  /\ \A p \in Procs : Settled(p)

\* One step of NothingRefills.
Unfilled ==
  \A m \in Modes : disk'.ledger[m].fence =>
    /\ ~disk'.ledger[m].data
    /\ disk.ledger[m].fence =>
         /\ disk'.copies => disk.copies
         /\ disk'.published => disk.published

\* Nothing is fenced, filled or removed.
Calm ==
  /\ \A m \in Modes :
       /\ disk'.ledger[m].fence => disk.ledger[m].fence
       /\ disk'.ledger[m].data => disk.ledger[m].data
       /\ disk.ledger[m].there => disk'.ledger[m].there
  /\ disk'.copies => disk.copies
  /\ disk'.published => disk.published

LEMMA CalmKeeps ==
  ASSUME Installed, Fences, Calm, NEW p \in Procs, Settled(p)',
         \A q \in Procs \ {p} : proc'[q] = proc[q]
  PROVE  Fences' /\ Unfilled
<1>1. \A q \in Procs : proc[q].mode \in Modes
  BY DEF Installed, Shapes, Calls
<1>2. ASSUME NEW q \in Procs \ {p}
      PROVE  Settled(q)'
  BY <1>1, <1>2 DEF Fences, Settled, Calm, Aim, Ledger
<1>3. \A q \in Procs : Settled(q)'
  BY <1>2
<1> QED
  BY <1>3 DEF Fences, Unfilled, Calm

-----------------------------------------------------------------------------
(* Where a step leaves its call.                                           *)

\* A call that goes on in the tool it serves, or returns.
LEMMA MoveSettles ==
  ASSUME Installed, Locks', Fences, Calm, NEW p \in Procs,
         proc[p].pc \in Laddering \cup Filling \cup Erasing,
         \/ Returned(p)
         \/ Went(p, proc'[p].pc) /\ proc'[p].pc \notin Opening
  PROVE  Settled(p)'
<1>1. /\ proc'[p].mode = proc[p].mode /\ proc'[p].conn = proc[p].conn
      /\ proc[p].mode \in Modes
  BY DEF Returned, Went, Alone, Installed, Shapes, Calls
<1>2. /\ proc'[p].conn => Ledger(p)'.there
      /\ Ledger(p)'.fence => Ledger(p).fence
  BY <1>1 DEF Fences, Settled, Calm, Ledger
<1>3. CASE Returned(p)
  <2>1. proc'[p].pc = "idle"
    BY <1>3 DEF Returned
  <2> QED
    BY <1>2, <2>1, PcSets DEF Settled, Aim
<1>4. CASE Went(p, proc'[p].pc) /\ proc'[p].pc \notin Opening
  <2>1. proc'[p].tool = proc[p].tool /\ Post(p) /\ Post(p)'
    BY <1>4 DEF Went, Installed, Locks
  <2>2. Aim(p) = proc[p].pc
    BY PcSets DEF Aim
  <2>3. proc'[p].pc \in Filling \cup Erasing => Aim(p)' = proc'[p].pc
    BY PcSets DEF Aim
  <2>4. CASE proc[p].pc \in Laddering
    <3>1. proc'[p].tool \in Binding
      BY <2>1, <2>2, <2>4 DEF Post
    <3>2. Aim(p)' \notin Filling \cup Erasing
      BY <2>1, <3>1 DEF Post, Binding, Erasers
    <3> QED
      BY <1>2, <1>4, <2>3, <3>2 DEF Settled
  <2>5. CASE proc[p].pc \in Erasing
    <3>1. proc'[p].tool \in Erasers /\ proc[p].conn
      BY <2>1, <2>2, <2>5 DEF Post, Fences, Settled
    <3>2. Aim(p)' \notin Filling
      BY <2>1, <3>1 DEF Post, Erasers
    <3> QED
      BY <1>1, <1>2, <1>4, <3>1, <3>2 DEF Settled
  <2>6. CASE proc[p].pc \in Filling
    <3>1. ~Ledger(p).fence /\ proc[p].conn
      BY <2>2, <2>6 DEF Fences, Settled
    <3> QED
      BY <1>1, <1>2, <1>4, <3>1 DEF Settled
  <2> QED
    BY <2>4, <2>5, <2>6
<1> QED
  BY <1>3, <1>4

LEMMA PlainSettles ==
  ASSUME Installed, Fences, Calm, NEW p \in Procs, Plain(p),
         proc[p].pc \in Laddering \cup Filling \cup Erasing
  PROVE  Settled(p)'
<1>1. Locks'
  BY PlainKeeps DEF Installed
<1>2. \/ Returned(p)
      \/ Went(p, proc'[p].pc) /\ proc'[p].pc \notin Opening
  BY DEF Plain, Goes
<1> QED
  BY <1>1, <1>2, MoveSettles

\* A call that holds nothing afterwards.
LEMMA RestSettles ==
  ASSUME Installed, Fences, Calm, NEW p \in Procs, Rests(p)
  PROVE  Settled(p)'
<1>1. proc'[p].pc \in Asleep /\ (proc'[p].conn => proc[p].conn /\ proc'[p].mode = proc[p].mode)
  BY DEF Rests
<1>2. proc[p].mode \in Modes
  BY DEF Installed, Shapes, Calls
<1>3. proc'[p].conn => Ledger(p)'.there
  BY <1>1, <1>2 DEF Fences, Settled, Calm, Ledger
<1> QED
  BY <1>1, <1>3, PcSets DEF Settled, Aim

\* A call that goes on opening.
LEMMA OpeningSettles ==
  ASSUME Installed, Fences, Calm, NEW p \in Procs, NEW pc \in Opening, Went(p, pc),
         proc[p].pc \in Inside, proc'[p].next = proc[p].next,
         pc = "file" \/ Ledger(p)'.there
  PROVE  Settled(p)'
<1>1. /\ proc'[p].mode = proc[p].mode /\ proc'[p].conn = proc[p].conn /\ proc'[p].pc = pc
      /\ proc[p].mode \in Modes
  BY DEF Went, Alone, Installed, Shapes, Calls
<1>2. Aim(p)' = Aim(p) /\ pc \in Inside /\ pc \notin Filling \cup Erasing
  BY <1>1, PcSets DEF Aim
<1>3. /\ proc'[p].conn => Ledger(p)'.there
      /\ Ledger(p)'.fence => Ledger(p).fence
  BY <1>1 DEF Fences, Settled, Calm, Ledger
<1> QED
  BY <1>1, <1>2, <1>3 DEF Settled, Fences

\* A call whose connection now stands.
LEMMA ConnectedSettles ==
  ASSUME Installed, Fences, Calm, NEW p \in Procs, Connected(p),
         proc[p].pc \in {"mark", "sign"}
  PROVE  Settled(p)' /\ \A q \in Procs \ {p} : proc'[q] = proc[q]
<1>1. /\ \A q \in Procs \ {p} : proc'[q] = proc[q]
      /\ proc'[p].pc = proc[p].next /\ proc'[p].mode = proc[p].mode /\ proc'[p].conn = TRUE
  BY ConnectedEffect DEF Installed, Shapes
<1>2. /\ proc[p].pc \in Opening \ {"file"} /\ proc[p].next \in Bodies /\ proc[p].mode \in Modes
  BY PcSets DEF Installed, Shapes, Calls, Locks, Post
<1>3. /\ Ledger(p)'.there
      /\ Ledger(p)'.fence => Ledger(p).fence
  BY <1>1, <1>2 DEF Fences, Settled, Calm, Ledger
<1>4. Aim(p)' = Aim(p)
  BY <1>1, <1>2, PcSets DEF Aim, Bodies
<1> QED
  BY <1>1, <1>3, <1>4 DEF Settled, Fences

-----------------------------------------------------------------------------
(* Steps that are calm.                                                    *)

LEMMA CalmStays ==
  ASSUME UNCHANGED disk
  PROVE  Calm
BY DEF Calm

\* Files beside the ledgers: the record, the marker, snapshots, staging; copies
\* and exports that go.
LEMMA CalmFiles ==
  ASSUME IsDisk(disk), NEW x, NEW y,
         \/ disk' = [disk EXCEPT !.snapshots = x]
         \/ disk' = [disk EXCEPT !.staging = x]
         \/ disk' = [disk EXCEPT !.marker = x]
         \/ disk' = [disk EXCEPT !.record = x]
         \/ disk' = [disk EXCEPT !.copies = FALSE, !.snapshots = y]
         \/ disk' = [disk EXCEPT !.published = FALSE, !.staging = y]
  PROVE  Calm
<1>1. /\ disk'.ledger = disk.ledger
      /\ disk'.copies => disk.copies
      /\ disk'.published => disk.published
  BY DEF IsDisk
<1> QED
  BY <1>1 DEF Calm

LEMMA CalmRecord ==
  ASSUME IsDisk(disk), NEW x, NEW y,
         \/ disk' = [disk EXCEPT !.record.torn = x]
         \/ disk' = [disk EXCEPT !.record.torn = x, !.record.lines = y]
         \/ disk' = [disk EXCEPT !.record.copy = x]
         \/ disk' = [disk EXCEPT !.record.copy = x, !.record.torn = y]
  PROVE  Calm
<1>1. \E r : disk' = [disk EXCEPT !.record = r]
  BY DEF IsDisk
<1> QED
  BY <1>1, CalmFiles

\* The ledger of the call, not filled, fenced or removed.
LEMMA CalmRows ==
  ASSUME Calls, IsDisk(disk), NEW p \in Procs, NEW l, WriteLedger(p, l),
         l.fence => Ledger(p).fence, l.data => Ledger(p).data, Ledger(p).there => l.there
  PROVE  Calm
<1>1. proc[p].mode \in Modes
  BY DEF Calls
<1> DEFINE ledger == [disk.ledger EXCEPT ![proc[p].mode] = l]
<1>2. disk' = [ledger |-> ledger, marker |-> disk.marker, record |-> disk.record,
              snapshots |-> disk.snapshots, copies |-> disk.copies, published |-> disk.published,
              staging |-> disk.staging]
  BY DEF IsDisk, WriteLedger
<1>3. /\ ledger[proc[p].mode] = l
      /\ \A m \in Modes \ {proc[p].mode} : ledger[m] = disk.ledger[m]
  BY <1>1 DEF IsDisk
<1> HIDE DEF ledger
<1>4. /\ disk'.ledger = ledger /\ disk'.copies = disk.copies /\ disk'.published = disk.published
  BY <1>2
<1> QED
  BY <1>1, <1>3, <1>4 DEF Calm, Ledger

\* One row with other fields changed.
LEMMA CalmRow ==
  ASSUME NEW c, NEW l, IsLedger(c), NEW x, NEW y,
         \/ l = [c EXCEPT !.there = TRUE]
         \/ l = [c EXCEPT !.tables = x]
         \/ l = [c EXCEPT !.version = x]
         \/ l = [c EXCEPT !.instance = x]
         \/ l = [c EXCEPT !.app = x]
         \/ l = [c EXCEPT !.app = x, !.accepted = y]
         \/ l = [c EXCEPT !.accepted = x]
         \/ l = [c EXCEPT !.consents = x]
         \/ l = [c EXCEPT !.fence = FALSE]
  PROVE  (l.fence => c.fence) /\ (l.data => c.data) /\ (c.there => l.there)
BY DEF IsLedger

LEMMA CalmBound ==
  ASSUME Calls, IsDisk(disk), NEW p \in Procs, NEW app, Bound(p, app) \/ BoundAlive(p, app)
  PROVE  Calm
<1> DEFINE c == Ledger(p)
<1>1. PICK l : /\ WriteLedger(p, l)
               /\ l = [c EXCEPT !.app = app] \/ l = [c EXCEPT !.app = app, !.accepted = 0]
  BY DEF Bound, BoundAlive
<1>2. IsLedger(c)
  BY RowsShape
<1> HIDE DEF c
<1>3. (l.fence => c.fence) /\ (l.data => c.data) /\ (c.there => l.there)
  BY <1>1, <1>2, CalmRow
<1> QED
  BY <1>1, <1>3, CalmRows DEF c

LEMMA CalmLedger ==
  ASSUME Calls, IsDisk(disk), NEW p \in Procs, NEW l, WriteLedger(p, l), NEW x,
         \/ l = [Ledger(p) EXCEPT !.there = TRUE]
         \/ l = [Ledger(p) EXCEPT !.tables = x]
         \/ l = [Ledger(p) EXCEPT !.version = x]
         \/ l = [Ledger(p) EXCEPT !.instance = x]
         \/ l = [Ledger(p) EXCEPT !.accepted = x]
         \/ l = [Ledger(p) EXCEPT !.consents = x]
         \/ l = [Ledger(p) EXCEPT !.fence = FALSE]
  PROVE  Calm
<1> DEFINE c == Ledger(p)
<1>1. IsLedger(c)
  BY RowsShape
<1>2. (l.fence => c.fence) /\ (l.data => c.data) /\ (c.there => l.there)
  <2> HIDE DEF c
  <2>1. \/ l = [c EXCEPT !.there = TRUE]
        \/ l = [c EXCEPT !.tables = x]
        \/ l = [c EXCEPT !.version = x]
        \/ l = [c EXCEPT !.instance = x]
        \/ l = [c EXCEPT !.accepted = x]
        \/ l = [c EXCEPT !.consents = x]
        \/ l = [c EXCEPT !.fence = FALSE]
    BY Zenon DEF c
  <2> QED
    BY <1>1, <2>1, CalmRow
<1> QED
  BY <1>2, CalmRows

\* The setup ladder fills nothing and lifts the fence at most.
LadderStep(p) ==
  \/ Lift(p) \/ ResolveKey(p) \/ ConfirmAbsent(p) \/ StartLine(p) \/ EndLine(p)
  \/ Create(p) \/ Answer(p) \/ ReadBack(p) \/ Credential(p)
  \/ WiredApp(p) \/ ReadBinding(p) \/ List(p) \/ Recognise(p) \/ Search(p)
  \/ Keyed(p) \/ Register(p) \/ Verify(p) \/ Health(p) \/ Vanished(p) \/ Accept(p)

LEMMA LadderIsCalm ==
  ASSUME Installed, NEW p \in Procs, LadderStep(p)
  PROVE  Calm
<1>1. Calls /\ IsDisk(disk)
  BY DEF Installed, Shapes
<1>2. CASE UNCHANGED disk
  BY <1>2, CalmStays
<1>3. CASE \E app : Bound(p, app) \/ BoundAlive(p, app)
  BY <1>1, <1>3, CalmBound
<1>4. CASE Lift(p)
  <2>1. UNCHANGED disk \/ WriteLedger(p, [Ledger(p) EXCEPT !.fence = FALSE])
    BY <1>4 DEF Lift
  <2> QED
    BY <1>1, <1>2, <2>1, CalmLedger
<1>5. CASE StartLine(p)
  BY <1>1, <1>5, CalmRecord DEF StartLine
<1>6. CASE EndLine(p)
  <2>1. \E x, y : \/ disk' = [disk EXCEPT !.record.torn = x]
                 \/ disk' = [disk EXCEPT !.record.torn = x, !.record.lines = y]
    BY <1>6 DEF EndLine
  <2> QED
    BY <1>1, <2>1, CalmRecord
<1>7. CASE Accept(p)
  <2>1. WriteLedger(p, [Ledger(p) EXCEPT !.accepted = proc[p].rec])
    BY <1>7 DEF Accept
  <2> QED
    BY <1>1, <2>1, CalmLedger
<1>8. CASE WiredApp(p)
  BY <1>2, <1>3, <1>8 DEF WiredApp
<1>9. CASE Recognise(p)
  BY <1>3, <1>9 DEF Recognise
<1>10. CASE Keyed(p)
  BY <1>2, <1>3, <1>10 DEF Keyed
<1>11. CASE Verify(p)
  BY <1>2, <1>3, <1>11 DEF Verify
<1>12. CASE Health(p)
  BY <1>2, <1>3, <1>12 DEF Health
<1>13. CASE \/ ResolveKey(p) \/ ConfirmAbsent(p) \/ Create(p) \/ Answer(p)
            \/ ReadBack(p) \/ Credential(p)
  BY <1>2, <1>13 DEF ResolveKey, ConfirmAbsent, Create, Answer, ReadBack, Credential
<1>14. CASE ReadBinding(p) \/ List(p) \/ Search(p) \/ Register(p) \/ Vanished(p)
  BY <1>2, <1>14 DEF ReadBinding, List, Search, Register, Vanished
<1> QED
  BY <1>4, <1>5, <1>6, <1>7, <1>8, <1>9, <1>10, <1>11, <1>12, <1>13, <1>14 DEF LadderStep

\* The erasers, but for the rows and the fence.
EraserStep(p) ==
  \/ EraseCopies(p) \/ Withdraw(p) \/ EraseExports(p) \/ Sweep(p)
  \/ Rewrite(p) \/ Reset(p) \/ Residue(p) \/ Reclaim(p)

LEMMA EraserIsCalm ==
  ASSUME Installed, NEW p \in Procs, EraserStep(p)
  PROVE  Calm
<1>1. Calls /\ IsDisk(disk)
  BY DEF Installed, Shapes
<1>2. CASE UNCHANGED disk
  BY <1>2, CalmStays
<1>3. CASE EraseCopies(p)
  <2>1. UNCHANGED disk \/ disk' = [disk EXCEPT !.copies = FALSE, !.snapshots = FALSE]
    BY <1>3 DEF EraseCopies, Attempt
  <2> QED
    BY <1>1, <1>2, <2>1, CalmFiles
<1>4. CASE Withdraw(p)
  <2>1. UNCHANGED disk \/ WriteLedger(p, [Ledger(p) EXCEPT !.consents = FALSE])
    BY <1>4 DEF Withdraw
  <2> QED
    BY <1>1, <1>2, <2>1, CalmLedger
<1>5. CASE EraseExports(p)
  <2>1. UNCHANGED disk \/ disk' = [disk EXCEPT !.published = FALSE, !.staging = FALSE]
    BY <1>5 DEF EraseExports, Attempt
  <2> QED
    BY <1>1, <1>2, <2>1, CalmFiles
<1>6. CASE Sweep(p)
  <2>1. disk' = [disk EXCEPT !.record.copy = FALSE, !.record.torn = FALSE]
    BY <1>6 DEF Sweep
  <2> QED
    BY <1>1, <2>1, CalmRecord
<1>7. CASE Rewrite(p)
  <2>1. \/ UNCHANGED disk
        \/ disk' = [disk EXCEPT !.record.copy = TRUE]
        \/ \E r : disk' = [disk EXCEPT !.record = r]
    BY <1>7 DEF Rewrite
  <2> QED
    BY <1>1, <1>2, <2>1, CalmRecord, CalmFiles
<1>8. CASE Reset(p)
  <2> DEFINE c == Ledger(p)
  <2> DEFINE instance == issued.instance + 1
  <2> DEFINE l == [c EXCEPT !.app = 0, !.accepted = 0, !.fence = FALSE, !.instance = instance]
  <2>1. UNCHANGED disk \/ WriteLedger(p, l)
    BY <1>8 DEF Reset, Attempt, WriteLedger
  <2>2. IsLedger(c) /\ l = [c EXCEPT !.app = 0, !.accepted = 0, !.fence = FALSE,
                                    !.instance = instance]
    BY <1>1, RowsShape
  <2> HIDE DEF c, l, instance
  <2>3. (l.fence => c.fence) /\ (l.data => c.data) /\ (c.there => l.there)
    BY <2>2 DEF IsLedger
  <2> QED
    BY <1>1, <1>2, <2>1, <2>3, CalmRows DEF c
<1>9. CASE Residue(p)
  <2>1. UNCHANGED disk \/ disk' = [disk EXCEPT !.snapshots = FALSE]
    BY <1>9 DEF Residue
  <2> QED
    BY <1>1, <1>2, <2>1, CalmFiles
<1>10. CASE Reclaim(p)
  BY <1>2, <1>10 DEF Reclaim
<1> QED
  BY <1>3, <1>4, <1>5, <1>6, <1>7, <1>8, <1>9, <1>10 DEF EraserStep

-----------------------------------------------------------------------------
(* What each step leaves.                                                  *)

\* What a step of p owes.
Kept(p) == Calm /\ Settled(p)' /\ \A q \in Procs \ {p} : proc'[q] = proc[q]

LEMMA PlainKept ==
  ASSUME Installed, Fences, Calm, NEW p \in Procs, Plain(p),
         proc[p].pc \in Laddering \cup Filling \cup Erasing
  PROVE  Kept(p)
<1>1. \A q \in Procs \ {p} : proc'[q] = proc[q]
  BY DEF Plain, Goes, Returned, Went, Alone
<1> QED
  BY <1>1, PlainSettles DEF Kept

LEMMA RestKept ==
  ASSUME Installed, Fences, Calm, NEW p \in Procs, Rests(p)
  PROVE  Kept(p)
BY RestSettles DEF Kept, Rests

LEMMA FallKept ==
  ASSUME Installed, Fences, UNCHANGED disk, NEW p \in Procs, Falls(p)
  PROVE  Kept(p)
BY CalmStays, RestKept DEF Falls

\* The move of a call that writes a line, or ends the sweep.
LEMMA MoveKept ==
  ASSUME Installed, Locks', Fences, Calm, NEW p \in Procs,
         proc[p].pc \in Laddering \cup Erasing,
         NEW pc, pc \notin Opening, Returned(p) \/ Went(p, pc)
  PROVE  Kept(p)
<1>1. Returned(p) \/ (Went(p, proc'[p].pc) /\ proc'[p].pc \notin Opening)
  BY DEF Went
<1>2. \A q \in Procs \ {p} : proc'[q] = proc[q]
  BY DEF Returned, Went, Alone
<1> QED
  BY <1>1, <1>2, MoveSettles DEF Kept

LEMMA StartLineKept ==
  ASSUME Installed, Locks', Fences, NEW p \in Procs, StartLine(p)
  PROVE  Kept(p)
<1> DEFINE c == proc[p]
<1> DEFINE nonce == issued.nonce + 1
<1> DEFINE r == [c EXCEPT !.pc = "line", !.nonce = nonce]
<1>1. /\ Calls /\ proc[p].pc \in Laddering /\ "line" \notin Opening
      /\ IsCall(c) /\ r = [c EXCEPT !.pc = "line", !.nonce = nonce]
  BY PcSets DEF Installed, Shapes, Calls, StartLine
<1>2. proc' = [proc EXCEPT ![p] = r]
  BY <1>1 DEF StartLine, Calls
<1> HIDE DEF c, r, nonce
<1>3. IsCall(r)
  BY <1>1 DEF IsCall
<1>4. /\ r.mode = c.mode /\ r.conn = c.conn /\ r.lock = c.lock /\ r.tool = c.tool
      /\ r.pc = "line"
  BY <1>1 DEF IsCall
<1>5. Went(p, r.pc)
  BY <1>1, <1>2, <1>3, <1>4, UpdateWent DEF c
<1>6. Calm
  BY LadderIsCalm DEF LadderStep
<1> QED
  BY <1>1, <1>4, <1>5, <1>6, MoveKept

LEMMA SweepKept ==
  ASSUME Installed, Locks', Fences, NEW p \in Procs, Sweep(p)
  PROVE  Kept(p)
<1>1. PICK kept, ok : proc' = [proc EXCEPT ![p].kept = kept, ![p].pc = "rewrite", ![p].ok = ok]
  BY DEF Sweep
<1> DEFINE c == proc[p]
<1> DEFINE r == [c EXCEPT !.kept = kept, !.pc = "rewrite", !.ok = ok]
<1>2. /\ Calls /\ proc[p].pc \in Erasing /\ "rewrite" \notin Opening
      /\ IsCall(c) /\ r = [c EXCEPT !.kept = kept, !.pc = "rewrite", !.ok = ok]
  BY PcSets DEF Installed, Shapes, Calls, Sweep
<1>3. proc' = [proc EXCEPT ![p] = r]
  BY <1>1, <1>2 DEF Calls
<1> HIDE DEF c, r
<1>4. IsCall(r)
  BY <1>2 DEF IsCall
<1>5. /\ r.mode = c.mode /\ r.conn = c.conn /\ r.lock = c.lock /\ r.tool = c.tool
      /\ r.pc = "rewrite"
  BY <1>2 DEF IsCall
<1>6. Went(p, r.pc)
  BY <1>2, <1>3, <1>4, <1>5, UpdateWent DEF c
<1>7. Calm
  BY EraserIsCalm DEF EraserStep
<1> QED
  BY <1>2, <1>5, <1>6, <1>7, MoveKept

LEMMA RewriteKept ==
  ASSUME Installed, Locks', Fences, NEW p \in Procs, Rewrite(p)
  PROVE  Kept(p)
<1>1. Calls /\ proc[p].pc \in Erasing /\ "reset" \notin Opening /\ proc[p].pc \notin Inside
  BY PcSets DEF Installed, Shapes, Rewrite
<1>2. Calm
  BY EraserIsCalm DEF EraserStep
<1>3. CASE UNCHANGED proc
  <2>1. Settled(p)'
    BY <1>2, <1>3 DEF Fences, Settled, Calm, Aim, Ledger, Installed, Shapes, Calls
  <2> QED
    BY <1>2, <1>3, <2>1 DEF Kept
<1>4. CASE Goto(p, "reset")
  BY <1>1, <1>2, <1>4, GotoEffect, MoveKept
<1>5. CASE OkTo(p, "reset", FALSE)
  BY <1>1, <1>2, <1>5, OkEffect, MoveKept
<1> QED
  BY <1>3, <1>4, <1>5 DEF Rewrite, OkTo

LEMMA LadderKept ==
  ASSUME Installed, Locks', Fences, NEW p \in Procs, LadderStep(p)
  PROVE  Kept(p)
<1>1. Calm /\ Calls
  BY LadderIsCalm DEF Installed, Shapes
<1>2. proc[p].pc \in Laddering
  BY PcSets DEF LadderStep, Lift, ResolveKey, ConfirmAbsent, StartLine, EndLine, Create, Answer,
     ReadBack, Credential, WiredApp, ReadBinding, List, Recognise, Search, Keyed, Register,
     Verify, Health, Vanished, Accept
<1>3. CASE Plain(p)
  BY <1>1, <1>2, <1>3, PlainKept
<1>4. CASE StartLine(p)
  BY <1>4, StartLineKept
<1>5. CASE EndLine(p)
  <2>1. Returned(p) \/ Went(p, "app") \/ Went(p, "create")
    BY <1>1, <1>5, GotoEffect, StopEffect DEF EndLine, NotCreated
  <2> QED
    BY <1>1, <1>2, <2>1, MoveKept, PcSets
<1>6. CASE Create(p)
  <2>1. Went(p, "waiting")
    BY <1>1, <1>6, GotoEffect DEF Create
  <2> QED
    BY <1>1, <1>2, <2>1, MoveKept, PcSets
<1> QED
  BY <1>3, <1>4, <1>5, <1>6, LiftIsPlain, ResolveKeyIsPlain, ConfirmAbsentIsPlain, AnswerIsPlain,
     ReadBackIsPlain, CredentialIsPlain, WiredAppIsPlain, ReadBindingIsPlain, ListIsPlain,
     RecogniseIsPlain, SearchIsPlain, KeyedIsPlain, RegisterIsPlain, VerifyIsPlain,
     HealthIsPlain, VanishedIsPlain, AcceptIsPlain DEF LadderStep

LEMMA EraserKept ==
  ASSUME Installed, Locks', Fences, NEW p \in Procs, EraserStep(p)
  PROVE  Kept(p)
<1>1. Calm
  BY EraserIsCalm
<1>2. proc[p].pc \in Erasing
  BY PcSets DEF EraserStep, EraseCopies, Withdraw, EraseExports, Sweep, Rewrite, Reset, Residue,
     Reclaim
<1>3. CASE Plain(p)
  BY <1>1, <1>2, <1>3, PlainKept
<1> QED
  BY <1>3, SweepKept, RewriteKept, EraseCopiesIsPlain, WithdrawIsPlain, EraseExportsIsPlain,
     ResetIsPlain, ResidueIsPlain, ReclaimIsPlain DEF EraserStep

-----------------------------------------------------------------------------
(* Opening.                                                                *)

LEMMA RefuseKept ==
  ASSUME Installed, Fences, Calm, NEW p \in Procs, NEW why, Refuse(p, why)
  PROVE  Kept(p)
BY RefuseRests, RestKept DEF Installed, Shapes

LEMMA OnwardKept ==
  ASSUME Installed, Fences, Calm, NEW p \in Procs, NEW pc \in Opening, Goto(p, pc),
         proc[p].pc \in Inside,
         pc = "file" \/ disk'.ledger[proc[p].mode].there
  PROVE  Kept(p)
<1>1. Went(p, pc) /\ proc'[p].next = proc[p].next
  BY GotoEffect DEF Installed, Shapes
<1>2. proc'[p].mode = proc[p].mode /\ \A q \in Procs \ {p} : proc'[q] = proc[q]
  BY <1>1 DEF Went, Alone
<1>3. pc = "file" \/ Ledger(p)'.there
  BY <1>2 DEF Ledger
<1> QED
  BY <1>1, <1>2, <1>3, OpeningSettles DEF Kept

LEMMA ConnectedKept ==
  ASSUME Installed, Fences, Calm, NEW p \in Procs, Connected(p),
         proc[p].pc \in {"mark", "sign"}
  PROVE  Kept(p)
BY ConnectedSettles DEF Kept

\* Past the creation of the file the ledger stays there.
LEMMA StillThere ==
  ASSUME Installed, Fences, Calm, NEW p \in Procs, proc[p].pc \in Opening \ {"file"}
  PROVE  disk'.ledger[proc[p].mode].there
BY DEF Installed, Shapes, Calls, Fences, Settled, Calm, Ledger

LEMMA OpenFileKept ==
  ASSUME Installed, Fences, NEW p \in Procs, OpenFile(p)
  PROVE  Kept(p)
<1> DEFINE c == Ledger(p)
<1> DEFINE l == [c EXCEPT !.there = TRUE]
<1>1. /\ Calls /\ IsDisk(disk) /\ IsLedger(c) /\ l = [c EXCEPT !.there = TRUE]
      /\ proc[p].mode \in Modes /\ proc[p].pc \in Inside
  BY RowsShape, PcSets DEF Installed, Shapes, Calls, OpenFile
<1>2. WriteLedger(p, l)
  BY DEF OpenFile
<1> HIDE DEF l
<1>3. IsLedger(l) /\ l.there = TRUE
  <2> HIDE DEF c
  <2> QED
    BY <1>1 DEF IsLedger
<1>4. Calm
  BY <1>1, <1>2, CalmLedger
<1>5. disk'.ledger[proc[p].mode].there
  BY <1>1, <1>2, <1>3, LedgerEffect
<1>6. \/ \E pc \in {"schema", "mint", "snapshot"} : Goto(p, pc)
      \/ Refuse(p, "newer")
  BY DEF OpenFile
<1> QED
  BY <1>1, <1>4, <1>5, <1>6, OnwardKept, RefuseKept, PcSets

LEMMA SchemaKept ==
  ASSUME Installed, Fences, NEW p \in Procs, Schema(p)
  PROVE  Kept(p)
<1> DEFINE c == Ledger(p)
<1> DEFINE l == SchemaStep(c)
<1>1. /\ Calls /\ IsDisk(disk) /\ proc[p].pc \in Inside /\ proc[p].pc \in Opening \ {"file"}
  BY PcSets DEF Installed, Shapes, Schema
<1>2. WriteLedger(p, l)
  BY DEF Schema
<1>3. \/ l = [Ledger(p) EXCEPT !.tables = c.tables + 1]
      \/ l = [Ledger(p) EXCEPT !.version = Current]
  BY DEF SchemaStep
<1> HIDE DEF l
<1>4. Calm
  BY <1>1, <1>2, <1>3, CalmLedger
<1>5. \E pc \in {"schema", "mint"} : Goto(p, pc)
  BY DEF Schema
<1> QED
  BY <1>1, <1>4, <1>5, StillThere, OnwardKept, PcSets

LEMMA SnapshotKept ==
  ASSUME Installed, Fences, NEW p \in Procs, Snapshot(p)
  PROVE  Kept(p)
<1>1. /\ IsDisk(disk) /\ proc[p].pc \in Inside /\ proc[p].pc \in Opening \ {"file"}
      /\ "migrate" \in Opening
  BY PcSets DEF Installed, Shapes, Snapshot
<1>2. Calm
  <2>1. UNCHANGED disk \/ disk' = [disk EXCEPT !.snapshots = TRUE]
    BY DEF Snapshot
  <2> QED
    BY <1>1, <2>1, CalmStays, CalmFiles
<1>3. Goto(p, "migrate") \/ Refuse(p, "snapshot failed")
  BY DEF Snapshot
<1> QED
  BY <1>1, <1>2, <1>3, StillThere, OnwardKept, RefuseKept

LEMMA MigrateKept ==
  ASSUME Installed, Fences, NEW p \in Procs, Migrate(p)
  PROVE  Kept(p)
<1>1. /\ Calls /\ IsDisk(disk) /\ proc[p].pc \in Inside
      /\ proc[p].pc \in Opening \ {"file"} /\ "mint" \in Opening
  BY PcSets DEF Installed, Shapes, Migrate
<1>2. Calm
  <2> DEFINE c == Ledger(p)
  <2> DEFINE l == [c EXCEPT !.tables = Tables, !.version = Current]
  <2>1. UNCHANGED disk \/ WriteLedger(p, l)
    BY DEF Migrate
  <2>2. IsLedger(c) /\ l = [c EXCEPT !.tables = Tables, !.version = Current]
    BY <1>1, RowsShape
  <2> HIDE DEF c, l
  <2>3. (l.fence => c.fence) /\ (l.data => c.data) /\ (c.there => l.there)
    BY <2>2 DEF IsLedger
  <2> QED
    BY <1>1, <2>1, <2>3, CalmStays, CalmRows DEF c
<1>3. Goto(p, "mint") \/ \E why : Refuse(p, why)
  BY DEF Migrate
<1> QED
  BY <1>1, <1>2, <1>3, StillThere, OnwardKept, RefuseKept

LEMMA MintKept ==
  ASSUME Installed, Fences, NEW p \in Procs, Mint(p)
  PROVE  Kept(p)
<1>1. /\ Calls /\ IsDisk(disk) /\ proc[p].pc \in Inside
      /\ proc[p].pc \in Opening \ {"file"} /\ "mark" \in Opening
  BY PcSets DEF Installed, Shapes, Mint
<1>2. Calm
  <2> DEFINE instance == issued.instance + 1
  <2> DEFINE l == [Ledger(p) EXCEPT !.instance = instance]
  <2>1. UNCHANGED disk \/ WriteLedger(p, l)
    BY DEF Mint
  <2>2. l = [Ledger(p) EXCEPT !.instance = instance]
    OBVIOUS
  <2> HIDE DEF l, instance
  <2> QED
    BY <1>1, <2>1, <2>2, CalmStays, CalmLedger
<1>3. Goto(p, "mark")
  BY DEF Mint
<1> QED
  BY <1>1, <1>2, <1>3, StillThere, OnwardKept

LEMMA MarkKept ==
  ASSUME Installed, Fences, NEW p \in Procs, Mark(p)
  PROVE  Kept(p)
<1>1. /\ IsDisk(disk) /\ proc[p].pc \in Inside /\ proc[p].pc = "mark"
      /\ proc[p].pc \in Opening \ {"file"} /\ "sign" \in Opening
  BY PcSets DEF Installed, Shapes, Mark
<1>2. Calm
  <2>1. UNCHANGED disk \/ disk' = [disk EXCEPT !.marker = "torn"]
    BY DEF Mark
  <2> QED
    BY <1>1, <2>1, CalmStays, CalmFiles
<1>3. Goto(p, "sign") \/ Connected(p)
  BY DEF Mark
<1> QED
  BY <1>1, <1>2, <1>3, StillThere, OnwardKept, ConnectedKept

LEMMA SignKept ==
  ASSUME Installed, Fences, NEW p \in Procs, Sign(p)
  PROVE  Kept(p)
<1>1. IsDisk(disk) /\ proc[p].pc = "sign"
  BY DEF Installed, Shapes, Sign
<1>2. Calm
  <2>1. UNCHANGED disk \/ disk' = [disk EXCEPT !.marker = proc[p].mode]
    BY DEF Sign
  <2> QED
    BY <1>1, <2>1, CalmStays, CalmFiles
<1>3. Refuse(p, "marker not written") \/ Connected(p)
  BY DEF Sign
<1> QED
  BY <1>1, <1>2, <1>3, RefuseKept, ConnectedKept

LEMMA TakeOpenLockKept ==
  ASSUME Installed, Fences, NEW p \in Procs, TakeOpenLock(p)
  PROVE  Kept(p)
<1>1. Calm /\ proc[p].pc \in Inside /\ "file" \in Opening
  BY CalmStays, PcSets DEF TakeOpenLock
<1>2. Goto(p, "file") \/ Refuse(p, "other world")
  BY DEF TakeOpenLock
<1> QED
  BY <1>1, <1>2, OnwardKept, RefuseKept

-----------------------------------------------------------------------------
(* The dispatcher.                                                         *)

LEMMA TakeLockKept ==
  ASSUME Installed, Fences, NEW p \in Procs, TakeLock(p)
  PROVE  Kept(p)
<1> DEFINE c == proc[p]
<1> DEFINE lock == IF c.tool \in Exclusive THEN "ex" ELSE "sh"
<1> DEFINE r == [c EXCEPT !.lock = lock, !.pc = "mode"]
<1>1. Calls /\ IsCall(c) /\ c.mode \in Modes /\ r = [c EXCEPT !.lock = lock, !.pc = "mode"]
  BY DEF Installed, Shapes, Calls
<1>2. proc' = [proc EXCEPT ![p] = r] /\ Calm
  BY CalmStays DEF TakeLock
<1> HIDE DEF c, r, lock
<1>3. IsCall(r)
  BY <1>1 DEF IsCall
<1>4. r.mode = c.mode /\ r.conn = c.conn /\ r.pc = "mode"
  BY <1>1 DEF IsCall
<1>5. proc'[p] = r /\ \A q \in Procs \ {p} : proc'[q] = proc[q]
  BY <1>1, <1>2, <1>3, <1>4, UpdateShape
<1>6. Settled(p)'
  BY <1>1, <1>2, <1>4, <1>5, PcSets DEF Fences, Settled, Calm, Aim, Ledger, c
<1> QED
  BY <1>2, <1>5, <1>6 DEF Kept

LEMMA CheckModeKept ==
  ASSUME Installed, Fences, NEW p \in Procs, CheckMode(p)
  PROVE  Kept(p)
<1>1. Calm /\ Calls /\ proc[p].mode \in Modes
  BY CalmStays DEF CheckMode, Installed, Shapes, Calls
<1>2. CASE \E why : Return(p, why)
  BY <1>1, <1>2, ReturnEffect, ReturnRests, RestKept
<1>3. CASE Goto(p, "fence")
  <2>1. Went(p, "fence")
    BY <1>1, <1>3, GotoEffect
  <2>2. /\ \A q \in Procs \ {p} : proc'[q] = proc[q]
        /\ proc'[p].pc = "fence" /\ proc'[p].mode = proc[p].mode /\ proc'[p].conn = proc[p].conn
    BY <2>1 DEF Went, Alone
  <2>3. Settled(p)'
    BY <1>1, <2>2, PcSets DEF Fences, Settled, Calm, Aim, Ledger
  <2> QED
    BY <1>1, <2>2, <2>3 DEF Kept
<1> QED
  BY <1>2, <1>3 DEF CheckMode

\* The one place where the fence is read: under the lock that keeps the erasers
\* out until the call returns.
LEMMA CheckFenceKept ==
  ASSUME Installed, Fences, NEW p \in Procs, CheckFence(p)
  PROVE  Kept(p)
<1>1. Calm /\ Calls /\ proc[p].mode \in Modes /\ UNCHANGED disk
  BY CalmStays DEF CheckFence, Installed, Shapes, Calls
<1> DEFINE tool == proc[p].tool
<1> DEFINE body == Body(tool)
<1>2. tool \in Tools
  BY PcSets DEF Installed, Locks, Post, CheckFence
<1>3. /\ tool = "setup" => body = "lift"
      /\ tool = "signin" => body = "key"
      /\ tool \in {"write", "daily"} => body = "write"
      /\ tool = "export" => body = "stage"
      /\ tool = "accept" => body = "vanished"
      /\ tool \in Erasers => body = "rows"
  BY DEF Body, Erasers
<1> HIDE DEF body
<1>4. /\ body \notin Opening /\ body \notin Inside
      /\ body \in Filling => tool \in {"write", "daily", "export"}
      /\ tool \in {"setup", "signin"} => body \notin Filling \cup Erasing
  BY <1>2, <1>3, PcSets DEF Tools, Erasers
<1>5. CASE \E why : Return(p, why)
  BY <1>1, <1>5, ReturnEffect, ReturnRests, RestKept
<1>6. CASE tool \in {"setup", "signin"} /\ Goto(p, body)
  <2>1. Went(p, body)
    BY <1>1, <1>6, GotoEffect
  <2>2. /\ \A q \in Procs \ {p} : proc'[q] = proc[q]
        /\ proc'[p].pc = body /\ proc'[p].mode = proc[p].mode /\ proc'[p].conn = proc[p].conn
    BY <2>1 DEF Went, Alone
  <2>3. Settled(p)'
    BY <1>1, <1>4, <1>6, <2>2 DEF Fences, Settled, Calm, Aim, Ledger
  <2> QED
    BY <1>1, <2>2, <2>3 DEF Kept
<1>7. CASE (tool \in FenceExempt \/ ~Ledger(p).fence) /\ Opened(p, body)
  <2>1. \/ proc[p].conn /\ Went(p, body)
        \/ Went(p, "open") /\ proc'[p].next = body
    BY <1>1, <1>7, OpenedEffect
  <2>2. /\ \A q \in Procs \ {p} : proc'[q] = proc[q]
        /\ proc'[p].mode = proc[p].mode /\ proc'[p].conn = proc[p].conn
        /\ proc'[p].pc = "open" \/ (proc[p].conn /\ proc'[p].pc = body)
        /\ Aim(p)' = body
    BY <1>4, <2>1, PcSets DEF Went, Alone, Aim
  <2>3. body \in Filling => ~Ledger(p).fence
    BY <1>4, <1>7 DEF FenceExempt
  <2>4. /\ proc'[p].conn => Ledger(p)'.there
        /\ Ledger(p)'.fence => Ledger(p).fence
    BY <1>1, <2>2 DEF Fences, Settled, Calm, Ledger
  <2>5. proc'[p].pc \notin Opening /\ (proc'[p].pc \in Filling \cup Erasing => proc[p].conn)
    BY <1>4, <2>2, PcSets
  <2>6. Settled(p)'
    BY <2>2, <2>3, <2>4, <2>5 DEF Settled
  <2> QED
    BY <1>1, <2>2, <2>6 DEF Kept
<1>8. \/ \E why : Return(p, why)
      \/ tool \in {"setup", "signin"} /\ Goto(p, body)
      \/ (tool \in FenceExempt \/ ~Ledger(p).fence) /\ Opened(p, body)
  BY DEF CheckFence, body
<1> QED
  BY <1>5, <1>6, <1>7, <1>8

-----------------------------------------------------------------------------
(* The three steps that are not calm.                                      *)

\* A call that fills has the only ledger there is, and that is not fenced.
LEMMA NothingFenced ==
  ASSUME Installed, Fences, NEW p \in Procs, proc[p].pc \in Filling, NEW m \in Modes
  PROVE  ~disk.ledger[m].fence
<1>1. proc[p].mode \in Modes /\ Aim(p) = proc[p].pc
  BY PcSets DEF Installed, Shapes, Calls, Aim
<1>2. proc[p].conn /\ ~disk.ledger[proc[p].mode].fence
  BY <1>1 DEF Fences, Settled, Ledger
<1>3. ~disk.ledger[Other(proc[p].mode)].there
  BY <1>1, <1>2 DEF Installed, World, OneWorld
<1>4. m = proc[p].mode \/ m = Other(proc[p].mode)
  BY <1>1, OtherMode DEF Modes
<1> QED
  BY <1>2, <1>3, <1>4 DEF Fences

LEMMA FillKeeps ==
  ASSUME Installed, Fences, NEW p \in Procs, proc[p].pc \in Filling, Returned(p),
         \A m \in Modes : /\ disk'.ledger[m].fence = disk.ledger[m].fence
                         /\ disk'.ledger[m].there = disk.ledger[m].there
  PROVE  Fences' /\ Unfilled
<1>1. \A m \in Modes : ~disk.ledger[m].fence /\ ~disk'.ledger[m].fence
  BY NothingFenced
<1>2. /\ \A q \in Procs \ {p} : proc'[q] = proc[q]
      /\ proc'[p].mode = proc[p].mode /\ proc'[p].conn = proc[p].conn /\ proc'[p].pc = "idle"
  BY DEF Returned, Alone
<1>3. \A q \in Procs : proc[q].mode \in Modes
  BY DEF Installed, Shapes, Calls
<1>4. Settled(p)'
  BY <1>2, <1>3, PcSets DEF Fences, Settled, Aim, Ledger
<1>5. \A q \in Procs \ {p} : Settled(q)'
  BY <1>2, <1>3 DEF Fences, Settled, Aim, Ledger
<1> QED
  BY <1>1, <1>4, <1>5 DEF Fences, Unfilled

LEMMA WriteFills ==
  ASSUME Installed, Fences, NEW p \in Procs, Write(p)
  PROVE  Fences' /\ Unfilled
<1>1. Calls /\ IsDisk(disk) /\ proc[p].pc \in Filling /\ proc[p].mode \in Modes
  BY PcSets DEF Installed, Shapes, Calls, Write
<1>2. Returned(p)
  BY <1>1, ReturnEffect DEF Write
<1> DEFINE c == Ledger(p)
<1> DEFINE l == [c EXCEPT !.data = TRUE]
<1>3. \E x : WriteData(p, l, x)
  BY DEF Write, WriteData
<1>4. IsLedger(c) /\ l = [c EXCEPT !.data = TRUE]
  BY <1>1, RowsShape
<1> HIDE DEF l
<1>5. IsLedger(l) /\ l.fence = c.fence /\ l.there = c.there
  <2> HIDE DEF c
  <2> QED
    BY <1>4 DEF IsLedger
<1>6. /\ disk'.ledger[proc[p].mode] = l
      /\ \A m \in Modes \ {proc[p].mode} : disk'.ledger[m] = disk.ledger[m]
  BY <1>1, <1>3, <1>5, DataEffect
<1> QED
  BY <1>1, <1>2, <1>5, <1>6, FillKeeps DEF Ledger

LEMMA PublishFills ==
  ASSUME Installed, Fences, NEW p \in Procs, Publish(p)
  PROVE  Fences' /\ Unfilled
<1>1. Calls /\ IsDisk(disk) /\ proc[p].pc \in Filling
  BY PcSets DEF Installed, Shapes, Publish
<1>2. Returned(p)
  BY <1>1, ReturnEffect DEF Publish
<1>3. \/ disk' = [disk EXCEPT !.staging = FALSE, !.published = TRUE]
      \/ disk' = [disk EXCEPT !.staging = FALSE]
  BY DEF Publish
<1>4. disk'.ledger = disk.ledger
  BY <1>1, <1>3 DEF IsDisk
<1> QED
  BY <1>1, <1>2, <1>4, FillKeeps

\* The fence is set with the rows gone, on a ledger that is there, while nobody
\* else is past the lock.
LEMMA EraseRowsFences ==
  ASSUME Installed, Fences, NEW p \in Procs, EraseRows(p)
  PROVE  Fences' /\ Unfilled
<1>1. /\ Calls /\ IsDisk(disk) /\ proc[p].pc \in Erasing /\ proc[p].mode \in Modes
      /\ \A q \in Procs \ {p} : proc[q].pc \in Asleep
  BY EraserAlone, PcSets DEF Installed, Shapes, Calls, EraseRows
<1>2. CASE UNCHANGED disk
  <2>1. Plain(p)
    BY EraseRowsIsPlain
  <2>2. Kept(p)
    BY <1>1, <1>2, <2>1, CalmStays, PlainKept
  <2> QED
    BY <2>2, CalmKeeps DEF Kept
<1>3. CASE WriteLedger(p, Emptied(p)) /\ Goto(p, "copies")
  <2> DEFINE c == Ledger(p)
  <2> DEFINE l == Emptied(p)
  <2> DEFINE instance == issued.instance + 1
  <2>1. /\ IsLedger(c)
        /\ \/ l = [c EXCEPT !.data = FALSE, !.fence = FALSE, !.accepted = 0,
                            !.instance = instance]
           \/ l = [c EXCEPT !.data = FALSE, !.fence = TRUE, !.instance = instance]
    BY <1>1, RowsShape DEF Emptied
  <2> HIDE DEF l, instance
  <2>2. IsLedger(l) /\ l.data = FALSE /\ l.there = c.there
    <3> HIDE DEF c
    <3>1. CASE l = [c EXCEPT !.data = FALSE, !.fence = TRUE, !.instance = instance]
      BY <2>1, <3>1 DEF IsLedger
    <3>2. CASE l = [c EXCEPT !.data = FALSE, !.fence = FALSE, !.accepted = 0,
                             !.instance = instance]
      BY <2>1, <3>2 DEF IsLedger
    <3> QED
      BY <2>1, <3>1, <3>2
  <2>3. WriteLedger(p, l)
    BY <1>3 DEF l
  <2>4. /\ disk'.ledger[proc[p].mode] = l
        /\ \A m \in Modes \ {proc[p].mode} : disk'.ledger[m] = disk.ledger[m]
    BY <1>1, <2>2, <2>3, LedgerEffect
  <2>5. disk'.copies = disk.copies /\ disk'.published = disk.published
    BY <1>1, <2>3 DEF WriteLedger, IsDisk
  <2>6. c.there /\ proc[p].conn
    BY <1>1 DEF Fences, Settled
  <2>7. Went(p, "copies")
    BY <1>1, <1>3, GotoEffect
  <2>8. /\ \A q \in Procs \ {p} : proc'[q] = proc[q]
        /\ proc'[p].mode = proc[p].mode /\ proc'[p].conn = proc[p].conn
        /\ proc'[p].pc = "copies"
    BY <2>7 DEF Went, Alone
  <2>9. \A m \in Modes : /\ disk'.ledger[m].there = disk.ledger[m].there
                         /\ disk'.ledger[m].fence => disk'.ledger[m].there /\ ~disk'.ledger[m].data
    BY <2>2, <2>4, <2>6 DEF Fences, Ledger
  <2>10. Settled(p)'
    BY <1>1, <2>2, <2>4, <2>6, <2>8, PcSets DEF Settled, Aim, Ledger
  <2>11. ASSUME NEW q \in Procs \ {p}
         PROVE  Settled(q)'
    <3>1. proc'[q] = proc[q] /\ proc[q].pc \in Asleep /\ proc[q].mode \in Modes
      BY <1>1, <2>8, <2>11 DEF Calls
    <3> QED
      BY <2>9, <3>1, PcSets DEF Fences, Settled, Aim, Ledger
  <2> QED
    BY <2>5, <2>9, <2>10, <2>11 DEF Fences, Unfilled
<1> QED
  BY <1>2, <1>3 DEF EraseRows

-----------------------------------------------------------------------------
(* All together.                                                           *)

LEMMA KeptKeeps ==
  ASSUME Installed, Fences, NEW p \in Procs, Kept(p)
  PROVE  Fences' /\ Unfilled
BY CalmKeeps DEF Kept

LEMMA StepFences ==
  ASSUME Installed, Locks', Fences, NEW p \in Procs, Step(p)
  PROVE  Fences' /\ Unfilled
<1>1. CASE Kept(p)
  BY <1>1, KeptKeeps
<1>2. CASE \E mode \in Modes : Spawn(p, mode)
  BY <1>1, <1>2, SpawnFalls, FallKept DEF Spawn
<1>3. CASE Crash(p)
  BY <1>1, <1>3, CrashFalls, FallKept DEF Crash
<1>4. CASE \E tool \in sc.tools : Call(p, tool)
  BY <1>1, <1>4, CallFalls, FallKept DEF Call
<1>5. CASE Busy(p)
  BY <1>1, <1>5, BusyFalls, FallKept DEF Busy
<1>6. CASE OpenBusy(p)
  <2>1. Rests(p) /\ Calm
    BY <1>6, ReturnEffect, ReturnRests, CalmStays DEF OpenBusy, Installed, Shapes
  <2> QED
    BY <1>1, <2>1, RestKept
<1>7. CASE Stage(p)
  <2>1. Plain(p) /\ proc[p].pc \in Filling /\ IsDisk(disk)
    BY <1>7, StageIsPlain, PcSets DEF Stage, Installed, Shapes
  <2>2. Calm
    BY <1>7, <2>1, CalmFiles DEF Stage
  <2> QED
    BY <1>1, <2>1, <2>2, PlainKept
<1>8. CASE Write(p) \/ Publish(p) \/ EraseRows(p)
  BY <1>8, WriteFills, PublishFills, EraseRowsFences
<1>9. CASE LadderStep(p) \/ EraserStep(p)
  BY <1>1, <1>9, LadderKept, EraserKept
<1>10. CASE TakeLock(p) \/ CheckMode(p) \/ CheckFence(p)
  BY <1>1, <1>10, TakeLockKept, CheckModeKept, CheckFenceKept
<1>11. CASE \/ TakeOpenLock(p) \/ OpenFile(p) \/ Schema(p) \/ Snapshot(p)
            \/ Migrate(p) \/ Mint(p) \/ Mark(p) \/ Sign(p)
  BY <1>1, <1>11, TakeOpenLockKept, OpenFileKept, SchemaKept, SnapshotKept, MigrateKept,
     MintKept, MarkKept, SignKept
<1> QED
  BY <1>2, <1>3, <1>4, <1>5, <1>6, <1>7, <1>8, <1>9, <1>10, <1>11
     DEF Step, LadderStep, EraserStep

LEMMA StillFences ==
  ASSUME Installed, Fences, UNCHANGED <<disk, proc>>
  PROVE  Fences' /\ Unfilled
BY DEF Fences, Settled, Aim, Ledger, Unfilled

LEMMA NextFences ==
  ASSUME Installed, Fences, [Next]_vars
  PROVE  Fences' /\ Unfilled
<1>1. Locks'
  BY NextKeeps DEF Installed
<1>2. CASE \E p \in sc.procs : Step(p)
  <2>1. sc.procs \subseteq Procs
    BY InstallAssumption DEF Installed, Shapes
  <2> QED
    BY <1>1, <1>2, <2>1, StepFences
<1>3. CASE \E kid \in kids : ChildEnds(kid)
  BY <1>3, StillFences DEF ChildEnds
<1>4. CASE \E a \in panel : Flap(a) \/ Drift(a)
  BY <1>4, StillFences DEF Flap, Drift
<1>5. CASE ClearMarker
  <2>1. /\ disk'.ledger = disk.ledger /\ disk'.copies = disk.copies
        /\ disk'.published = disk.published /\ proc' = proc
    BY <1>5 DEF ClearMarker, Installed, Shapes, IsDisk
  <2> QED
    BY <2>1 DEF Fences, Settled, Aim, Ledger, Unfilled
<1>6. CASE UNCHANGED vars
  BY <1>6, StillFences DEF vars
<1> QED
  BY <1>2, <1>3, <1>4, <1>5, <1>6 DEF Next

LEMMA NoFenceYet ==
  ASSUME NEW kind, NEW m \in Modes
  PROVE  Begun(kind).ledger[m].fence = FALSE
<1>1. IsLedger(NoLedger) /\ NoLedger.fence = FALSE
  BY DEF IsLedger, NoLedger
<1>2. IsLedger(Standing) /\ Standing.fence = FALSE
  <2> DEFINE l == NoLedger
  <2>1. IsLedger(l) /\ l.fence = FALSE
        /\ Standing = [l EXCEPT !.there = TRUE, !.tables = Tables, !.version = Current,
                                !.instance = 1, !.data = TRUE]
    BY <1>1 DEF Standing
  <2> HIDE DEF l
  <2> QED
    BY <2>1 DEF IsLedger
<1> DEFINE base == Standing
<1> DEFINE live == [base EXCEPT !.consents = TRUE, !.app = 1]
<1> DEFINE old == [base EXCEPT !.tables = 2, !.version = 1]
<1> DEFINE newer == [base EXCEPT !.version = Current + 1]
<1>3. live = [base EXCEPT !.consents = TRUE, !.app = 1]
  OBVIOUS
<1>4. old = [base EXCEPT !.tables = 2, !.version = 1]
  OBVIOUS
<1>5. newer = [base EXCEPT !.version = Current + 1]
  OBVIOUS
<1>6. IsLedger(base) /\ base.fence = FALSE
  BY <1>2
<1>7. \E marker, record, files :
        \/ Begun(kind) = Disk(OnProduction(live), marker, record, files)
        \/ Begun(kind) = Disk(OnProduction(old), marker, record, files)
        \/ Begun(kind) = Disk(OnProduction(newer), marker, record, files)
        \/ Begun(kind) = Disk(OnProduction(NoLedger), marker, record, files)
  BY Zenon DEF Begun
<1> HIDE DEF base, live, old, newer
<1>8. live.fence = FALSE /\ old.fence = FALSE /\ newer.fence = FALSE
  BY <1>3, <1>4, <1>5, <1>6 DEF IsLedger
<1>9. PICK l, marker, record, files :
        l.fence = FALSE /\ Begun(kind) = Disk(OnProduction(l), marker, record, files)
  BY <1>1, <1>7, <1>8
<1>10. Begun(kind).ledger = OnProduction(l)
  BY <1>9 DEF Disk
<1> QED
  BY <1>1, <1>9, <1>10 DEF OnProduction

LEMMA InitFences ==
  ASSUME Init
  PROVE  Fences
<1>1. disk = Begun(sc.begun) /\ \A p \in Procs : proc[p] = Down
  BY DEF Init
<1>2. \A m \in Modes : ~disk.ledger[m].fence
  BY <1>1, NoFenceYet
<1>3. \A p \in Procs : Settled(p)
  BY <1>1, DownShape, PcSets DEF Settled, Aim
<1> QED
  BY <1>2, <1>3 DEF Fences

\* From the erasure that keeps the sign-ins until setup lifts the fence, no call
\* that was waiting or running brings bank data back: no rows, no copies, no
\* exports (bank_feed_server._fenced).
THEOREM NothingRefillsEver == Spec => NothingRefills
<1>1. Init => Installed /\ Fences
  BY InitInstalled, InitFences
<1>2. (Installed /\ Fences) /\ [Next]_vars => (Installed /\ Fences)'
  BY NextKeeps, NextFences
<1>3. (Installed /\ Fences) /\ [Next]_vars =>
        [\A m \in Modes : disk'.ledger[m].fence =>
           /\ ~disk'.ledger[m].data
           /\ disk.ledger[m].fence =>
                /\ disk'.copies => disk.copies
                /\ disk'.published => disk.published]_vars
  BY NextFences DEF Unfilled
<1> QED
  BY <1>1, <1>2, <1>3, PTL DEF Spec, NothingRefills

-----------------------------------------------------------------------------
(* What a step leaves of the call that takes it, field by field.           *)

Fields == {"pc", "next", "tool", "mode", "conn", "lock", "envkey", "envapp", "source", "key",
           "item", "nonce", "rec", "seen", "kept", "ok", "why"}

\* Of the calls only p's changes, and that in these fields only.
Moves(p, changed) ==
  /\ \A f \in Fields \ changed : proc'[p][f] = proc[p][f]
  /\ \A q \in Procs \ {p} : proc'[q] = proc[q]

\* The call is over, or its server is.
Leaves(p) ==
  /\ proc'[p].pc \in {"down", "idle"} /\ proc'[p].lock = "none"
  /\ proc'[p].source = "" /\ proc'[p].seen = {}
  /\ \A q \in Procs \ {p} : proc'[q] = proc[q]

LEMMA CallFields == \A c : IsCall(c) => DOMAIN c = Fields /\ c = [f \in DOMAIN c |-> c[f]]
BY DEF IsCall, Fields

LEMMA GotoMoves ==
  ASSUME Calls, NEW p \in Procs, NEW pc, Goto(p, pc)
  PROVE  Moves(p, {"pc"}) /\ proc'[p].pc = pc
<1> DEFINE c == proc[p]
<1>1. DOMAIN c = Fields
  BY CallFields DEF Calls
<1>2. proc'[p] = [c EXCEPT !.pc = pc] /\ \A q \in Procs \ {p} : proc'[q] = proc[q]
  BY DEF Goto, Calls
<1> HIDE DEF c
<1> QED
  BY <1>1, <1>2 DEF Moves, Fields, c

LEMMA OpenedMoves ==
  ASSUME Calls, NEW p \in Procs, NEW next, Opened(p, next)
  PROVE  /\ Moves(p, {"pc", "next"})
         /\ \/ proc[p].conn /\ proc'[p].pc = next
            \/ proc'[p].pc = "open" /\ proc'[p].next = next
<1> DEFINE c == proc[p]
<1>1. DOMAIN c = Fields
  BY CallFields DEF Calls
<1>2. CASE proc[p].conn
  <2>1. Goto(p, next)
    BY <1>2 DEF Opened
  <2> QED
    BY <1>2, <2>1, GotoMoves DEF Moves, Fields
<1>3. CASE ~proc[p].conn
  <2>1. /\ proc'[p] = [c EXCEPT !.pc = "open", !.next = next]
        /\ \A q \in Procs \ {p} : proc'[q] = proc[q]
    BY <1>3 DEF Opened, Calls
  <2> HIDE DEF c
  <2> QED
    BY <1>1, <2>1 DEF Moves, Fields, c
<1> QED
  BY <1>2, <1>3

LEMMA ResolvedMoves ==
  ASSUME Calls, NEW p \in Procs, NEW source, NEW key, Resolved(p, source, key)
  PROVE  /\ Moves(p, {"pc", "next", "source", "key"})
         /\ proc'[p].source = source /\ proc'[p].key = key
         /\ \/ proc[p].conn /\ proc'[p].pc = "cred"
            \/ proc'[p].pc = "open" /\ proc'[p].next = "cred"
<1> DEFINE c == proc[p]
<1>1. DOMAIN c = Fields
  BY CallFields DEF Calls
<1>2. PICK pc, next :
        /\ (c.conn /\ pc = "cred") \/ (pc = "open" /\ next = "cred")
        /\ proc' = [proc EXCEPT ![p].source = source, ![p].key = key, ![p].pc = pc,
                               ![p].next = next]
  BY DEF Resolved
<1>3. /\ proc'[p] = [c EXCEPT !.source = source, !.key = key, !.pc = pc, !.next = next]
      /\ \A q \in Procs \ {p} : proc'[q] = proc[q]
  BY <1>2 DEF Calls
<1> HIDE DEF c
<1>4. /\ \A f \in Fields \ {"pc", "next", "source", "key"} : proc'[p][f] = c[f]
      /\ proc'[p].source = source /\ proc'[p].key = key
  BY <1>1, <1>3 DEF Fields
<1>5. proc'[p].pc = pc /\ proc'[p].next = next
  BY <1>1, <1>3 DEF Fields
<1> QED
  BY <1>2, <1>3, <1>4, <1>5 DEF Moves, c

LEMMA TowardsMoves ==
  ASSUME Calls, NEW p \in Procs, NEW item, Towards(p, item)
  PROVE  Moves(p, {"pc", "item"}) /\ proc'[p].pc = "record" /\ proc'[p].item = item
<1> DEFINE c == proc[p]
<1>1. DOMAIN c = Fields
  BY CallFields DEF Calls
<1>2. /\ proc'[p] = [c EXCEPT !.pc = "record", !.item = item]
      /\ \A q \in Procs \ {p} : proc'[q] = proc[q]
  BY DEF Towards, Calls
<1> HIDE DEF c
<1> QED
  BY <1>1, <1>2 DEF Moves, Fields, c

\* One field beside the place.
LEMMA RecMoves ==
  ASSUME Calls, NEW p \in Procs, NEW pc, NEW x, RecTo(p, pc, x)
  PROVE  Moves(p, {"pc", "rec"}) /\ proc'[p].pc = pc /\ proc'[p].rec = x
<1> DEFINE c == proc[p]
<1>1. DOMAIN c = Fields
  BY CallFields DEF Calls
<1>2. /\ proc'[p] = [c EXCEPT !.pc = pc, !.rec = x]
      /\ \A q \in Procs \ {p} : proc'[q] = proc[q]
  BY DEF RecTo, Calls
<1> HIDE DEF c
<1>3. \A f \in Fields \ {"pc", "rec"} : proc'[p][f] = c[f]
  BY <1>1, <1>2 DEF Fields
<1>4. proc'[p].pc = pc /\ proc'[p].rec = x
  BY <1>1, <1>2 DEF Fields
<1> QED
  BY <1>2, <1>3, <1>4 DEF Moves, c

LEMMA SeenMoves ==
  ASSUME Calls, NEW p \in Procs, NEW pc, NEW x, SeenTo(p, pc, x)
  PROVE  Moves(p, {"pc", "seen"}) /\ proc'[p].pc = pc /\ proc'[p].seen = x
<1> DEFINE c == proc[p]
<1>1. DOMAIN c = Fields
  BY CallFields DEF Calls
<1>2. /\ proc'[p] = [c EXCEPT !.seen = x, !.pc = pc]
      /\ \A q \in Procs \ {p} : proc'[q] = proc[q]
  BY DEF SeenTo, Calls
<1> HIDE DEF c
<1>3. \A f \in Fields \ {"pc", "seen"} : proc'[p][f] = c[f]
  BY <1>1, <1>2 DEF Fields
<1>4. proc'[p].pc = pc /\ proc'[p].seen = x
  BY <1>1, <1>2 DEF Fields
<1> QED
  BY <1>2, <1>3, <1>4 DEF Moves, c

LEMMA OkMoves ==
  ASSUME Calls, NEW p \in Procs, NEW pc, NEW x, OkTo(p, pc, x)
  PROVE  Moves(p, {"pc", "ok"}) /\ proc'[p].pc = pc /\ proc'[p].ok = x
<1> DEFINE c == proc[p]
<1>1. DOMAIN c = Fields
  BY CallFields DEF Calls
<1>2. /\ proc'[p] = [c EXCEPT !.pc = pc, !.ok = x]
      /\ \A q \in Procs \ {p} : proc'[q] = proc[q]
  BY DEF OkTo, Calls
<1> HIDE DEF c
<1>3. \A f \in Fields \ {"pc", "ok"} : proc'[p][f] = c[f]
  BY <1>1, <1>2 DEF Fields
<1>4. proc'[p].pc = pc /\ proc'[p].ok = x
  BY <1>1, <1>2 DEF Fields
<1> QED
  BY <1>2, <1>3, <1>4 DEF Moves, c

NonceTo(p, pc, x) == proc' = [proc EXCEPT ![p].pc = pc, ![p].nonce = x]

LEMMA NonceMoves ==
  ASSUME Calls, NEW p \in Procs, NEW pc, NEW x, NonceTo(p, pc, x)
  PROVE  Moves(p, {"pc", "nonce"}) /\ proc'[p].pc = pc /\ proc'[p].nonce = x
<1> DEFINE c == proc[p]
<1>1. DOMAIN c = Fields
  BY CallFields DEF Calls
<1>2. /\ proc'[p] = [c EXCEPT !.pc = pc, !.nonce = x]
      /\ \A q \in Procs \ {p} : proc'[q] = proc[q]
  BY DEF NonceTo, Calls
<1> HIDE DEF c
<1>3. \A f \in Fields \ {"pc", "nonce"} : proc'[p][f] = c[f]
  BY <1>1, <1>2 DEF Fields
<1>4. proc'[p].pc = pc /\ proc'[p].nonce = x
  BY <1>1, <1>2 DEF Fields
<1> QED
  BY <1>2, <1>3, <1>4 DEF Moves, c

LockTo(p, pc, x) == proc' = [proc EXCEPT ![p].lock = x, ![p].pc = pc]

LEMMA LockMoves ==
  ASSUME Calls, NEW p \in Procs, NEW pc, NEW x, LockTo(p, pc, x)
  PROVE  Moves(p, {"pc", "lock"}) /\ proc'[p].pc = pc /\ proc'[p].lock = x
<1> DEFINE c == proc[p]
<1>1. DOMAIN c = Fields
  BY CallFields DEF Calls
<1>2. /\ proc'[p] = [c EXCEPT !.lock = x, !.pc = pc]
      /\ \A q \in Procs \ {p} : proc'[q] = proc[q]
  BY DEF LockTo, Calls
<1> HIDE DEF c
<1>3. \A f \in Fields \ {"pc", "lock"} : proc'[p][f] = c[f]
  BY <1>1, <1>2 DEF Fields
<1>4. proc'[p].pc = pc /\ proc'[p].lock = x
  BY <1>1, <1>2 DEF Fields
<1> QED
  BY <1>2, <1>3, <1>4 DEF Moves, c

LEMMA ConnectedMoves ==
  ASSUME Calls, NEW p \in Procs, Connected(p)
  PROVE  /\ Moves(p, {"pc", "next", "conn"})
         /\ proc'[p].pc = proc[p].next /\ proc'[p].conn
<1> DEFINE c == proc[p]
<1>1. DOMAIN c = Fields
  BY CallFields DEF Calls
<1>2. /\ proc'[p] = [c EXCEPT !.conn = TRUE, !.pc = c.next, !.next = ""]
      /\ \A q \in Procs \ {p} : proc'[q] = proc[q]
  BY DEF Connected, Calls
<1> HIDE DEF c
<1>3. \A f \in Fields \ {"pc", "next", "conn"} : proc'[p][f] = c[f]
  BY <1>1, <1>2 DEF Fields
<1>4. proc'[p].pc = c.next /\ proc'[p].conn
  BY <1>1, <1>2 DEF Fields
<1> QED
  BY <1>2, <1>3, <1>4 DEF Moves, c

SweptTo(p, pc, kept, ok) ==
  proc' = [proc EXCEPT ![p].kept = kept, ![p].pc = pc, ![p].ok = ok]

LEMMA SweptMoves ==
  ASSUME Calls, NEW p \in Procs, NEW pc, NEW kept, NEW ok, SweptTo(p, pc, kept, ok)
  PROVE  /\ Moves(p, {"pc", "kept", "ok"}) /\ proc'[p].pc = pc
         /\ proc'[p].kept = kept /\ proc'[p].ok = ok
<1> DEFINE c == proc[p]
<1>1. DOMAIN c = Fields
  BY CallFields DEF Calls
<1>2. /\ proc'[p] = [c EXCEPT !.kept = kept, !.pc = pc, !.ok = ok]
      /\ \A q \in Procs \ {p} : proc'[q] = proc[q]
  BY DEF SweptTo, Calls
<1> HIDE DEF c
<1>3. \A f \in Fields \ {"pc", "kept", "ok"} : proc'[p][f] = c[f]
  BY <1>1, <1>2 DEF Fields
<1>4. proc'[p].pc = pc /\ proc'[p].kept = kept /\ proc'[p].ok = ok
  BY <1>1, <1>2 DEF Fields
<1> QED
  BY <1>2, <1>3, <1>4 DEF Moves, c

LEMMA CallMoves ==
  ASSUME Calls, NEW p \in Procs, NEW tool, Call(p, tool)
  PROVE  /\ Moves(p, {"pc", "tool", "why"}) /\ proc'[p].pc = "lock"
         /\ proc'[p].tool = tool /\ proc'[p].why = ""
<1> DEFINE c == proc[p]
<1>1. DOMAIN c = Fields
  BY CallFields DEF Calls
<1>2. /\ proc'[p] = [c EXCEPT !.pc = "lock", !.tool = tool, !.why = ""]
      /\ \A q \in Procs \ {p} : proc'[q] = proc[q]
  BY DEF Call, Calls
<1> HIDE DEF c
<1>3. \A f \in Fields \ {"pc", "tool", "why"} : proc'[p][f] = c[f]
  BY <1>1, <1>2 DEF Fields
<1>4. proc'[p].pc = "lock" /\ proc'[p].tool = tool /\ proc'[p].why = ""
  BY <1>1, <1>2 DEF Fields
<1> QED
  BY <1>2, <1>3, <1>4 DEF Moves, c

\* A call that returns keeps nothing but its connection and environment.
LEMMA DownFields ==
  /\ Down.pc = "down" /\ Down.lock = "none" /\ Down.source = "" /\ Down.seen = {}
  /\ Down.envapp = 0 /\ Down.rec = 0 /\ Down.nonce = 0 /\ Down.item = "" /\ Down.why = ""
BY DEF Down

LEMMA ReturnLeaves ==
  ASSUME Calls, NEW p \in Procs, NEW why, Return(p, why)
  PROVE  /\ Leaves(p) /\ proc'[p].pc = "idle" /\ proc'[p].why = why
         /\ proc'[p].rec = 0 /\ proc'[p].nonce = 0 /\ proc'[p].item = ""
         /\ proc'[p].envapp = proc[p].envapp
<1> DEFINE c == proc[p]
<1>1. DOMAIN Down = Fields
  BY CallFields, DownShape
<1>2. /\ proc'[p] = [Down EXCEPT !.pc = "idle", !.mode = c.mode, !.conn = c.conn,
                      !.envkey = c.envkey, !.envapp = c.envapp, !.tool = c.tool, !.why = why]
      /\ \A q \in Procs \ {p} : proc'[q] = proc[q]
  BY DEF Return, Ended, Calls
<1> HIDE DEF c
<1>3. /\ proc'[p].pc = "idle" /\ proc'[p].lock = "none" /\ proc'[p].source = ""
      /\ proc'[p].seen = {} /\ proc'[p].why = why /\ proc'[p].rec = 0 /\ proc'[p].nonce = 0
      /\ proc'[p].item = "" /\ proc'[p].envapp = c.envapp
  BY <1>1, <1>2, DownFields DEF Fields
<1> QED
  BY <1>2, <1>3 DEF Leaves, c

LEMMA StopLeaves ==
  ASSUME Calls, NEW p \in Procs, Stop(p)
  PROVE  Leaves(p) /\ proc'[p].why = "stopped"
BY ReturnLeaves DEF Stop

LEMMA CrashLeaves ==
  ASSUME Calls, NEW p \in Procs, Crash(p)
  PROVE  Leaves(p) /\ proc'[p] = Down
<1>1. proc'[p] = Down /\ \A q \in Procs \ {p} : proc'[q] = proc[q]
  BY DEF Crash, Calls
<1> QED
  BY <1>1, DownFields DEF Leaves

LEMMA SpawnLeaves ==
  ASSUME Calls, NEW p \in Procs, NEW mode, Spawn(p, mode)
  PROVE  /\ Leaves(p) /\ proc'[p].pc = "idle" /\ proc'[p].why = ""
         /\ proc'[p].rec = 0 /\ proc'[p].nonce = 0 /\ proc'[p].item = ""
         /\ proc'[p].envapp \in {0, disk.ledger[mode].app}
<1>1. DOMAIN Down = Fields
  BY CallFields, DownShape
<1>2. PICK key, app :
        /\ proc' = [proc EXCEPT ![p] = [Down EXCEPT !.pc = "idle", !.mode = mode,
                                                   !.envkey = key, !.envapp = app]]
        /\ app \in {0, disk.ledger[mode].app}
  BY DEF Spawn
<1> DEFINE c == Down
<1> DEFINE r == [c EXCEPT !.pc = "idle", !.mode = mode, !.envkey = key, !.envapp = app]
<1>3. r = [c EXCEPT !.pc = "idle", !.mode = mode, !.envkey = key, !.envapp = app]
  OBVIOUS
<1>4. proc'[p] = r /\ \A q \in Procs \ {p} : proc'[q] = proc[q]
  BY <1>2 DEF Calls
<1> HIDE DEF c, r
<1>5. /\ r.pc = "idle" /\ r.lock = "none" /\ r.source = "" /\ r.seen = {} /\ r.why = ""
      /\ r.rec = 0 /\ r.nonce = 0 /\ r.item = "" /\ r.envapp = app
  BY <1>1, <1>3, DownFields DEF Fields, c
<1> QED
  BY <1>2, <1>4, <1>5 DEF Leaves

\* What a call may change of itself while it works.
Works == {"pc", "next", "conn", "source", "key", "item", "nonce", "rec", "seen", "kept", "ok"}

LEMMA MovesWork ==
  ASSUME NEW p, NEW changed \in SUBSET Works, Moves(p, changed)
  PROVE  Moves(p, Works)
BY DEF Moves

LEMMA WorkSets ==
  /\ {"pc"} \in SUBSET Works /\ {"pc", "next"} \in SUBSET Works
  /\ {"pc", "next", "source", "key"} \in SUBSET Works /\ {"pc", "item"} \in SUBSET Works
  /\ {"pc", "rec"} \in SUBSET Works /\ {"pc", "seen"} \in SUBSET Works
  /\ {"pc", "ok"} \in SUBSET Works /\ {"pc", "nonce"} \in SUBSET Works
  /\ {"pc", "next", "conn"} \in SUBSET Works /\ {"pc", "kept", "ok"} \in SUBSET Works
BY DEF Works

LEMMA GotoWorks ==
  ASSUME Calls, NEW p \in Procs,
         \/ \E pc : Goto(p, pc) \/ Opened(p, pc) \/ Towards(p, pc)
         \/ \E x, y : Resolved(p, x, y) \/ RecTo(p, x, y) \/ SeenTo(p, x, y) \/ OkTo(p, x, y)
                      \/ NonceTo(p, x, y)
         \/ \E x, y, z : SweptTo(p, x, y, z)
         \/ Connected(p)
  PROVE  Moves(p, Works)
<1>1. \/ Moves(p, {"pc"}) \/ Moves(p, {"pc", "next"}) \/ Moves(p, {"pc", "item"})
      \/ Moves(p, {"pc", "next", "source", "key"})
      \/ Moves(p, {"pc", "rec"}) \/ Moves(p, {"pc", "seen"}) \/ Moves(p, {"pc", "ok"})
      \/ Moves(p, {"pc", "nonce"})
      \/ Moves(p, {"pc", "next", "conn"}) \/ Moves(p, {"pc", "kept", "ok"})
  BY GotoMoves, OpenedMoves, TowardsMoves, ResolvedMoves, RecMoves, SeenMoves, OkMoves,
     NonceMoves, SweptMoves, ConnectedMoves
<1> QED
  BY <1>1, WorkSets, MovesWork

\* Past the dispatcher's lock a call works, or it is over.
Worked(p) == proc[p].pc \notin Asleep /\ (Leaves(p) \/ Moves(p, Works))

LEMMA LadderWorks ==
  ASSUME Calls, NEW p \in Procs, LadderStep(p)
  PROVE  Worked(p)
<1>1. CASE Lift(p) \/ ResolveKey(p) \/ ConfirmAbsent(p) \/ Answer(p) \/ ReadBack(p)
  BY <1>1, PcSets, StopLeaves, GotoWorks
     DEF Worked, Lift, ResolveKey, ConfirmAbsent, NotCreated, Answer, ReadBack
<1>2. CASE StartLine(p)
  <2>1. NonceTo(p, "line", issued.nonce + 1)
    BY <1>2 DEF StartLine, NonceTo
  <2> QED
    BY <1>2, <2>1, PcSets, GotoWorks DEF Worked, StartLine
<1>3. CASE EndLine(p) \/ Create(p) \/ Credential(p)
  BY <1>3, PcSets, StopLeaves, GotoWorks DEF Worked, EndLine, NotCreated, Create, Credential
<1>4. CASE WiredApp(p) \/ Recognise(p) \/ Search(p) \/ Keyed(p) \/ Verify(p)
  BY <1>4, PcSets, StopLeaves, GotoWorks
     DEF Worked, WiredApp, Recognise, Search, Keyed, Mismatch, Verify
<1>5. CASE ReadBinding(p)
  <2>1. \E x : RecTo(p, "list", x)
    BY <1>5 DEF ReadBinding, RecTo
  <2> QED
    BY <1>5, <2>1, PcSets, GotoWorks DEF Worked, ReadBinding
<1>6. CASE List(p)
  <2>1. (\E x : SeenTo(p, "bind", x)) \/ Stop(p)
    BY <1>6 DEF List, SeenTo
  <2> QED
    BY <1>6, <2>1, PcSets, StopLeaves, GotoWorks DEF Worked, List
<1>7. CASE Register(p)
  <2>1. (\E x : RecTo(p, "verify", x)) \/ Stop(p)
    BY <1>7 DEF Register, RecTo
  <2> QED
    BY <1>7, <2>1, PcSets, StopLeaves, GotoWorks DEF Worked, Register
<1>8. CASE Vanished(p)
  <2>1. (\E x : RecTo(p, "accept", x)) \/ Stop(p)
    BY <1>8 DEF Vanished, RecTo
  <2> QED
    BY <1>8, <2>1, PcSets, StopLeaves, GotoWorks DEF Worked, Vanished
<1>9. CASE Health(p) \/ Accept(p)
  BY <1>9, PcSets, ReturnLeaves DEF Worked, Health, Accept
<1> QED
  BY <1>1, <1>2, <1>3, <1>4, <1>5, <1>6, <1>7, <1>8, <1>9 DEF LadderStep

LEMMA EraserWorks ==
  ASSUME Calls, NEW p \in Procs, EraserStep(p) \/ EraseRows(p)
  PROVE  Worked(p)
<1>1. CASE EraseRows(p)
  BY <1>1, PcSets, StopLeaves, GotoWorks DEF Worked, EraseRows
<1>2. ASSUME NEW done, NEW next, Attempt(p, done, next)
      PROVE  Moves(p, Works)
  <2>1. Goto(p, next) \/ OkTo(p, next, FALSE)
    BY <1>2 DEF Attempt, OkTo
  <2> QED
    BY <2>1, GotoWorks
<1>3. CASE EraseCopies(p) \/ EraseExports(p) \/ Reset(p)
  BY <1>2, <1>3, PcSets DEF Worked, EraseCopies, EraseExports, Reset
<1>4. CASE Withdraw(p)
  <2>1. \E x : Goto(p, x) \/ OkTo(p, x, FALSE)
    BY <1>4 DEF Withdraw, OkTo
  <2> QED
    BY <1>4, <2>1, PcSets, GotoWorks DEF Worked, Withdraw
<1>5. CASE Sweep(p)
  <2>1. \E x, y : SweptTo(p, "rewrite", x, y)
    <3>1. PICK kept, spared \in SUBSET disk.record.lines :
            \E ok : proc' = [proc EXCEPT ![p].kept = kept, ![p].pc = "rewrite", ![p].ok = ok]
      BY <1>5 DEF Sweep
    <3> QED
      BY <3>1 DEF SweptTo
  <2> QED
    BY <1>5, <2>1, PcSets, GotoWorks DEF Worked, Sweep
<1>6. CASE Rewrite(p)
  <2>1. UNCHANGED proc \/ Goto(p, "reset") \/ OkTo(p, "reset", FALSE)
    BY <1>6 DEF Rewrite, OkTo
  <2>2. UNCHANGED proc => Moves(p, Works)
    BY DEF Moves
  <2> QED
    BY <1>6, <2>1, <2>2, PcSets, GotoWorks DEF Worked, Rewrite
<1>7. CASE Residue(p)
  <2>1. \E x : OkTo(p, "reclaim", x)
    BY <1>7 DEF Residue, OkTo
  <2> QED
    BY <1>7, <2>1, PcSets, GotoWorks DEF Worked, Residue
<1>8. CASE Reclaim(p)
  BY <1>8, PcSets, ReturnLeaves DEF Worked, Reclaim
<1> QED
  BY <1>1, <1>3, <1>4, <1>5, <1>6, <1>7, <1>8 DEF EraserStep

\* The dispatcher past its lock, the opening of the ledger, and calls that fill.
OtherStep(p) ==
  \/ CheckMode(p) \/ CheckFence(p) \/ TakeOpenLock(p) \/ OpenBusy(p) \/ OpenFile(p)
  \/ Schema(p) \/ Snapshot(p) \/ Migrate(p) \/ Mint(p) \/ Mark(p) \/ Sign(p)
  \/ Write(p) \/ Stage(p) \/ Publish(p)

LEMMA OtherWorks ==
  ASSUME Calls, NEW p \in Procs, OtherStep(p)
  PROVE  Worked(p)
<1>1. CASE CheckMode(p) \/ CheckFence(p) \/ TakeOpenLock(p) \/ OpenBusy(p) \/ OpenFile(p)
  BY <1>1, PcSets, ReturnLeaves, GotoWorks
     DEF Worked, CheckMode, CheckFence, TakeOpenLock, OpenBusy, OpenFile, Refuse
<1>2. CASE Schema(p) \/ Snapshot(p) \/ Migrate(p) \/ Mint(p) \/ Mark(p) \/ Sign(p)
  BY <1>2, PcSets, ReturnLeaves, GotoWorks
     DEF Worked, Schema, Snapshot, Migrate, Mint, Mark, Sign, Refuse
<1>3. CASE Write(p) \/ Stage(p) \/ Publish(p)
  BY <1>3, PcSets, ReturnLeaves, GotoWorks DEF Worked, Write, Stage, Publish
<1> QED
  BY <1>1, <1>2, <1>3 DEF OtherStep

\* Before it: nothing but the calls of p changes.
LEMMA StepWorks ==
  ASSUME Calls, NEW p \in Procs, Step(p)
  PROVE  \/ Worked(p) /\ (LadderStep(p) \/ EraserStep(p) \/ EraseRows(p) \/ OtherStep(p))
         \/ Leaves(p) /\ UNCHANGED <<sc, disk, vault, panel, kids, issued, hist>>
         \/ \E tool \in sc.tools : Call(p, tool)
         \/ TakeLock(p)
<1>1. CASE LadderStep(p) \/ EraserStep(p) \/ EraseRows(p) \/ OtherStep(p)
  BY <1>1, LadderWorks, EraserWorks, OtherWorks
<1>2. CASE \E mode \in Modes : Spawn(p, mode)
  BY <1>2, SpawnLeaves DEF Spawn
<1>3. CASE Crash(p)
  BY <1>3, CrashLeaves DEF Crash
<1>4. CASE Busy(p)
  BY <1>4, ReturnLeaves DEF Busy
<1> QED
  BY <1>1, <1>2, <1>3, <1>4 DEF Step, LadderStep, EraserStep, OtherStep

-----------------------------------------------------------------------------
(* What the erasers have done so far.                                      *)

\* No call says how it ended before it ends.
Unanswered == \A p \in Procs : proc[p].pc \notin {"down", "idle"} => proc[p].why = ""

Whole(p) == proc[p].tool = "erase_all"
Bare == \A i \in vault : i.nonce = 0

\* While every step of an eraser came off, what it passed is gone.
Clears(p) ==
  /\ proc[p].pc \in {"withdraw", "items", "rewrite", "reset"} => Whole(p)
  /\ proc[p].ok =>
       /\ proc[p].pc \in Erasing \ {"rows"} =>
            ~Ledger(p).data /\ (Whole(p) \/ Ledger(p).fence)
       /\ proc[p].pc \in Erasing \ {"rows", "copies"} => ~disk.copies /\ ~disk.snapshots
       /\ proc[p].pc \in Erasing \ {"rows", "copies", "withdraw"} =>
            (Whole(p) => ~Ledger(p).consents)
       /\ proc[p].pc \in Erasing \ {"rows", "copies", "withdraw", "exports"} =>
            ~disk.published /\ ~disk.staging
       /\ proc[p].pc = "rewrite" => proc[p].kept = {} /\ Bare
       /\ proc[p].pc \in {"reset", "residue", "reclaim"} =>
            (Whole(p) => disk.record = NoRecord /\ Bare)
       /\ proc[p].pc \in {"residue", "reclaim"} =>
            (Whole(p) => Ledger(p).app = 0 /\ Ledger(p).accepted = 0)

CleanSoFar == Unanswered /\ \A p \in Procs : Clears(p)

LEMMA MovesFields ==
  ASSUME NEW p, NEW changed \in SUBSET Works, Moves(p, changed)
  PROVE  /\ proc'[p].tool = proc[p].tool /\ proc'[p].mode = proc[p].mode
         /\ proc'[p].lock = proc[p].lock /\ proc'[p].why = proc[p].why
         /\ proc'[p].envkey = proc[p].envkey /\ proc'[p].envapp = proc[p].envapp
BY DEF Moves, Works, Fields

LEMMA StepAlone ==
  ASSUME Calls, NEW p \in Procs, Step(p)
  PROVE  \A q \in Procs \ {p} : proc'[q] = proc[q]
<1>1. CASE Worked(p) \/ Leaves(p)
  BY <1>1 DEF Worked, Leaves, Moves
<1>2. CASE \E tool \in sc.tools : Call(p, tool)
  BY <1>2, CallMoves DEF Moves
<1>3. CASE TakeLock(p)
  <2>1. \E x : LockTo(p, "mode", x)
    BY <1>3 DEF TakeLock, LockTo
  <2> QED
    BY <2>1, LockMoves DEF Moves
<1> QED
  BY <1>1, <1>2, <1>3, StepWorks

LEMMA UnansweredNext ==
  ASSUME Calls, Unanswered, NEW p \in Procs, Step(p)
  PROVE  Unanswered'
<1>1. \A q \in Procs \ {p} : proc'[q] = proc[q]
  BY StepAlone
<1>2. proc'[p].pc \in {"down", "idle"} \/ proc'[p].why = ""
  <2>1. CASE Leaves(p)
    BY <2>1 DEF Leaves
  <2>2. CASE \E tool \in sc.tools : Call(p, tool)
    BY <2>2, CallMoves
  <2>3. CASE TakeLock(p)
    <3>1. \E x : LockTo(p, "mode", x)
      BY <2>3 DEF TakeLock, LockTo
    <3>2. proc'[p].why = proc[p].why
      BY <3>1, LockMoves DEF Moves, Fields
    <3> QED
      BY <2>3, <3>2 DEF Unanswered, TakeLock
  <2>4. CASE proc[p].pc \notin Asleep /\ Moves(p, Works)
    <3>1. proc'[p].why = proc[p].why
      BY <2>4, MovesFields DEF Works
    <3> QED
      BY <2>4, <3>1, PcSets DEF Unanswered
  <2> QED
    BY <2>1, <2>2, <2>3, <2>4, StepWorks DEF Worked
<1> QED
  BY <1>1, <1>2 DEF Unanswered

\* A step that ends outside the erasers' places, or at their first.
LEMMA OutsideClears ==
  ASSUME NEW p, proc'[p].pc \notin Erasing \ {"rows"}
  PROVE  Clears(p)'
BY PcSets DEF Clears

LEMMA EraseRowsClears ==
  ASSUME Installed, NEW p \in Procs, EraseRows(p)
  PROVE  Clears(p)'
<1>1. Calls /\ IsDisk(disk) /\ proc[p].mode \in Modes
  BY DEF Installed, Shapes, Calls
<1>2. CASE Stop(p)
  BY <1>1, <1>2, StopLeaves, OutsideClears, PcSets DEF Leaves
<1>3. CASE WriteLedger(p, Emptied(p)) /\ Goto(p, "copies")
  <2> DEFINE c == Ledger(p)
  <2> DEFINE l == Emptied(p)
  <2> DEFINE instance == issued.instance + 1
  <2>1. /\ IsLedger(c)
        /\ IF Whole(p)
           THEN l = [c EXCEPT !.data = FALSE, !.fence = FALSE, !.accepted = 0,
                              !.instance = instance]
           ELSE l = [c EXCEPT !.data = FALSE, !.fence = TRUE, !.instance = instance]
    BY <1>1, RowsShape DEF Emptied, Whole
  <2> HIDE DEF l, instance
  <2>2. IsLedger(l) /\ l.data = FALSE /\ (Whole(p) \/ l.fence = TRUE)
    <3> HIDE DEF c
    <3>1. CASE Whole(p)
      BY <2>1, <3>1 DEF IsLedger
    <3>2. CASE ~Whole(p)
      BY <2>1, <3>2 DEF IsLedger
    <3> QED
      BY <3>1, <3>2
  <2>3. disk'.ledger[proc[p].mode] = l
    BY <1>1, <1>3, <2>2, LedgerEffect DEF l
  <2>4. /\ proc'[p].pc = "copies" /\ proc'[p].tool = proc[p].tool
        /\ proc'[p].mode = proc[p].mode
    BY <1>1, <1>3, GotoMoves, MovesFields, WorkSets
  <2> QED
    BY <2>2, <2>3, <2>4, PcSets DEF Clears, Ledger, Whole
<1> QED
  BY <1>2, <1>3 DEF EraseRows

\* What an attempted step leaves of the call.
LEMMA AttemptLeaves ==
  ASSUME Calls, NEW p \in Procs, NEW done, NEW next, Attempt(p, done, next)
  PROVE  /\ proc'[p].pc = next /\ proc'[p].tool = proc[p].tool
         /\ proc'[p].mode = proc[p].mode
         /\ proc'[p].ok => disk' = done /\ proc[p].ok
<1>1. CASE disk' = done /\ Goto(p, next)
  <2>1. Moves(p, {"pc"}) /\ proc'[p].pc = next
    BY <1>1, GotoMoves
  <2>2. proc'[p].ok = proc[p].ok
    BY <2>1 DEF Moves, Fields
  <2> QED
    BY <1>1, <2>1, <2>2, MovesFields, WorkSets
<1>2. CASE OkTo(p, next, FALSE)
  <2>1. Moves(p, {"pc", "ok"}) /\ proc'[p].pc = next /\ proc'[p].ok = FALSE
    BY <1>2, OkMoves
  <2> QED
    BY <2>1, MovesFields, WorkSets
<1> QED
  BY <1>1, <1>2 DEF Attempt, OkTo

LEMMA EraseCopiesClears ==
  ASSUME Installed, NEW p \in Procs, Clears(p), EraseCopies(p)
  PROVE  Clears(p)'
<1> DEFINE next == IF Whole(p) THEN "withdraw" ELSE "exports"
<1>1. /\ proc'[p].pc = next /\ proc'[p].tool = proc[p].tool
      /\ proc'[p].mode = proc[p].mode /\ proc[p].pc = "copies"
      /\ proc'[p].ok => /\ disk' = [disk EXCEPT !.copies = FALSE, !.snapshots = FALSE]
                        /\ proc[p].ok
  BY AttemptLeaves DEF EraseCopies, Whole, Installed, Shapes
<1>2. proc'[p].ok => /\ disk'.ledger = disk.ledger /\ ~disk'.copies /\ ~disk'.snapshots
  BY <1>1 DEF Installed, Shapes, IsDisk
<1> QED
  BY <1>1, <1>2, PcSets DEF Clears, Whole, Ledger

LEMMA EraseExportsClears ==
  ASSUME Installed, NEW p \in Procs, Clears(p), EraseExports(p)
  PROVE  Clears(p)'
<1> DEFINE next == IF Whole(p) THEN "items" ELSE "residue"
<1>1. /\ proc'[p].pc = next /\ proc'[p].tool = proc[p].tool
      /\ proc'[p].mode = proc[p].mode /\ proc[p].pc = "exports"
      /\ proc'[p].ok => /\ disk' = [disk EXCEPT !.published = FALSE, !.staging = FALSE]
                        /\ proc[p].ok
  BY AttemptLeaves DEF EraseExports, Whole, Installed, Shapes
<1>2. proc'[p].ok => /\ disk'.ledger = disk.ledger /\ ~disk'.published /\ ~disk'.staging
                     /\ disk'.copies = disk.copies /\ disk'.snapshots = disk.snapshots
  BY <1>1 DEF Installed, Shapes, IsDisk
<1> QED
  BY <1>1, <1>2, PcSets DEF Clears, Whole, Ledger

\* Files that are not the call's ledger.
LEMMA LedgerLeaves ==
  ASSUME IsDisk(disk), NEW p, NEW l, WriteLedger(p, l)
  PROVE  /\ disk'.copies = disk.copies /\ disk'.snapshots = disk.snapshots
         /\ disk'.published = disk.published /\ disk'.staging = disk.staging
         /\ disk'.marker = disk.marker /\ disk'.record = disk.record
<1> DEFINE ledger == [disk.ledger EXCEPT ![proc[p].mode] = l]
<1>1. disk' = [disk EXCEPT !.ledger = ledger]
  BY DEF WriteLedger
<1> HIDE DEF ledger
<1> QED
  BY <1>1 DEF IsDisk

LEMMA WithdrawClears ==
  ASSUME Installed, NEW p \in Procs, Clears(p), Withdraw(p)
  PROVE  Clears(p)'
<1>1. Calls /\ IsDisk(disk) /\ proc[p].mode \in Modes /\ proc[p].pc = "withdraw"
  BY DEF Installed, Shapes, Calls, Withdraw
<1>2. CASE /\ WriteLedger(p, [Ledger(p) EXCEPT !.consents = FALSE])
           /\ Goto(p, IF proc[p].ok THEN "exports" ELSE "reclaim")
  <2> DEFINE c == Ledger(p)
  <2> DEFINE l == [c EXCEPT !.consents = FALSE]
  <2>1. IsLedger(c) /\ l = [c EXCEPT !.consents = FALSE]
    BY <1>1, RowsShape
  <2> HIDE DEF l
  <2>2. IsLedger(l) /\ l.consents = FALSE /\ l.data = c.data /\ l.fence = c.fence
    <3> HIDE DEF c
    <3> QED
      BY <2>1 DEF IsLedger
  <2>3. disk'.ledger[proc[p].mode] = l
    BY <1>1, <1>2, <2>1, <2>2, LedgerEffect
  <2>4. disk'.copies = disk.copies /\ disk'.snapshots = disk.snapshots
    BY <1>1, <1>2, LedgerLeaves
  <2>5. Moves(p, {"pc"}) /\ proc'[p].pc = IF proc[p].ok THEN "exports" ELSE "reclaim"
    BY <1>1, <1>2, GotoMoves
  <2>6. proc'[p].tool = proc[p].tool /\ proc'[p].mode = proc[p].mode /\ proc'[p].ok = proc[p].ok
    BY <2>5 DEF Moves, Fields
  <2> QED
    BY <1>1, <2>2, <2>3, <2>4, <2>5, <2>6, PcSets DEF Clears, Whole, Ledger
<1>3. CASE OkTo(p, "reclaim", FALSE)
  <2>1. proc'[p].pc = "reclaim" /\ proc'[p].ok = FALSE
    BY <1>1, <1>3, OkMoves
  <2> QED
    BY <2>1 DEF Clears
<1> QED
  BY <1>2, <1>3 DEF Withdraw, OkTo

LEMMA SweepClears ==
  ASSUME Installed, NEW p \in Procs, Clears(p), Sweep(p)
  PROVE  Clears(p)'
<1>1. Calls /\ IsDisk(disk) /\ proc[p].pc = "items" /\ Records
  BY DEF Installed, Shapes, Sweep
<1>2. PICK kept, spared \in SUBSET disk.record.lines :
        /\ spared \subseteq kept
        /\ vault' = {i \in vault : ~Recorded(p, i) \/ i.nonce \in spared}
        /\ \E ok : SweptTo(p, "rewrite", kept, ok) /\ (ok <=> proc[p].ok /\ kept = {})
  <2>1. PICK kept, spared \in SUBSET disk.record.lines :
          /\ spared \subseteq kept
          /\ vault' = {i \in vault : ~Recorded(p, i) \/ i.nonce \in spared}
          /\ proc' = [proc EXCEPT ![p].kept = kept, ![p].pc = "rewrite",
                                  ![p].ok = @ /\ kept = {}]
    BY DEF Sweep
  <2> DEFINE ok == proc[p].ok /\ kept = {}
  <2>2. SweptTo(p, "rewrite", kept, ok)
    BY <1>1, <2>1 DEF SweptTo, Calls
  <2> QED
    BY <2>1, <2>2
<1>3. PICK ok : SweptTo(p, "rewrite", kept, ok) /\ (ok <=> proc[p].ok /\ kept = {})
  BY <1>2
<1>4. /\ Moves(p, {"pc", "kept", "ok"}) /\ proc'[p].pc = "rewrite" /\ proc'[p].kept = kept
      /\ proc'[p].ok = ok
  BY <1>1, <1>3, SweptMoves
<1>5. proc'[p].tool = proc[p].tool /\ proc'[p].mode = proc[p].mode
  BY <1>4, MovesFields, WorkSets
<1>6. kept = {} => Bare'
  BY <1>1, <1>2 DEF Bare, Records, RecordedUntilGone, Recorded
<1>7. /\ disk'.ledger = disk.ledger /\ disk'.copies = disk.copies
      /\ disk'.snapshots = disk.snapshots /\ disk'.published = disk.published
      /\ disk'.staging = disk.staging
  <2>1. \E r : disk' = [disk EXCEPT !.record = r]
    BY <1>1 DEF Sweep, IsDisk
  <2> QED
    BY <1>1, <2>1 DEF IsDisk
<1> QED
  BY <1>1, <1>3, <1>4, <1>5, <1>6, <1>7, PcSets DEF Clears, Whole, Ledger

LEMMA RewriteClears ==
  ASSUME Installed, NEW p \in Procs, Clears(p), Rewrite(p)
  PROVE  Clears(p)'
<1>1. Calls /\ IsDisk(disk) /\ proc[p].pc = "rewrite" /\ vault' = vault
  BY DEF Installed, Shapes, Rewrite
<1>2. CASE /\ proc[p].kept # {} /\ disk' = [disk EXCEPT !.record.copy = TRUE]
           /\ UNCHANGED proc
  BY <1>1, <1>2, PcSets DEF Clears, Whole
<1>3. CASE /\ disk' = [disk EXCEPT !.record = [NoRecord EXCEPT !.lines = proc[p].kept]]
           /\ Goto(p, "reset")
  <2>1. Moves(p, {"pc"}) /\ proc'[p].pc = "reset"
    BY <1>1, <1>3, GotoMoves
  <2>2. proc'[p].tool = proc[p].tool /\ proc'[p].mode = proc[p].mode /\ proc'[p].ok = proc[p].ok
    BY <2>1 DEF Moves, Fields
  <2>3. proc[p].kept = {} => [NoRecord EXCEPT !.lines = proc[p].kept] = NoRecord
    BY DEF NoRecord
  <2> DEFINE r == [NoRecord EXCEPT !.lines = proc[p].kept]
  <2>4. disk' = [disk EXCEPT !.record = r]
    BY <1>3
  <2> HIDE DEF r
  <2>5. /\ disk'.ledger = disk.ledger /\ disk'.copies = disk.copies
        /\ disk'.snapshots = disk.snapshots /\ disk'.published = disk.published
        /\ disk'.staging = disk.staging /\ disk'.record = r
    BY <1>1, <2>4 DEF IsDisk
  <2> QED
    BY <1>1, <2>1, <2>2, <2>3, <2>5, PcSets DEF Clears, Whole, Ledger, Bare, r
<1>4. CASE OkTo(p, "reset", FALSE)
  <2>1. proc'[p].pc = "reset" /\ proc'[p].ok = FALSE /\ Moves(p, {"pc", "ok"})
    BY <1>1, <1>4, OkMoves
  <2>2. proc'[p].tool = proc[p].tool
    BY <2>1, MovesFields, WorkSets
  <2> QED
    BY <1>1, <2>1, <2>2 DEF Clears, Whole
<1> QED
  BY <1>2, <1>3, <1>4 DEF Rewrite, OkTo

LEMMA ResetClears ==
  ASSUME Installed, NEW p \in Procs, Clears(p), Reset(p)
  PROVE  Clears(p)'
<1>1. Calls /\ IsDisk(disk) /\ proc[p].mode \in Modes /\ proc[p].pc = "reset" /\ vault' = vault
  BY DEF Installed, Shapes, Calls, Reset
<1> DEFINE c == Ledger(p)
<1> DEFINE instance == issued.instance + 1
<1> DEFINE l == [c EXCEPT !.app = 0, !.accepted = 0, !.fence = FALSE, !.instance = instance]
<1>2. /\ proc'[p].pc = "residue" /\ proc'[p].tool = proc[p].tool
      /\ proc'[p].mode = proc[p].mode
      /\ proc'[p].ok => WriteLedger(p, l) /\ proc[p].ok
  BY <1>1, AttemptLeaves DEF Reset, WriteLedger
<1>3. IsLedger(c) /\ l = [c EXCEPT !.app = 0, !.accepted = 0, !.fence = FALSE,
                                  !.instance = instance]
  BY <1>1, RowsShape
<1> HIDE DEF l, instance
<1>4. IsLedger(l) /\ l.app = 0 /\ l.accepted = 0 /\ l.data = c.data /\ l.consents = c.consents
  <2> HIDE DEF c
  <2> QED
    BY <1>3 DEF IsLedger
<1>5. proc'[p].ok =>
        /\ disk'.ledger[proc[p].mode] = l
        /\ disk'.copies = disk.copies /\ disk'.snapshots = disk.snapshots
        /\ disk'.published = disk.published /\ disk'.staging = disk.staging
        /\ disk'.record = disk.record
  BY <1>1, <1>2, <1>4, LedgerEffect, LedgerLeaves
<1> QED
  BY <1>1, <1>2, <1>4, <1>5, PcSets DEF Clears, Whole, Ledger, Bare

LEMMA ResidueClears ==
  ASSUME Installed, NEW p \in Procs, Clears(p), Residue(p)
  PROVE  Clears(p)'
<1>1. Calls /\ IsDisk(disk) /\ proc[p].pc = "residue" /\ vault' = vault
  BY DEF Installed, Shapes, Residue
<1>2. PICK ok : OkTo(p, "reclaim", ok)
                /\ (ok => proc[p].ok /\ disk' = [disk EXCEPT !.snapshots = FALSE])
  BY <1>1 DEF Residue, OkTo, Calls
<1>3. Moves(p, {"pc", "ok"}) /\ proc'[p].pc = "reclaim" /\ proc'[p].ok = ok
  BY <1>1, <1>2, OkMoves
<1>4. proc'[p].tool = proc[p].tool /\ proc'[p].mode = proc[p].mode
  BY <1>3, MovesFields, WorkSets
<1>5. ok => /\ disk'.ledger = disk.ledger /\ disk'.copies = disk.copies /\ ~disk'.snapshots
            /\ disk'.published = disk.published /\ disk'.staging = disk.staging
            /\ disk'.record = disk.record
  BY <1>1, <1>2 DEF IsDisk
<1> QED
  BY <1>1, <1>2, <1>3, <1>4, <1>5, PcSets DEF Clears, Whole, Ledger, Bare

\* Before it has the lock a call touches nothing.
LEMMA AsleepTouches ==
  ASSUME Calls, NEW p \in Procs, Step(p), proc[p].pc \in Asleep
  PROVE  UNCHANGED <<disk, vault, panel, kids, issued>> /\ proc'[p].pc \notin Erasing
<1>1. CASE Leaves(p) /\ UNCHANGED <<sc, disk, vault, panel, kids, issued, hist>>
  BY <1>1, PcSets DEF Leaves
<1>2. CASE \E tool \in sc.tools : Call(p, tool)
  <2>1. proc'[p].pc = "lock"
    BY <1>2, CallMoves
  <2> QED
    BY <1>2, <2>1, PcSets DEF Call
<1>3. CASE TakeLock(p)
  <2>1. \E x : LockTo(p, "mode", x)
    BY <1>3 DEF TakeLock, LockTo
  <2>2. proc'[p].pc = "mode"
    BY <2>1, LockMoves
  <2> QED
    BY <1>3, <2>2, PcSets DEF TakeLock
<1> QED
  BY <1>1, <1>2, <1>3, StepWorks DEF Worked

\* What the others have cleared stays so.
LEMMA OthersClear ==
  ASSUME Installed, NEW p \in Procs, Step(p), NEW q \in Procs \ {p}, Clears(q)
  PROVE  Clears(q)'
<1>1. Calls /\ Locks
  BY DEF Installed, Shapes
<1>2. proc'[q] = proc[q]
  BY <1>1, StepAlone
<1>3. CASE proc[q].pc \in Erasing
  <2>1. proc[p].pc \in Asleep
    BY <1>1, <1>3, EraserAlone
  <2>2. disk' = disk /\ vault' = vault
    BY <1>1, <2>1, AsleepTouches
  <2> QED
    BY <1>2, <2>2 DEF Clears, Whole, Bare, Ledger
<1>4. CASE proc[q].pc \notin Erasing
  BY <1>2, <1>4, PcSets DEF Clears, Whole
<1> QED
  BY <1>3, <1>4

LEMMA OpeningEnds ==
  ASSUME Calls, Locks, NEW p \in Procs,
         \/ CheckMode(p) \/ CheckFence(p) \/ TakeOpenLock(p) \/ OpenBusy(p) \/ OpenFile(p)
         \/ Schema(p) \/ Snapshot(p) \/ Migrate(p) \/ Mint(p) \/ Mark(p) \/ Sign(p)
  PROVE  proc'[p].pc \notin Erasing \ {"rows"}
<1> DEFINE Places == {"idle", "open", "fence", "file", "schema", "mint", "snapshot", "migrate",
                      "mark", "sign"} \cup Bodies \cup {"key"}
<1>1. proc'[p].pc \in Places => proc'[p].pc \notin Erasing \ {"rows"}
  BY PcSets DEF Bodies
<1>2. \A tool : Body(tool) \in Places
  BY DEF Body, Bodies
<1>3. ASSUME NEW pc \in Places, Goto(p, pc) \/ Opened(p, pc)
      PROVE  proc'[p].pc \in Places
  <2> HIDE DEF Places
  <2>1. proc'[p].pc = pc \/ proc'[p].pc = "open"
    BY <1>3, GotoMoves, OpenedMoves
  <2> QED
    BY <2>1 DEF Places
<1>4. ASSUME NEW why, Return(p, why)
      PROVE  proc'[p].pc \in Places
  BY <1>4, ReturnLeaves
<1>5. ASSUME Connected(p), proc[p].pc \in Inside
      PROVE  proc'[p].pc \in Places
  <2>1. proc[p].next \in Bodies
    BY <1>5 DEF Locks, Post
  <2> QED
    BY <1>5, <2>1, ConnectedMoves
<1>6. /\ "open" \in Places /\ "fence" \in Places /\ "file" \in Places /\ "schema" \in Places
      /\ "mint" \in Places /\ "snapshot" \in Places /\ "migrate" \in Places
      /\ "mark" \in Places /\ "sign" \in Places /\ "key" \in Places
  OBVIOUS
<1> HIDE DEF Places
<1> DEFINE Turns == \/ \E pc \in Places : Goto(p, pc) \/ Opened(p, pc)
                    \/ \E why : Return(p, why)
                    \/ Connected(p) /\ proc[p].pc \in Inside
<1>7. CASE CheckMode(p)
  <2>1. Turns
    BY <1>6, <1>7 DEF CheckMode
  <2> QED
    BY <1>1, <1>3, <1>4, <1>5, <2>1
<1>8. CASE CheckFence(p)
  <2>1. Turns
    BY <1>2, <1>8 DEF CheckFence
  <2> QED
    BY <1>1, <1>3, <1>4, <1>5, <2>1
<1>9. CASE TakeOpenLock(p) \/ OpenBusy(p)
  <2>1. Turns
    BY <1>6, <1>9 DEF TakeOpenLock, OpenBusy, Refuse
  <2> QED
    BY <1>1, <1>3, <1>4, <1>5, <2>1
<1>10. CASE OpenFile(p)
  <2>1. Turns
    BY <1>6, <1>10 DEF OpenFile, Refuse
  <2> QED
    BY <1>1, <1>3, <1>4, <1>5, <2>1
<1>11. CASE Schema(p) \/ Snapshot(p) \/ Migrate(p) \/ Mint(p)
  <2>1. Turns
    BY <1>6, <1>11 DEF Schema, Snapshot, Migrate, Mint, Refuse
  <2> QED
    BY <1>1, <1>3, <1>4, <1>5, <2>1
<1>12. CASE Mark(p) \/ Sign(p)
  <2>1. Turns
    BY <1>6, <1>12, PcSets DEF Mark, Sign, Refuse
  <2> QED
    BY <1>1, <1>3, <1>4, <1>5, <2>1
<1> QED
  BY <1>7, <1>8, <1>9, <1>10, <1>11, <1>12

\* The calls that fill or set up are no erasers.
LEMMA WorkEnds ==
  ASSUME Calls, Locks, Locks', NEW p \in Procs,
         LadderStep(p) \/ Write(p) \/ Stage(p) \/ Publish(p)
  PROVE  proc'[p].pc \notin Erasing
<1>1. proc[p].pc \in Laddering \cup Filling
  BY PcSets DEF LadderStep, Lift, ResolveKey, ConfirmAbsent, StartLine, EndLine, Create, Answer,
     ReadBack, Credential, WiredApp, ReadBinding, List, Recognise, Search, Keyed, Register,
     Verify, Health, Vanished, Accept, Write, Stage, Publish
<1>2. proc[p].tool \notin Erasers
  BY <1>1, PcSets DEF Locks, Post, Aim, Binding, Erasers
<1>3. CASE Leaves(p)
  BY <1>3, PcSets DEF Leaves
<1>4. CASE Moves(p, Works)
  <2>1. proc'[p].tool = proc[p].tool
    BY <1>4, MovesFields
  <2>2. proc'[p].pc \in Erasing => proc'[p].tool \in Erasers
    BY PcSets DEF Locks, Post, Aim
  <2> QED
    BY <1>2, <2>1, <2>2
<1> QED
  BY <1>3, <1>4, LadderWorks, OtherWorks DEF Worked, OtherStep

LEMMA StepClears ==
  ASSUME Installed, Locks', NEW p \in Procs, Clears(p), Step(p)
  PROVE  Clears(p)'
<1>1. Calls /\ Locks
  BY DEF Installed, Shapes
<1>2. CASE proc[p].pc \in Asleep
  BY <1>1, <1>2, AsleepTouches, OutsideClears
<1>3. CASE LadderStep(p)
  BY <1>1, <1>3, WorkEnds, OutsideClears
<1>4. CASE OtherStep(p)
  BY <1>1, <1>4, WorkEnds, OpeningEnds, OutsideClears DEF OtherStep
<1>5. CASE EraseRows(p)
  BY <1>5, EraseRowsClears
<1>6. CASE Reclaim(p)
  <2>1. proc'[p].pc = "idle"
    BY <1>1, <1>6, ReturnLeaves DEF Reclaim
  <2> QED
    BY <2>1, PcSets, OutsideClears
<1>7. CASE EraserStep(p) /\ ~Reclaim(p)
  BY <1>7, EraseCopiesClears, WithdrawClears, EraseExportsClears, SweepClears, RewriteClears,
     ResetClears, ResidueClears DEF EraserStep
<1>8. CASE proc[p].pc \notin Asleep
  <2>1. \/ Worked(p) /\ (LadderStep(p) \/ EraserStep(p) \/ EraseRows(p) \/ OtherStep(p))
        \/ Leaves(p) /\ UNCHANGED <<sc, disk, vault, panel, kids, issued, hist>>
    BY <1>1, <1>8, StepWorks, PcSets DEF Call, TakeLock
  <2>2. Leaves(p) => Clears(p)'
    BY PcSets, OutsideClears DEF Leaves
  <2> QED
    BY <1>3, <1>4, <1>5, <1>6, <1>7, <2>1, <2>2
<1> QED
  BY <1>2, <1>8

LEMMA OnlyReclaims ==
  ASSUME NEW p, Step(p), proc[p].pc = "reclaim"
  PROVE  Reclaim(p) \/ Crash(p)
<1>1. ~LadderStep(p)
  BY DEF LadderStep, Lift, ResolveKey, ConfirmAbsent, StartLine, EndLine, Create, Answer,
     ReadBack, Credential, WiredApp, ReadBinding, List, Recognise, Search, Keyed, Register,
     Verify, Health, Vanished, Accept
<1>2. ~OtherStep(p)
  BY DEF OtherStep, CheckMode, CheckFence, TakeOpenLock, OpenBusy, OpenFile, Schema, Snapshot,
     Migrate, Mint, Mark, Sign, Write, Stage, Publish
<1>3. ~EraseRows(p) /\ (EraserStep(p) => Reclaim(p))
  BY DEF EraseRows, EraserStep, EraseCopies, Withdraw, EraseExports, Sweep, Rewrite, Reset,
     Residue
<1>4. \/ LadderStep(p) \/ OtherStep(p) \/ EraseRows(p) \/ EraserStep(p) \/ Crash(p)
      \/ \E mode \in Modes : Spawn(p, mode)
      \/ \E tool \in sc.tools : Call(p, tool)
      \/ TakeLock(p) \/ Busy(p)
  BY DEF Step, LadderStep, OtherStep, EraserStep
<1> QED
  BY <1>1, <1>2, <1>3, <1>4 DEF Spawn, Call, TakeLock, Busy

LEMMA ProcsOfScenario ==
  ASSUME Installed
  PROVE  sc.procs \subseteq Procs
BY InstallAssumption DEF Installed, Shapes

LEMMA StillClear ==
  ASSUME CleanSoFar, UNCHANGED proc, UNCHANGED vault \/ \A p \in Procs : proc[p].pc \notin Erasing,
         disk' = disk \/ \E x : disk' = [disk EXCEPT !.marker = x], IsDisk(disk)
  PROVE  CleanSoFar'
<1>1. /\ disk'.ledger = disk.ledger /\ disk'.copies = disk.copies
      /\ disk'.snapshots = disk.snapshots /\ disk'.published = disk.published
      /\ disk'.staging = disk.staging /\ disk'.record = disk.record
  BY DEF IsDisk
<1>2. Unanswered'
  BY DEF CleanSoFar, Unanswered
<1>3. ASSUME NEW p \in Procs
      PROVE  Clears(p)'
  <2>1. CASE UNCHANGED vault
    BY <1>1, <2>1 DEF CleanSoFar, Clears, Whole, Bare, Ledger
  <2>2. CASE proc[p].pc \notin Erasing
    BY <1>3, <2>2, PcSets DEF CleanSoFar, Clears, Whole
  <2> QED
    BY <1>3, <2>1, <2>2
<1> QED
  BY <1>2, <1>3 DEF CleanSoFar

LEMMA NextClear ==
  ASSUME Installed, Locks', CleanSoFar, [Next]_vars
  PROVE  CleanSoFar'
<1>1. Calls /\ Locks /\ IsDisk(disk)
  BY DEF Installed, Shapes
<1>2. CASE \E p \in sc.procs : Step(p)
  <2>1. PICK p \in Procs : Step(p)
    BY <1>2, ProcsOfScenario
  <2>2. \A q \in Procs : Clears(q)'
    BY <2>1, StepClears, OthersClear DEF CleanSoFar
  <2>3. Unanswered'
    BY <1>1, <2>1, UnansweredNext DEF CleanSoFar
  <2> QED
    BY <2>2, <2>3 DEF CleanSoFar
<1>3. CASE \E kid \in kids : ChildEnds(kid)
  <2>1. UNCHANGED <<disk, proc>> /\ kids # {}
    BY <1>3 DEF ChildEnds
  <2>2. \A p \in Procs : proc[p].pc \notin Erasing
    BY <1>1, <2>1, EraserAlone
  <2> QED
    BY <1>1, <2>1, <2>2, StillClear
<1>4. CASE \E a \in panel : Flap(a) \/ Drift(a)
  <2>1. UNCHANGED <<disk, proc, vault>>
    BY <1>4 DEF Flap, Drift
  <2> QED
    BY <1>1, <2>1, StillClear
<1>5. CASE ClearMarker
  <2>1. UNCHANGED <<proc, vault>> /\ \E x : disk' = [disk EXCEPT !.marker = x]
    BY <1>5 DEF ClearMarker
  <2> QED
    BY <1>1, <2>1, StillClear
<1>6. CASE UNCHANGED vars
  <2>1. UNCHANGED <<disk, proc, vault>>
    BY <1>6 DEF vars
  <2> QED
    BY <1>1, <2>1, StillClear
<1> QED
  BY <1>2, <1>3, <1>4, <1>5, <1>6 DEF Next

LEMMA InitClear ==
  ASSUME Init
  PROVE  CleanSoFar
<1>1. \A p \in Procs : proc[p] = Down
  BY DEF Init
<1> QED
  BY <1>1, DownFields, PcSets DEF CleanSoFar, Unanswered, Clears

\* What is said at the end was not said before.
LEMMA SaidAtTheEnd ==
  ASSUME Installed, CleanSoFar, [Next]_vars, NEW p \in Procs, proc[p].pc = "reclaim",
         proc'[p].why = "complete"
  PROVE  /\ ~Ledger(p).data /\ ~disk.copies /\ ~disk.snapshots
         /\ ~disk.published /\ ~disk.staging
         /\ IF proc[p].tool = "erase_data" THEN Ledger(p).fence
            ELSE /\ ~Ledger(p).consents /\ Ledger(p).app = 0 /\ Ledger(p).accepted = 0
                 /\ disk.record = NoRecord /\ \A i \in vault : i.nonce = 0
<1>1. Calls /\ Locks /\ Unanswered
  BY DEF Installed, Shapes, CleanSoFar
<1>2. proc[p].why = "" /\ proc[p].pc \in Erasing /\ proc[p].pc \notin Asleep
  BY <1>1, PcSets DEF Unanswered
<1>3. proc[p].tool \in Erasers
  BY <1>1, <1>2, PcSets DEF Locks, Post, Aim
<1>4. proc'[p] # proc[p]
  BY <1>2
<1>5. Step(p)
  <2>1. \E q \in sc.procs : Step(q)
    BY <1>4 DEF Next, ChildEnds, Flap, Drift, ClearMarker, vars
  <2>2. PICK q \in Procs : Step(q)
    BY <2>1, ProcsOfScenario
  <2> QED
    BY <1>1, <1>4, <2>2, StepAlone
<1>6. Reclaim(p) \/ Crash(p)
  BY <1>5, OnlyReclaims
<1>7. proc[p].ok
  <2>1. ~Crash(p)
    BY <1>1, CrashLeaves, DownFields
  <2>2. PICK why : Return(p, why) /\ (why = "complete" => proc[p].ok)
    BY <1>6, <2>1 DEF Reclaim
  <2> QED
    BY <1>1, <2>2, ReturnLeaves
<1> QED
  BY <1>3, <1>7, PcSets DEF CleanSoFar, Clears, Whole, Bare, Erasers

\* An uninstall is told that nothing is left only when nothing is: the answer
\* needs every step before it to have come off, and nobody else's call or child
\* filled what it had emptied (clean_slate, _erase_data_keep_signins).
THEOREM CompleteIsCleanAlways == Spec => CompleteIsClean
<1>1. Init => Installed /\ CleanSoFar
  BY InitInstalled, InitClear
<1>2. (Installed /\ CleanSoFar) /\ [Next]_vars => (Installed /\ CleanSoFar)'
  <2> SUFFICES ASSUME Installed, CleanSoFar, [Next]_vars
               PROVE  Installed' /\ CleanSoFar'
    OBVIOUS
  <2>1. Installed' /\ Locks'
    BY NextKeeps DEF Installed
  <2> QED
    BY <2>1, NextClear
<1>3. (Installed /\ CleanSoFar) /\ [Next]_vars =>
        [\A p \in Procs : proc[p].pc = "reclaim" /\ proc'[p].why = "complete" =>
           /\ ~Ledger(p).data /\ ~disk.copies /\ ~disk.snapshots
           /\ ~disk.published /\ ~disk.staging
           /\ IF proc[p].tool = "erase_data" THEN Ledger(p).fence
              ELSE /\ ~Ledger(p).consents /\ Ledger(p).app = 0 /\ Ledger(p).accepted = 0
                   /\ disk.record = NoRecord /\ \A i \in vault : i.nonce = 0]_vars
  BY SaidAtTheEnd
<1> QED
  BY <1>1, <1>2, <1>3, PTL DEF Spec, CompleteIsClean

-----------------------------------------------------------------------------
(* The key of a call.                                                      *)

\* Where a call has settled on a key, and where it makes an item.
Rungs == {"cred", "app", "list", "bind", "keyed", "register", "verify", "health"}
Making == {"record", "line", "create", "waiting"}
Sources == {"", "env", "vault", "forged"}

\* A key read from the vault, or found there after it was made, is there still.
HasKey(p) ==
  /\ proc[p].source \in Sources
  /\ proc[p].source # "" => Aim(p) \in Laddering
  /\ Aim(p) \in Rungs => proc[p].source # ""
  /\ proc[p].pc \in Making /\ proc[p].item # "key" => proc[p].source # ""
  /\ proc[p].source \in {"vault", "forged"} =>
       \E i \in Items(KeyItem(proc[p].mode)) : i.key = proc[p].key

IsApp(a) == a = [id |-> a.id, world |-> a.world, key |-> a.key, ours |-> a.ours,
                 listed |-> a.listed]

Keys ==
  /\ \A p \in Procs : HasKey(p)
  /\ \A a \in panel : IsApp(a)

LEMMA RungSets ==
  /\ Rungs = {"cred", "app", "list", "bind", "keyed", "register", "verify", "health"}
  /\ Making = {"record", "line", "create", "waiting"}
BY DEF Rungs, Making

\* Steps that settle nothing.
Walking == Works \ {"source", "key", "item"}

LEMMA WalkingFields ==
  ASSUME NEW p, NEW changed \in SUBSET Walking, Moves(p, changed)
  PROVE  /\ proc'[p].tool = proc[p].tool /\ proc'[p].mode = proc[p].mode
         /\ proc'[p].source = proc[p].source /\ proc'[p].key = proc[p].key
         /\ proc'[p].item = proc[p].item /\ Moves(p, Walking)
BY DEF Moves, Walking, Works, Fields

LEMMA WalkingSets ==
  /\ {"pc"} \in SUBSET Walking /\ {"pc", "next"} \in SUBSET Walking
  /\ {"pc", "rec"} \in SUBSET Walking /\ {"pc", "seen"} \in SUBSET Walking
  /\ {"pc", "ok"} \in SUBSET Walking /\ {"pc", "nonce"} \in SUBSET Walking
  /\ {"pc", "next", "conn"} \in SUBSET Walking /\ {"pc", "kept", "ok"} \in SUBSET Walking
BY DEF Walking, Works

LEMMA LeavesHasKey ==
  ASSUME NEW p, Leaves(p)
  PROVE  HasKey(p)'
<1>1. proc'[p].source = "" /\ proc'[p].pc \in {"down", "idle"}
  BY DEF Leaves
<1>2. Aim(p)' \notin Rungs /\ proc'[p].pc \notin Making
  BY <1>1, PcSets DEF Aim, Rungs, Making
<1> QED
  BY <1>1, <1>2 DEF HasKey, Sources

\* A step that keeps its key, to a place that asks for none it has not.
LEMMA WalkHasKey ==
  ASSUME NEW p, HasKey(p), Moves(p, Walking), vault \subseteq vault',
         proc[p].source # "" => Aim(p)' \in Laddering,
         Aim(p)' \in Rungs => proc[p].source # "",
         proc'[p].pc \in Making /\ proc[p].item # "key" => proc[p].source # ""
  PROVE  HasKey(p)'
<1>1. /\ proc'[p].mode = proc[p].mode /\ proc'[p].source = proc[p].source
      /\ proc'[p].key = proc[p].key /\ proc'[p].item = proc[p].item
  BY WalkingFields
<1>2. \A title : Items(title) \subseteq Items(title)'
  BY DEF Items
<1> QED
  BY <1>1, <1>2 DEF HasKey

\* A step along the ladder.
LEMMA StepHasKey ==
  ASSUME NEW p, HasKey(p), Moves(p, Walking), UNCHANGED vault,
         proc'[p].pc \in Laddering,
         proc[p].pc \in Rungs \/ proc'[p].pc \notin Rungs \cup Making
  PROVE  HasKey(p)'
<1>1. Aim(p)' = proc'[p].pc
  BY PcSets DEF Aim
<1>2. proc[p].pc \in Rungs => Aim(p) = proc[p].pc
  BY PcSets DEF Aim, Rungs
<1>3. proc[p].pc \in Rungs => proc[p].source # ""
  BY <1>2 DEF HasKey
<1> QED
  BY <1>1, <1>3, WalkHasKey

LEMMA ResolvedHasKey ==
  ASSUME Calls, NEW p \in Procs, NEW source, NEW key, Resolved(p, source, key),
         UNCHANGED vault, source \in Sources \ {""},
         source # "env" => \E i \in Items(KeyItem(proc[p].mode)) : i.key = key
  PROVE  HasKey(p)'
<1>1. /\ proc'[p].source = source /\ proc'[p].key = key
      /\ \/ proc'[p].pc = "cred"
         \/ proc'[p].pc = "open" /\ proc'[p].next = "cred"
      /\ Moves(p, {"pc", "next", "source", "key"})
  BY ResolvedMoves
<1>2. proc'[p].mode = proc[p].mode
  BY <1>1, MovesFields, WorkSets
<1>3. Aim(p)' = "cred" /\ proc'[p].pc \notin Making
  BY <1>1, PcSets, RungSets DEF Aim
<1>4. Items(KeyItem(proc[p].mode))' = Items(KeyItem(proc[p].mode))
  BY <1>2 DEF Items
<1> QED
  BY <1>1, <1>2, <1>3, <1>4, PcSets, RungSets DEF HasKey, Sources

\* Which steps walk.
LEMMA GotoWalks ==
  ASSUME Calls, NEW p \in Procs, NEW pc,
         \/ Goto(p, pc)
         \/ \E x : RecTo(p, pc, x) \/ SeenTo(p, pc, x) \/ OkTo(p, pc, x) \/ NonceTo(p, pc, x)
         \/ \E x, y : SweptTo(p, pc, x, y)
  PROVE  Moves(p, Walking) /\ proc'[p].pc = pc
<1>1. \/ Moves(p, {"pc"}) \/ Moves(p, {"pc", "rec"}) \/ Moves(p, {"pc", "seen"})
      \/ Moves(p, {"pc", "ok"}) \/ Moves(p, {"pc", "nonce"}) \/ Moves(p, {"pc", "kept", "ok"})
  BY GotoMoves, RecMoves, SeenMoves, OkMoves, NonceMoves, SweptMoves
<1>2. proc'[p].pc = pc
  BY GotoMoves, RecMoves, SeenMoves, OkMoves, NonceMoves, SweptMoves
<1> QED
  BY <1>1, <1>2, WalkingSets, WalkingFields

LEMMA OneItem ==
  ASSUME NEW title, Cardinality(Items(title)) = 1
  PROVE  \E i \in Items(title) : i.key = (CHOOSE j \in Items(title) : TRUE).key
<1>1. Items(title) # {}
  BY FS_EmptySet
<1> QED
  BY <1>1

-----------------------------------------------------------------------------
(* The ladder settles on a key and keeps it.                               *)

LEMMA EarlyHasKey ==
  ASSUME Calls, NEW p \in Procs, HasKey(p),
         \/ Lift(p) \/ ResolveKey(p) \/ ConfirmAbsent(p) \/ StartLine(p) \/ EndLine(p)
         \/ Create(p) \/ Answer(p) \/ ReadBack(p)
  PROVE  HasKey(p)'
<1>1. CASE Lift(p)
  <2>1. Goto(p, "key") \/ Opened(p, "lift") \/ Goto(p, "lift")
    BY <1>1 DEF Lift
  <2>2. CASE Goto(p, "key")
    BY <1>1, <2>2, GotoWalks, StepHasKey, PcSets, RungSets DEF Lift
  <2>3. CASE Opened(p, "lift")
    <3>1. /\ Moves(p, {"pc", "next"})
          /\ proc'[p].pc = "lift" \/ (proc'[p].pc = "open" /\ proc'[p].next = "lift")
      BY <2>3, OpenedMoves
    <3>2. Aim(p)' = "lift" /\ proc'[p].pc \notin Making
      BY <3>1, PcSets, RungSets DEF Aim
    <3> QED
      BY <1>1, <3>1, <3>2, WalkingSets, WalkingFields, WalkHasKey, PcSets, RungSets DEF Lift
  <2> QED
    BY <2>1, <2>2, <2>3, <1>1 DEF Lift
<1>2. CASE ResolveKey(p)
  <2> DEFINE title == KeyItem(proc[p].mode)
  <2> DEFINE key == (CHOOSE i \in Items(title) : TRUE).key
  <2>1. \/ Resolved(p, "env", proc[p].envkey)
        \/ Stop(p) \/ Goto(p, "absent")
        \/ Cardinality(Items(title)) = 1 /\ Resolved(p, "vault", key)
    BY <1>2 DEF ResolveKey
  <2>2. UNCHANGED vault /\ proc[p].pc = "key"
    BY <1>2 DEF ResolveKey
  <2>3. CASE Resolved(p, "env", proc[p].envkey)
    BY <2>2, <2>3, ResolvedHasKey DEF Sources
  <2>4. CASE Cardinality(Items(title)) = 1 /\ Resolved(p, "vault", key)
    <3>1. \E i \in Items(title) : i.key = key
      BY <2>4, OneItem
    <3> HIDE DEF key
    <3> QED
      BY <2>2, <2>4, <3>1, ResolvedHasKey DEF Sources
  <2> QED
    BY <2>1, <2>2, <2>3, <2>4, StopLeaves, LeavesHasKey, GotoWalks, StepHasKey, PcSets, RungSets
<1>3. CASE ConfirmAbsent(p)
  <2>1. UNCHANGED vault /\ proc[p].pc = "absent" /\ (Stop(p) \/ Towards(p, "key"))
    BY <1>3 DEF ConfirmAbsent
  <2>2. CASE Towards(p, "key")
    <3>1. Moves(p, {"pc", "item"}) /\ proc'[p].pc = "record" /\ proc'[p].item = "key"
      BY <2>2, TowardsMoves
    <3>2. /\ proc'[p].mode = proc[p].mode /\ proc'[p].source = proc[p].source
          /\ proc'[p].key = proc[p].key
      BY <3>1 DEF Moves, Fields
    <3>3. Aim(p)' \in Laddering /\ Aim(p)' \notin Rungs
      BY <3>1, PcSets, RungSets DEF Aim
    <3> QED
      BY <2>1, <3>1, <3>2, <3>3 DEF HasKey, Items
  <2> QED
    BY <2>1, <2>2, StopLeaves, LeavesHasKey
<1>4. ASSUME proc[p].pc \in Making, UNCHANGED vault, NEW pc \in Making, Moves(p, Walking),
             proc'[p].pc = pc
      PROVE  HasKey(p)'
  <2>1. Aim(p)' = pc /\ pc \in Laddering /\ pc \notin Rungs
    BY <1>4, PcSets, RungSets DEF Aim
  <2>2. proc[p].item # "key" => proc[p].source # ""
    BY <1>4 DEF HasKey
  <2> QED
    BY <1>4, <2>1, <2>2, WalkHasKey
<1>5. ASSUME proc[p].pc \in Making, UNCHANGED vault, NotCreated(p)
      PROVE  HasKey(p)'
  <2>1. CASE Stop(p)
    BY <2>1, StopLeaves, LeavesHasKey
  <2>2. CASE proc[p].item # "key" /\ Goto(p, "app")
    <3>1. Moves(p, Walking) /\ proc'[p].pc = "app"
      BY <2>2, GotoWalks
    <3>2. Aim(p)' = "app" /\ proc[p].source # ""
      BY <1>5, <2>2, <3>1, PcSets DEF Aim, HasKey
    <3> QED
      BY <1>5, <3>1, <3>2, WalkHasKey, PcSets
  <2> QED
    BY <1>5, <2>1, <2>2 DEF NotCreated
<1>6. CASE StartLine(p)
  <2>1. NonceTo(p, "line", issued.nonce + 1) /\ UNCHANGED vault /\ proc[p].pc = "record"
    BY <1>6 DEF StartLine, NonceTo
  <2> QED
    BY <1>4, <2>1, GotoWalks, RungSets
<1>7. CASE EndLine(p)
  <2>1. UNCHANGED vault /\ proc[p].pc = "line" /\ (Goto(p, "create") \/ NotCreated(p))
    BY <1>7 DEF EndLine
  <2> QED
    BY <1>4, <1>5, <2>1, GotoWalks, RungSets
<1>8. CASE Create(p)
  <2>1. UNCHANGED vault /\ proc[p].pc = "create" /\ Goto(p, "waiting")
    BY <1>8 DEF Create
  <2> QED
    BY <1>4, <2>1, GotoWalks, RungSets
<1>9. CASE Answer(p)
  <2>1. /\ UNCHANGED vault /\ proc[p].pc = "waiting"
        /\ \/ proc[p].item = "key" /\ Goto(p, "readback")
           \/ proc[p].item # "key" /\ Goto(p, "app")
           \/ NotCreated(p)
    BY <1>9 DEF Answer
  <2>2. CASE proc[p].item = "key" /\ Goto(p, "readback")
    BY <2>1, <2>2, GotoWalks, StepHasKey, PcSets, RungSets
  <2>3. CASE proc[p].item # "key" /\ Goto(p, "app")
    BY <1>5, <2>1, <2>3, RungSets DEF NotCreated
  <2> QED
    BY <1>5, <2>1, <2>2, <2>3, RungSets
<1>10. CASE ReadBack(p)
  <2> DEFINE title == KeyItem(proc[p].mode)
  <2> DEFINE key == (CHOOSE i \in Items(title) : TRUE).key
  <2>1. UNCHANGED vault
    BY <1>10 DEF ReadBack
  <2>2. CASE Stop(p)
    BY <2>2, StopLeaves, LeavesHasKey
  <2>3. CASE Cardinality(Items(title)) = 1 /\ Resolved(p, "forged", key)
    <3>1. \E i \in Items(title) : i.key = key
      BY <2>3, OneItem
    <3> HIDE DEF key
    <3> QED
      BY <2>1, <2>3, <3>1, ResolvedHasKey DEF Sources
  <2> QED
    BY <1>10, <2>2, <2>3 DEF ReadBack
<1> QED
  BY <1>1, <1>2, <1>3, <1>6, <1>7, <1>8, <1>9, <1>10

LEMMA LateHasKey ==
  ASSUME Calls, NEW p \in Procs, HasKey(p), LadderStep(p),
         proc[p].pc \in Rungs \cup {"vanished", "accept"}
  PROVE  HasKey(p)'
<1>1. UNCHANGED vault
  BY RungSets DEF LadderStep, Lift, ResolveKey, ConfirmAbsent, StartLine, EndLine, Create, Answer,
     ReadBack, Credential, WiredApp, ReadBinding, List, Recognise, Search, Keyed, Register,
     Verify, Health, Vanished, Accept
<1>2. CASE Leaves(p)
  BY <1>2, LeavesHasKey
<1>3. ASSUME NEW pc \in Rungs, proc[p].pc \in Rungs, Moves(p, Walking), proc'[p].pc = pc
      PROVE  HasKey(p)'
  BY <1>1, <1>3, StepHasKey, PcSets, RungSets
<1>4. CASE Credential(p)
  <2>1. /\ proc[p].pc = "cred"
        /\ Stop(p) \/ Towards(p, "credential") \/ Goto(p, "app")
    BY <1>4 DEF Credential
  <2>2. CASE Towards(p, "credential")
    <3>1. Moves(p, {"pc", "item"}) /\ proc'[p].pc = "record"
      BY <2>2, TowardsMoves
    <3>2. /\ proc'[p].mode = proc[p].mode /\ proc'[p].source = proc[p].source
          /\ proc'[p].key = proc[p].key
      BY <3>1 DEF Moves, Fields
    <3>3. Aim(p)' \in Laddering /\ Aim(p)' \notin Rungs
      BY <3>1, PcSets, RungSets DEF Aim
    <3>4. proc[p].source # ""
      BY <2>1, PcSets, RungSets DEF HasKey, Aim
    <3> QED
      BY <1>1, <3>1, <3>2, <3>3, <3>4 DEF HasKey, Items
  <2> QED
    BY <1>2, <1>3, <2>1, <2>2, StopLeaves, GotoWalks, RungSets
<1>5. CASE WiredApp(p) \/ ReadBinding(p) \/ List(p)
  <2>1. /\ proc[p].pc \in Rungs
        /\ \/ Stop(p) \/ Goto(p, "health")
           \/ \E x : RecTo(p, "list", x) \/ SeenTo(p, "bind", x)
    BY <1>5, RungSets DEF WiredApp, ReadBinding, List, RecTo, SeenTo
  <2> QED
    BY <1>2, <1>3, <2>1, StopLeaves, GotoWalks, RungSets
<1>6. CASE Recognise(p) \/ Search(p)
  <2>1. /\ proc[p].pc \in Rungs
        /\ Stop(p) \/ Goto(p, "health") \/ Goto(p, "keyed") \/ Goto(p, "register")
    BY <1>6, RungSets DEF Recognise, Search
  <2> QED
    BY <1>2, <1>3, <2>1, StopLeaves, GotoWalks, RungSets
<1>7. CASE Keyed(p) \/ Verify(p) \/ Health(p)
  <2>1. /\ proc[p].pc \in Rungs
        /\ Stop(p) \/ Goto(p, "health") \/ Return(p, "ok")
    BY <1>7, RungSets DEF Keyed, Mismatch, Verify, Health
  <2> QED
    BY <1>2, <1>3, <2>1, StopLeaves, ReturnLeaves, GotoWalks, RungSets
<1>8. CASE Register(p)
  <2>1. proc[p].pc \in Rungs /\ (Stop(p) \/ \E x : RecTo(p, "verify", x))
    BY <1>8, RungSets DEF Register, RecTo
  <2> QED
    BY <1>2, <1>3, <2>1, StopLeaves, GotoWalks, RungSets
<1>9. CASE Vanished(p)
  <2>1. Stop(p) \/ \E x : RecTo(p, "accept", x)
    BY <1>9 DEF Vanished, RecTo
  <2>2. CASE \E x : RecTo(p, "accept", x)
    <3>1. Moves(p, Walking) /\ proc'[p].pc = "accept"
      BY <2>2, GotoWalks
    <3> QED
      BY <1>1, <3>1, StepHasKey, PcSets, RungSets
  <2> QED
    BY <1>2, <2>1, <2>2, StopLeaves
<1>10. CASE Accept(p)
  BY <1>2, <1>10, ReturnLeaves DEF Accept
<1> QED
  BY <1>4, <1>5, <1>6, <1>7, <1>8, <1>9, <1>10, RungSets
     DEF LadderStep, Lift, ResolveKey, ConfirmAbsent, StartLine, EndLine, Create, Answer, ReadBack

-----------------------------------------------------------------------------
(* What is not on the ladder leaves the keys alone.                        *)

LEMMA OpeningHasKey ==
  ASSUME Calls, Locks, Locks', NEW p \in Procs, HasKey(p), OtherStep(p)
  PROVE  HasKey(p)'
<1>1. UNCHANGED vault
  BY DEF OtherStep, CheckMode, CheckFence, TakeOpenLock, OpenBusy, OpenFile, Schema, Snapshot,
     Migrate, Mint, Mark, Sign, Write, Stage, Publish
<1>2. CASE Leaves(p)
  BY <1>2, LeavesHasKey
<1>3. ASSUME Moves(p, Walking), Aim(p)' = Aim(p), proc[p].pc \in Inside,
             proc'[p].pc \notin Making
      PROVE  HasKey(p)'
  <2>1. /\ proc[p].source # "" => Aim(p) \in Laddering
        /\ Aim(p) \in Rungs => proc[p].source # ""
    BY DEF HasKey
  <2> QED
    BY <1>1, <1>3, <2>1, WalkHasKey
<1>4. ASSUME proc[p].pc \in Inside, NEW pc \in Inside, Goto(p, pc)
      PROVE  HasKey(p)'
  <2>1. Moves(p, {"pc"}) /\ proc'[p].pc = pc
    BY <1>4, GotoMoves
  <2>2. proc'[p].next = proc[p].next
    BY <2>1 DEF Moves, Fields
  <2>3. Aim(p)' = Aim(p)
    BY <1>4, <2>1, <2>2 DEF Aim
  <2>4. pc \notin Making
    BY <1>4, PcSets, RungSets
  <2> QED
    BY <1>3, <1>4, <2>1, <2>3, <2>4, WalkingSets, WalkingFields
<1>5. ASSUME proc[p].pc \in Inside, Connected(p)
      PROVE  HasKey(p)'
  <2>1. Moves(p, {"pc", "next", "conn"}) /\ proc'[p].pc = proc[p].next
    BY <1>5, ConnectedMoves
  <2>2. proc[p].next \in Bodies
    BY <1>5 DEF Locks, Post
  <2>3. Aim(p)' = Aim(p) /\ proc'[p].pc \notin Making
    BY <1>5, <2>1, <2>2, PcSets, RungSets DEF Aim, Bodies
  <2> QED
    BY <1>3, <1>5, <2>1, <2>3, WalkingSets, WalkingFields
<1>6. ASSUME proc[p].pc \notin Inside \cup Laddering, Moves(p, Walking),
             Aim(p)' \notin Rungs, proc'[p].pc \notin Making
      PROVE  HasKey(p)'
  <2>1. proc[p].source = ""
    BY <1>6 DEF HasKey, Aim
  <2> QED
    BY <1>1, <1>6, <2>1, WalkHasKey
<1>7. CASE CheckMode(p)
  <2>1. proc[p].pc = "mode" /\ (Goto(p, "fence") \/ \E why : Return(p, why))
    BY <1>7 DEF CheckMode
  <2>2. CASE Goto(p, "fence")
    <3>1. Moves(p, Walking) /\ proc'[p].pc = "fence"
      BY <2>2, GotoWalks
    <3>2. Aim(p)' = "fence"
      BY <3>1, PcSets DEF Aim
    <3> QED
      BY <1>6, <2>1, <3>1, <3>2, PcSets, RungSets
  <2> QED
    BY <1>2, <2>1, <2>2, ReturnLeaves
<1>8. CASE CheckFence(p)
  <2> DEFINE body == Body(proc[p].tool)
  <2>1. /\ proc[p].pc = "fence"
        /\ \/ \E why : Return(p, why)
           \/ Goto(p, body)
           \/ Opened(p, body)
    BY <1>8 DEF CheckFence
  <2>2. body \in {"lift", "key", "write", "stage", "vanished", "rows"}
    BY DEF Body
  <2> HIDE DEF body
  <2>3. CASE Goto(p, body) \/ Opened(p, body)
    <3>1. Moves(p, {"pc"}) \/ Moves(p, {"pc", "next"})
      BY <2>3, GotoMoves, OpenedMoves
    <3>2. Moves(p, Walking)
      BY <3>1, WalkingSets, WalkingFields
    <3>3. proc'[p].pc = body \/ (proc'[p].pc = "open" /\ proc'[p].next = body)
      BY <2>3, GotoMoves, OpenedMoves
    <3>4. Aim(p)' \notin Rungs /\ proc'[p].pc \notin Making
      BY <2>2, <3>3, PcSets, RungSets DEF Aim
    <3> QED
      BY <1>6, <2>1, <3>2, <3>4, PcSets
  <2> QED
    BY <1>2, <2>1, <2>3, ReturnLeaves
<1>9. CASE TakeOpenLock(p) \/ OpenBusy(p)
  <2>1. proc[p].pc = "open" /\ (Goto(p, "file") \/ \E why : Return(p, why))
    BY <1>9 DEF TakeOpenLock, OpenBusy, Refuse
  <2> QED
    BY <1>2, <1>4, <2>1, PcSets, ReturnLeaves
<1>10. CASE OpenFile(p)
  <2>1. /\ proc[p].pc = "file"
        /\ \/ Goto(p, "schema") \/ Goto(p, "mint") \/ Goto(p, "snapshot")
           \/ \E why : Return(p, why)
    BY <1>10 DEF OpenFile, Refuse
  <2> QED
    BY <1>2, <1>4, <2>1, PcSets, ReturnLeaves
<1>11. CASE Schema(p) \/ Snapshot(p) \/ Migrate(p) \/ Mint(p)
  <2>1. /\ proc[p].pc \in Inside
        /\ \/ Goto(p, "schema") \/ Goto(p, "mint") \/ Goto(p, "migrate") \/ Goto(p, "mark")
           \/ \E why : Return(p, why)
    BY <1>11, PcSets DEF Schema, Snapshot, Migrate, Mint, Refuse
  <2> QED
    BY <1>2, <1>4, <2>1, PcSets, ReturnLeaves
<1>12. CASE Mark(p) \/ Sign(p)
  <2>1. /\ proc[p].pc \in Inside
        /\ Goto(p, "sign") \/ Connected(p) \/ \E why : Return(p, why)
    BY <1>12, PcSets DEF Mark, Sign, Refuse
  <2> QED
    BY <1>2, <1>4, <1>5, <2>1, PcSets, ReturnLeaves
<1>13. CASE Stage(p)
  <2>1. proc[p].pc = "stage" /\ Goto(p, "publish")
    BY <1>13 DEF Stage
  <2>2. Moves(p, Walking) /\ proc'[p].pc = "publish"
    BY <2>1, GotoWalks
  <2>3. Aim(p)' = "publish"
    BY <2>2, PcSets DEF Aim
  <2> QED
    BY <1>6, <2>1, <2>2, <2>3, PcSets, RungSets
<1>14. CASE Write(p) \/ Publish(p)
  BY <1>2, <1>14, ReturnLeaves DEF Write, Publish
<1> QED
  BY <1>7, <1>8, <1>9, <1>10, <1>11, <1>12, <1>13, <1>14 DEF OtherStep

\* Erasers and calls that wait for the lock have no key.
LEMMA NoKey ==
  ASSUME Locks, NEW p \in Procs, HasKey(p),
         proc[p].pc \in Asleep \cup Erasing \cup {"mode", "fence"}
  PROVE  proc[p].source = ""
BY PcSets DEF HasKey, Aim

LEMMA EraserWalks ==
  ASSUME Calls, NEW p \in Procs, EraserStep(p) \/ EraseRows(p)
  PROVE  Leaves(p) \/ Moves(p, Walking)
<1>1. ASSUME NEW done, NEW next, Attempt(p, done, next)
      PROVE  Moves(p, Walking)
  <2>1. Goto(p, next) \/ OkTo(p, next, FALSE)
    BY <1>1 DEF Attempt, OkTo
  <2> QED
    BY <2>1, GotoWalks
<1>2. CASE EraseRows(p)
  BY <1>2, StopLeaves, GotoWalks DEF EraseRows
<1>3. CASE EraseCopies(p) \/ EraseExports(p) \/ Reset(p)
  BY <1>1, <1>3 DEF EraseCopies, EraseExports, Reset
<1>4. CASE Withdraw(p)
  <2>1. \E x : Goto(p, x) \/ OkTo(p, x, FALSE)
    BY <1>4 DEF Withdraw, OkTo
  <2> QED
    BY <2>1, GotoWalks
<1>5. CASE Sweep(p)
  <2>1. PICK kept, spared \in SUBSET disk.record.lines :
          \E ok : proc' = [proc EXCEPT ![p].kept = kept, ![p].pc = "rewrite", ![p].ok = ok]
    BY <1>5 DEF Sweep
  <2>2. \E x, y : SweptTo(p, "rewrite", x, y)
    BY <2>1 DEF SweptTo
  <2> QED
    BY <2>2, GotoWalks
<1>6. CASE Rewrite(p)
  <2>1. UNCHANGED proc \/ Goto(p, "reset") \/ OkTo(p, "reset", FALSE)
    BY <1>6 DEF Rewrite, OkTo
  <2>2. UNCHANGED proc => Moves(p, Walking)
    BY DEF Moves
  <2> QED
    BY <2>1, <2>2, GotoWalks
<1>7. CASE Residue(p)
  <2>1. \E x : OkTo(p, "reclaim", x)
    BY <1>7 DEF Residue, OkTo
  <2> QED
    BY <2>1, GotoWalks
<1>8. CASE Reclaim(p)
  BY <1>8, ReturnLeaves DEF Reclaim
<1> QED
  BY <1>2, <1>3, <1>4, <1>5, <1>6, <1>7, <1>8 DEF EraserStep

LEMMA EraserHasKey ==
  ASSUME Calls, Locks, Locks', NEW p \in Procs, HasKey(p), EraserStep(p) \/ EraseRows(p)
  PROVE  HasKey(p)'
<1>1. proc[p].pc \in Erasing
  BY PcSets DEF EraserStep, EraseRows, EraseCopies, Withdraw, EraseExports, Sweep, Rewrite, Reset,
     Residue, Reclaim
<1>2. proc[p].source = "" /\ proc[p].tool \in Erasers
  BY <1>1, NoKey, PcSets DEF Locks, Post, Aim
<1>3. CASE Leaves(p)
  BY <1>3, LeavesHasKey
<1>4. CASE Moves(p, Walking)
  <2>1. proc'[p].source = "" /\ proc'[p].tool \in Erasers
    BY <1>2, <1>4, WalkingFields
  <2>2. Aim(p)' \notin Laddering
    BY <2>1 DEF Locks, Post, Binding, Erasers
  <2>3. Aim(p)' \notin Rungs /\ proc'[p].pc \notin Making
    BY <2>2, PcSets, RungSets DEF Aim
  <2> QED
    BY <2>1, <2>3 DEF HasKey, Sources
<1> QED
  BY <1>3, <1>4, EraserWalks

LEMMA AsleepHasKey ==
  ASSUME Calls, Locks, NEW p \in Procs, HasKey(p), Step(p), proc[p].pc \in Asleep
  PROVE  HasKey(p)'
<1>1. proc[p].source = ""
  BY NoKey
<1>2. CASE Leaves(p)
  BY <1>2, LeavesHasKey
<1>3. ASSUME proc'[p].pc \in {"lock", "mode"}, proc'[p].source = ""
      PROVE  HasKey(p)'
  <2>1. Aim(p)' \notin Rungs /\ proc'[p].pc \notin Making
    BY <1>3, PcSets, RungSets DEF Aim
  <2> QED
    BY <1>3, <2>1 DEF HasKey, Sources
<1>4. CASE \E tool \in sc.tools : Call(p, tool)
  <2>1. Moves(p, {"pc", "tool", "why"}) /\ proc'[p].pc = "lock"
    BY <1>4, CallMoves
  <2>2. proc'[p].source = proc[p].source
    BY <2>1 DEF Moves, Fields
  <2> QED
    BY <1>1, <1>3, <2>1, <2>2
<1>5. CASE TakeLock(p)
  <2>1. \E x : LockTo(p, "mode", x)
    BY <1>5 DEF TakeLock, LockTo
  <2>2. Moves(p, {"pc", "lock"}) /\ proc'[p].pc = "mode"
    BY <2>1, LockMoves
  <2>3. proc'[p].source = proc[p].source
    BY <2>2 DEF Moves, Fields
  <2> QED
    BY <1>1, <1>3, <2>2, <2>3
<1> QED
  BY <1>2, <1>4, <1>5, StepWorks DEF Worked

LEMMA StepKeepsKey ==
  ASSUME Calls, Locks, Locks', NEW p \in Procs, HasKey(p), Step(p)
  PROVE  HasKey(p)'
<1>1. CASE proc[p].pc \in Asleep
  BY <1>1, AsleepHasKey
<1>2. CASE LadderStep(p)
  <2>1. \/ \/ Lift(p) \/ ResolveKey(p) \/ ConfirmAbsent(p) \/ StartLine(p) \/ EndLine(p)
           \/ Create(p) \/ Answer(p) \/ ReadBack(p)
        \/ proc[p].pc \in Rungs \cup {"vanished", "accept"}
    BY <1>2, RungSets DEF LadderStep, Credential, WiredApp, ReadBinding, List, Recognise, Search,
       Keyed, Register, Verify, Health, Vanished, Accept
  <2> QED
    BY <1>2, <2>1, EarlyHasKey, LateHasKey
<1>3. CASE OtherStep(p)
  BY <1>3, OpeningHasKey
<1>4. CASE EraserStep(p) \/ EraseRows(p)
  BY <1>4, EraserHasKey
<1>5. CASE Leaves(p)
  BY <1>5, LeavesHasKey
<1> QED
  BY <1>1, <1>2, <1>3, <1>4, <1>5, StepWorks, PcSets DEF Call, TakeLock

\* Of the steps of the calls only the sweep of an eraser takes items away.
LEMMA VaultStays ==
  ASSUME NEW p, Step(p), ~Sweep(p)
  PROVE  UNCHANGED vault
<1>1. CASE LadderStep(p)
  BY <1>1 DEF LadderStep, Lift, ResolveKey, ConfirmAbsent, StartLine, EndLine, Create, Answer,
     ReadBack, Credential, WiredApp, ReadBinding, List, Recognise, Search, Keyed, Register,
     Verify, Health, Vanished, Accept
<1>2. CASE OtherStep(p)
  BY <1>2 DEF OtherStep, CheckMode, CheckFence, TakeOpenLock, OpenBusy, OpenFile, Schema, Snapshot,
     Migrate, Mint, Mark, Sign, Write, Stage, Publish
<1>3. CASE EraserStep(p) \/ EraseRows(p)
  BY <1>3 DEF EraseRows, EraserStep, EraseCopies, Withdraw, EraseExports, Rewrite, Reset,
     Residue, Reclaim
<1>4. CASE \/ Crash(p) \/ TakeLock(p) \/ Busy(p)
           \/ \E mode \in Modes : Spawn(p, mode)
           \/ \E tool \in sc.tools : Call(p, tool)
  BY <1>4 DEF Crash, TakeLock, Busy, Spawn, Call
<1> QED
  BY <1>1, <1>2, <1>3, <1>4 DEF Step, LadderStep, OtherStep, EraserStep

LEMMA OthersKeepKeys ==
  ASSUME Calls, Locks, NEW p \in Procs, Step(p), NEW q \in Procs \ {p}, HasKey(q)
  PROVE  HasKey(q)'
<1>1. proc'[q] = proc[q]
  BY StepAlone
<1>2. Aim(q)' = Aim(q)
  BY <1>1 DEF Aim
<1>3. CASE Sweep(p)
  <2>1. proc[p].pc \in Erasing
    BY <1>3, PcSets DEF Sweep
  <2>2. proc[q].pc \in Asleep
    BY <2>1, EraserAlone
  <2>3. proc[q].source = ""
    BY <2>2, NoKey
  <2> QED
    BY <1>1, <1>2, <2>3 DEF HasKey
<1>4. CASE ~Sweep(p)
  BY <1>1, <1>2, <1>4, VaultStays DEF HasKey, Items
<1> QED
  BY <1>3, <1>4

\* Only a registration adds to the panel.
LEMMA PanelStays ==
  ASSUME NEW p, Step(p), ~Register(p)
  PROVE  UNCHANGED panel
<1>1. CASE LadderStep(p)
  BY <1>1 DEF LadderStep, Lift, ResolveKey, ConfirmAbsent, StartLine, EndLine, Create, Answer,
     ReadBack, Credential, WiredApp, ReadBinding, List, Recognise, Search, Keyed,
     Verify, Health, Vanished, Accept
<1>2. CASE OtherStep(p)
  BY <1>2 DEF OtherStep, CheckMode, CheckFence, TakeOpenLock, OpenBusy, OpenFile, Schema, Snapshot,
     Migrate, Mint, Mark, Sign, Write, Stage, Publish
<1>3. CASE EraserStep(p) \/ EraseRows(p)
  BY <1>3 DEF EraseRows, EraserStep, EraseCopies, Withdraw, EraseExports, Sweep, Rewrite, Reset,
     Residue, Reclaim
<1>4. CASE \/ Crash(p) \/ TakeLock(p) \/ Busy(p)
           \/ \E mode \in Modes : Spawn(p, mode)
           \/ \E tool \in sc.tools : Call(p, tool)
  BY <1>4 DEF Crash, TakeLock, Busy, Spawn, Call
<1> QED
  BY <1>1, <1>2, <1>3, <1>4 DEF Step, LadderStep, OtherStep, EraserStep

Made(p) == [id |-> issued.app + 1, world |-> proc[p].mode, key |-> proc[p].key,
            ours |-> TRUE, listed |-> TRUE]

LEMMA RegisterAdds ==
  ASSUME NEW p, Register(p)
  PROVE  /\ UNCHANGED <<disk, vault, hist>> /\ proc[p].pc = "register"
         /\ \/ UNCHANGED panel
            \/ Rereadable(p) /\ panel' = panel \cup {Made(p)}
BY DEF Register, Made

LEMMA StepKeepsApps ==
  ASSUME \A a \in panel : IsApp(a), NEW p, Step(p)
  PROVE  \A a \in panel' : IsApp(a)
<1>1. IsApp(Made(p))
  BY DEF IsApp, Made
<1> QED
  BY <1>1, PanelStays, RegisterAdds

\* The provider's list changes without new ids.
LEMMA PanelMoves ==
  ASSUME \A a \in panel : IsApp(a), NEW a \in panel, Flap(a) \/ Drift(a)
  PROVE  /\ \A b \in panel' : IsApp(b)
         /\ \A b \in panel' : b.id \in {c.id : c \in panel}
<1>1. PICK b : /\ panel' = (panel \ {a}) \cup {b}
               /\ b = [a EXCEPT !.listed = ~@] \/ b = [a EXCEPT !.ours = FALSE]
  BY DEF Flap, Drift
<1>2. IsApp(b) /\ b.id = a.id
  <2>1. IsApp(a)
    OBVIOUS
  <2> QED
    BY <1>1, <2>1 DEF IsApp
<1> QED
  BY <1>1, <1>2

LEMMA NextKeepsKeys ==
  ASSUME Installed, Locks', Keys, [Next]_vars
  PROVE  Keys'
<1>1. Calls /\ Locks
  BY DEF Installed, Shapes
<1>2. ASSUME UNCHANGED proc, vault \subseteq vault'
      PROVE  \A p \in Procs : HasKey(p)'
  <2> SUFFICES ASSUME NEW p \in Procs
               PROVE  HasKey(p)'
    OBVIOUS
  <2>1. \A title : Items(title) \subseteq Items(title)'
    BY <1>2 DEF Items
  <2> QED
    BY <1>2, <2>1 DEF Keys, HasKey, Aim
<1>3. CASE \E p \in sc.procs : Step(p)
  <2>1. PICK p \in Procs : Step(p)
    BY <1>3, ProcsOfScenario
  <2>2. \A q \in Procs : HasKey(q)'
    BY <1>1, <2>1, StepKeepsKey, OthersKeepKeys DEF Keys
  <2>3. \A a \in panel' : IsApp(a)
    BY <2>1, StepKeepsApps DEF Keys
  <2> QED
    BY <2>2, <2>3 DEF Keys, IsApp
<1>4. CASE \E kid \in kids : ChildEnds(kid)
  <2>1. UNCHANGED <<proc, panel>> /\ vault \subseteq vault'
    BY <1>4 DEF ChildEnds
  <2> QED
    BY <1>2, <2>1 DEF Keys, IsApp
<1>5. CASE \E a \in panel : Flap(a) \/ Drift(a)
  <2>1. UNCHANGED <<proc, vault>>
    BY <1>5 DEF Flap, Drift
  <2>2. \A b \in panel' : IsApp(b)
    BY <1>5, PanelMoves DEF Keys
  <2> QED
    BY <1>2, <2>1, <2>2 DEF Keys, IsApp
<1>6. CASE ClearMarker \/ UNCHANGED vars
  <2>1. UNCHANGED <<proc, panel, vault>>
    BY <1>6 DEF ClearMarker, vars
  <2> QED
    BY <1>2, <2>1 DEF Keys, IsApp
<1> QED
  BY <1>3, <1>4, <1>5, <1>6 DEF Next

LEMMA InitKeys ==
  ASSUME Init
  PROVE  Keys
<1>1. \A p \in Procs : proc[p] = Down
  BY DEF Init
<1>2. \A p \in Procs : HasKey(p)
  BY <1>1, DownFields, PcSets, RungSets DEF HasKey, Aim, Sources
<1>3. \A a \in panel : IsApp(a)
  BY DEF Init, IsApp
<1> QED
  BY <1>2, <1>3 DEF Keys

\* What appears in the panel, and by whose step.
LEMMA WhoRegisters ==
  ASSUME Installed, Keys, [Next]_vars, NEW a \in Registered
  PROVE  \E p \in Procs : Register(p) /\ Rereadable(p) /\ a = Made(p)
<1>1. panel' # panel
  BY DEF Registered
<1>2. CASE \E p \in sc.procs : Step(p)
  <2>1. PICK p \in Procs : Step(p)
    BY <1>2, ProcsOfScenario
  <2>2. Register(p)
    BY <1>1, <2>1, PanelStays
  <2>3. Rereadable(p) /\ panel' = panel \cup {Made(p)}
    BY <1>1, <2>2, RegisterAdds
  <2> QED
    BY <2>2, <2>3 DEF Registered
<1>3. CASE \E b \in panel : Flap(b) \/ Drift(b)
  BY <1>3, PanelMoves DEF Keys, Registered
<1> QED
  BY <1>1, <1>2, <1>3 DEF Next, ChildEnds, ClearMarker, vars

\* No application is registered with a key that is not in the vault under the
\* key item's title while it is registered: the key of a call that may register
\* came from there, and no eraser can take it away under the call's shared lock
\* (bank_feed_server's lifecycle lock, register_app's re-read).
THEOREM RegisteredKeyAlwaysReadable == Spec => RegisteredKeyIsReadable
<1>1. Init => Installed /\ Keys
  BY InitInstalled, InitKeys
<1>2. (Installed /\ Keys) /\ [Next]_vars => (Installed /\ Keys)'
  <2> SUFFICES ASSUME Installed, Keys, [Next]_vars
               PROVE  Installed' /\ Keys'
    OBVIOUS
  <2>1. Installed' /\ Locks'
    BY NextKeeps DEF Installed
  <2> QED
    BY <2>1, NextKeepsKeys
<1>3. (Installed /\ Keys) /\ [Next]_vars =>
        [\A a \in Registered : \E i \in Items(KeyItem(a.world)) : i.key = a.key]_vars
  <2> SUFFICES ASSUME Installed, Keys, [Next]_vars, NEW a \in Registered
               PROVE  \E i \in Items(KeyItem(a.world)) : i.key = a.key
    OBVIOUS
  <2>1. PICK p \in Procs : Register(p) /\ Rereadable(p) /\ a = Made(p)
    BY WhoRegisters
  <2>2. a.world = proc[p].mode /\ a.key = proc[p].key
    BY <2>1 DEF Made
  <2>3. HasKey(p) /\ Aim(p) \in Rungs
    BY <2>1, PcSets, RungSets DEF Keys, Register, Aim
  <2>4. proc[p].source \in {"env", "vault", "forged"}
    BY <2>3 DEF HasKey, Sources
  <2>5. CASE proc[p].source = "env"
    BY <2>1, <2>2, <2>5 DEF Rereadable
  <2>6. CASE proc[p].source \in {"vault", "forged"}
    BY <2>2, <2>3, <2>6 DEF HasKey
  <2> QED
    BY <2>4, <2>5, <2>6
<1> QED
  BY <1>1, <1>2, <1>3, PTL DEF Spec, RegisteredKeyIsReadable

-----------------------------------------------------------------------------
(* The binding: which application a ledger names, and whether it may be    *)
(* replaced.                                                               *)

\* Neither changes, no ledger goes, and the grants are as they were.
SameBinding ==
  /\ \A m \in Modes :
       /\ disk'.ledger[m].app = disk.ledger[m].app
       /\ disk'.ledger[m].accepted = disk.ledger[m].accepted
       /\ disk.ledger[m].there => disk'.ledger[m].there
  /\ hist'.grants = hist.grants

\* An acceptance in a ledger is one that was given and still stands.
Vouched ==
  \A m \in Modes :
    /\ disk.ledger[m].there => disk'.ledger[m].there
    /\ \/ disk'.ledger[m].accepted = 0
       \/ /\ disk'.ledger[m].accepted = disk.ledger[m].accepted
          /\ hist.grants \subseteq hist'.grants
       \/ disk.ledger[m].there /\ disk'.ledger[m].accepted \in hist'.grants

LEMMA SameIsVouched ==
  ASSUME SameBinding
  PROVE  Vouched
BY DEF SameBinding, Vouched

LEMMA WroteRow ==
  ASSUME IsDisk(disk), Calls, NEW p \in Procs, NEW l, IsLedger(l), WriteLedger(p, l)
  PROVE  /\ disk'.ledger[proc[p].mode] = l /\ proc[p].mode \in Modes
         /\ \A m \in Modes \ {proc[p].mode} : disk'.ledger[m] = disk.ledger[m]
BY LedgerEffect DEF Calls

\* The updates of a ledger that leave its binding alone.
SameUpdate(c, l) ==
  \E x, y :
    \/ l = [c EXCEPT !.there = TRUE]
    \/ l = [c EXCEPT !.tables = x]
    \/ l = [c EXCEPT !.version = x]
    \/ l = [c EXCEPT !.tables = x, !.version = y]
    \/ l = [c EXCEPT !.instance = x]
    \/ l = [c EXCEPT !.data = x]
    \/ l = [c EXCEPT !.fence = x]
    \/ l = [c EXCEPT !.consents = x]
    \/ l = [c EXCEPT !.data = x, !.fence = TRUE, !.instance = y]

LEMMA SameRow ==
  ASSUME NEW c, IsLedger(c), NEW l, SameUpdate(c, l)
  PROVE  /\ IsLedger(l) /\ l.app = c.app /\ l.accepted = c.accepted
         /\ c.there => l.there
BY DEF IsLedger, SameUpdate

LEMMA BoundRow ==
  ASSUME NEW c, IsLedger(c), NEW l, NEW x, l = [c EXCEPT !.app = x]
  PROVE  IsLedger(l) /\ l.app = x /\ l.accepted = c.accepted /\ l.there = c.there
BY DEF IsLedger

LEMMA BoundAliveRow ==
  ASSUME NEW c, IsLedger(c), NEW l, NEW x, l = [c EXCEPT !.app = x, !.accepted = 0]
  PROVE  IsLedger(l) /\ l.app = x /\ l.accepted = 0 /\ l.there = c.there
BY DEF IsLedger

LEMMA AcceptedRow ==
  ASSUME NEW c, IsLedger(c), NEW l, NEW x, l = [c EXCEPT !.accepted = x]
  PROVE  IsLedger(l) /\ l.app = c.app /\ l.accepted = x /\ l.there = c.there
BY DEF IsLedger

LEMMA WipedRow ==
  ASSUME NEW c, IsLedger(c), NEW l, NEW x,
         \/ l = [c EXCEPT !.data = FALSE, !.fence = FALSE, !.accepted = 0, !.instance = x]
         \/ l = [c EXCEPT !.app = 0, !.accepted = 0, !.fence = FALSE, !.instance = x]
  PROVE  IsLedger(l) /\ l.accepted = 0 /\ l.there = c.there
BY DEF IsLedger

LEMMA SameWrite ==
  ASSUME IsDisk(disk), Calls, NEW p \in Procs, UNCHANGED hist, NEW l, WriteLedger(p, l),
         SameUpdate(Ledger(p), l)
  PROVE  SameBinding
<1>1. /\ IsLedger(l) /\ l.app = Ledger(p).app /\ l.accepted = Ledger(p).accepted
      /\ Ledger(p).there => l.there
  BY RowsShape, SameRow
<1> QED
  BY <1>1, WroteRow DEF SameBinding, Ledger

LEMMA SameFilesSame ==
  ASSUME IsDisk(disk), UNCHANGED hist, disk'.ledger = disk.ledger
  PROVE  SameBinding
BY DEF SameBinding

LEMMA LooseFiles ==
  ASSUME IsDisk(disk), NEW d, NEW x, NEW y,
         \/ d = [disk EXCEPT !.snapshots = x]
         \/ d = [disk EXCEPT !.staging = x]
         \/ d = [disk EXCEPT !.staging = x, !.published = y]
         \/ d = [disk EXCEPT !.published = x, !.staging = y]
         \/ d = [disk EXCEPT !.copies = x, !.snapshots = y]
         \/ d = [disk EXCEPT !.marker = x]
         \/ d = [disk EXCEPT !.record = x]
  PROVE  d.ledger = disk.ledger
BY DEF IsDisk

LEMMA LooseRecord ==
  ASSUME IsDisk(disk), NEW d, NEW x, NEW y,
         \/ d = [disk EXCEPT !.record.torn = x]
         \/ d = [disk EXCEPT !.record.torn = x, !.record.lines = y]
         \/ d = [disk EXCEPT !.record.copy = x]
         \/ d = [disk EXCEPT !.record.copy = x, !.record.torn = y]
  PROVE  d.ledger = disk.ledger
<1>1. \E r : d = [disk EXCEPT !.record = r]
  BY DEF IsDisk
<1> QED
  BY <1>1, LooseFiles

-----------------------------------------------------------------------------
(* Which steps leave every binding alone.                                  *)

LEMMA OtherIsSame ==
  ASSUME Installed, NEW p \in Procs, OtherStep(p)
  PROVE  SameBinding
<1>1. IsDisk(disk) /\ Calls
  BY DEF Installed, Shapes
<1>2. CASE UNCHANGED <<disk, hist>>
  BY <1>1, <1>2, SameFilesSame
<1>3. CASE CheckMode(p) \/ CheckFence(p) \/ TakeOpenLock(p) \/ OpenBusy(p)
  BY <1>2, <1>3 DEF CheckMode, CheckFence, TakeOpenLock, OpenBusy
<1>4. CASE OpenFile(p)
  <2>1. WriteLedger(p, [Ledger(p) EXCEPT !.there = TRUE]) /\ UNCHANGED hist
    BY <1>4 DEF OpenFile
  <2>2. \A c : SameUpdate(c, [c EXCEPT !.there = TRUE])
    BY Zenon DEF SameUpdate
  <2> QED
    BY <1>1, <2>1, <2>2, SameWrite
<1>5. CASE Schema(p)
  <2>1. WriteLedger(p, SchemaStep(Ledger(p))) /\ UNCHANGED hist
    BY <1>5 DEF Schema
  <2>2. \A c : SameUpdate(c, SchemaStep(c))
    <3> TAKE c
    <3>1. CASE c.tables < Tables
      BY <3>1 DEF SchemaStep, SameUpdate
    <3>2. CASE ~(c.tables < Tables)
      BY <3>2 DEF SchemaStep, SameUpdate
    <3> QED
      BY <3>1, <3>2
  <2> QED
    BY <1>1, <2>1, <2>2, SameWrite
<1>6. CASE Snapshot(p)
  <2>1. UNCHANGED hist /\ (UNCHANGED disk \/ disk' = [disk EXCEPT !.snapshots = TRUE])
    BY <1>6 DEF Snapshot
  <2> QED
    BY <1>1, <1>2, <2>1, LooseFiles, SameFilesSame
<1>7. CASE Migrate(p)
  <2>1. /\ UNCHANGED hist
        /\ \/ UNCHANGED disk
           \/ WriteLedger(p, [Ledger(p) EXCEPT !.tables = Tables, !.version = Current])
    BY <1>7 DEF Migrate
  <2>2. \A c : SameUpdate(c, [c EXCEPT !.tables = Tables, !.version = Current])
    BY Zenon DEF SameUpdate
  <2> QED
    BY <1>1, <1>2, <2>1, <2>2, SameWrite
<1>8. CASE Mint(p)
  <2>1. /\ UNCHANGED hist
        /\ \/ UNCHANGED disk
           \/ WriteLedger(p, [Ledger(p) EXCEPT !.instance = issued.instance + 1])
    BY <1>8 DEF Mint
  <2>2. \A c, x : SameUpdate(c, [c EXCEPT !.instance = x])
    BY Zenon DEF SameUpdate
  <2> QED
    BY <1>1, <1>2, <2>1, <2>2, SameWrite
<1>9. CASE Mark(p) \/ Sign(p)
  <2>1. UNCHANGED hist /\ (UNCHANGED disk \/ \E x : disk' = [disk EXCEPT !.marker = x])
    BY <1>9 DEF Mark, Sign
  <2> QED
    BY <1>1, <1>2, <2>1, LooseFiles, SameFilesSame
<1>10. CASE Write(p)
  <2> DEFINE l == [Ledger(p) EXCEPT !.data = TRUE]
  <2>1. UNCHANGED hist /\ \E x : WriteData(p, l, x)
    BY <1>10 DEF Write, WriteData
  <2>2. SameUpdate(Ledger(p), l)
    BY Zenon DEF SameUpdate
  <2> HIDE DEF l
  <2>3. /\ IsLedger(l) /\ l.app = Ledger(p).app /\ l.accepted = Ledger(p).accepted
        /\ Ledger(p).there => l.there
    BY <1>1, <2>2, RowsShape, SameRow
  <2>4. /\ disk'.ledger[proc[p].mode] = l
        /\ \A m \in Modes \ {proc[p].mode} : disk'.ledger[m] = disk.ledger[m]
    BY <1>1, <2>1, <2>3, DataEffect DEF Calls
  <2> QED
    BY <2>1, <2>3, <2>4 DEF SameBinding, Ledger
<1>11. CASE Stage(p) \/ Publish(p)
  <2>1. /\ UNCHANGED hist
        /\ \E x : \/ disk' = [disk EXCEPT !.staging = x]
                  \/ disk' = [disk EXCEPT !.staging = x, !.published = TRUE]
    BY <1>11 DEF Stage, Publish
  <2> QED
    BY <1>1, <2>1, LooseFiles, SameFilesSame
<1> QED
  BY <1>3, <1>4, <1>5, <1>6, <1>7, <1>8, <1>9, <1>10, <1>11 DEF OtherStep

LEMMA EraserIsVouched ==
  ASSUME Installed, NEW p \in Procs, EraserStep(p) \/ EraseRows(p)
  PROVE  Vouched
<1>1. IsDisk(disk) /\ Calls
  BY DEF Installed, Shapes
<1>2. CASE UNCHANGED <<disk, hist>>
  BY <1>1, <1>2, SameFilesSame, SameIsVouched
<1>3. ASSUME NEW d, d.ledger = disk.ledger, disk' = d, UNCHANGED hist
      PROVE  Vouched
  BY <1>1, <1>3, SameFilesSame, SameIsVouched
<1>4. ASSUME NEW l, IsLedger(l), l.accepted = 0, l.there = Ledger(p).there, WriteLedger(p, l),
             UNCHANGED hist
      PROVE  Vouched
  BY <1>1, <1>4, WroteRow DEF Vouched, Ledger
<1>5. CASE EraseRows(p)
  <2>1. UNCHANGED hist /\ (UNCHANGED disk \/ WriteLedger(p, Emptied(p)))
    BY <1>5 DEF EraseRows
  <2> DEFINE c == Ledger(p)
  <2>2. CASE WriteLedger(p, Emptied(p)) /\ proc[p].tool = "erase_all"
    <3> DEFINE l == Emptied(p)
    <3>1. l = [c EXCEPT !.data = FALSE, !.fence = FALSE, !.accepted = 0,
                        !.instance = issued.instance + 1]
      BY <2>2 DEF Emptied
    <3> HIDE DEF l
    <3>2. IsLedger(l) /\ l.accepted = 0 /\ l.there = c.there
      <4> HIDE DEF c
      <4>1. IsLedger(c)
        BY <1>1, RowsShape DEF c
      <4> QED
        BY <3>1, <4>1, WipedRow
    <3> QED
      BY <1>4, <2>1, <2>2, <3>2 DEF l
  <2>3. CASE WriteLedger(p, Emptied(p)) /\ proc[p].tool # "erase_all"
    <3>1. Emptied(p) = [c EXCEPT !.data = FALSE, !.fence = TRUE, !.instance = issued.instance + 1]
      BY <2>3 DEF Emptied
    <3>2. SameUpdate(c, Emptied(p))
      BY <3>1, Zenon DEF SameUpdate
    <3> QED
      BY <1>1, <2>1, <2>3, <3>2, SameWrite, SameIsVouched
  <2> QED
    BY <1>2, <2>1, <2>2, <2>3
<1>6. CASE EraseCopies(p) \/ EraseExports(p)
  <2>1. /\ UNCHANGED hist
        /\ \/ UNCHANGED disk
           \/ disk' = [disk EXCEPT !.copies = FALSE, !.snapshots = FALSE]
           \/ disk' = [disk EXCEPT !.published = FALSE, !.staging = FALSE]
    BY <1>6 DEF EraseCopies, EraseExports, Attempt
  <2> QED
    BY <1>1, <1>2, <1>3, <2>1, LooseFiles
<1>7. CASE Withdraw(p)
  <2>1. /\ UNCHANGED hist
        /\ UNCHANGED disk \/ WriteLedger(p, [Ledger(p) EXCEPT !.consents = FALSE])
    BY <1>7 DEF Withdraw
  <2>2. \A c : SameUpdate(c, [c EXCEPT !.consents = FALSE])
    BY Zenon DEF SameUpdate
  <2> QED
    BY <1>1, <1>2, <2>1, <2>2, SameWrite, SameIsVouched
<1>8. CASE Sweep(p) \/ Rewrite(p)
  <2>1. /\ UNCHANGED hist
        /\ \/ UNCHANGED disk
           \/ \E x, y : \/ disk' = [disk EXCEPT !.record.copy = x, !.record.torn = y]
                        \/ disk' = [disk EXCEPT !.record.copy = x]
           \/ \E x : disk' = [disk EXCEPT !.record = x]
    BY <1>8 DEF Sweep, Rewrite
  <2> QED
    BY <1>1, <1>2, <1>3, <2>1, LooseFiles, LooseRecord
<1>9. CASE Reset(p)
  <2> DEFINE c == Ledger(p)
  <2> DEFINE l == [c EXCEPT !.app = 0, !.accepted = 0, !.fence = FALSE,
                            !.instance = issued.instance + 1]
  <2>1. UNCHANGED hist /\ (UNCHANGED disk \/ WriteLedger(p, l))
    BY <1>9 DEF Reset, Attempt, WriteLedger
  <2>2. l = [c EXCEPT !.app = 0, !.accepted = 0, !.fence = FALSE,
                      !.instance = issued.instance + 1]
    OBVIOUS
  <2> HIDE DEF l
  <2>3. IsLedger(l) /\ l.accepted = 0 /\ l.there = c.there
    <3> HIDE DEF c
    <3>1. IsLedger(c)
      BY <1>1, RowsShape DEF c
    <3> QED
      BY <2>2, <3>1, WipedRow
  <2> QED
    BY <1>2, <1>4, <2>1, <2>3
<1>10. CASE Residue(p)
  <2>1. UNCHANGED hist /\ (UNCHANGED disk \/ disk' = [disk EXCEPT !.snapshots = FALSE])
    BY <1>10 DEF Residue
  <2> QED
    BY <1>1, <1>2, <1>3, <2>1, LooseFiles
<1>11. CASE Reclaim(p)
  BY <1>2, <1>11 DEF Reclaim
<1> QED
  BY <1>5, <1>6, <1>7, <1>8, <1>9, <1>10, <1>11 DEF EraserStep

\* The places between the reading of the binding and its replacement.
Choosing == {"list", "bind", "keyed", "register"}

LEMMA ChoosingSet == Choosing = {"list", "bind", "keyed", "register"}
BY DEF Choosing

\* A call holds a connection where it has a key and where an acceptance is given.
Linked(p) ==
  /\ proc[p].source # "" => proc[p].pc \in Inside \/ proc[p].conn
  /\ proc[p].pc \in {"vanished", "accept"} => proc[p].conn

\* What a call has read of the binding is still so, and where it may register
\* nothing of ours was shown to it.
Chooses(p) ==
  /\ proc[p].pc \in Choosing => proc[p].rec = Ledger(p).app
  /\ proc[p].pc = "bind" => IsFiniteSet(proc[p].seen)
  /\ proc[p].pc \in {"keyed", "register"} => proc[p].rec \in {0, Ledger(p).accepted}
  /\ proc[p].pc = "register" => Matches(p) = {}

Binds(p) == proc[p].lock # "none" /\ proc[p].tool \in Binding
Single == \A p, q \in Procs : Binds(p) /\ Binds(q) => p = q
Granted == \A m \in Modes : disk.ledger[m].accepted \in hist.grants \cup {0}
Unaccepted == \A m \in Modes : ~disk.ledger[m].there => disk.ledger[m].accepted = 0

Rightful ==
  /\ hist = [overlap |-> hist.overlap, grants |-> hist.grants]
  /\ IsFiniteSet(panel)
  /\ Unaccepted
  /\ \A p \in Procs : Linked(p)
  /\ ~hist.overlap => Single /\ Granted /\ \A p \in Procs : Chooses(p)

LEMMA SteadyMoves ==
  ASSUME NEW p, Moves(p, Works \ {"conn", "source", "key"})
  PROVE  /\ proc'[p].conn = proc[p].conn /\ proc'[p].source = proc[p].source
         /\ proc'[p].lock = proc[p].lock /\ proc'[p].tool = proc[p].tool
         /\ proc'[p].mode = proc[p].mode
BY DEF Moves, Works, Fields

\* A step on the same connection and with the same key.
Steady(p, pcs) == Moves(p, Works \ {"conn", "source", "key"}) /\ proc'[p].pc \in pcs

LEMMA GotoSteady ==
  ASSUME Calls, NEW p \in Procs, NEW pc,
         \/ Goto(p, pc)
         \/ \E x : RecTo(p, pc, x) \/ SeenTo(p, pc, x) \/ OkTo(p, pc, x) \/ NonceTo(p, pc, x)
  PROVE  Steady(p, {pc})
<1>1. \/ Moves(p, {"pc"}) \/ Moves(p, {"pc", "rec"}) \/ Moves(p, {"pc", "seen"})
      \/ Moves(p, {"pc", "ok"}) \/ Moves(p, {"pc", "nonce"})
  BY GotoMoves, RecMoves, SeenMoves, OkMoves, NonceMoves
<1>2. proc'[p].pc = pc
  BY GotoMoves, RecMoves, SeenMoves, OkMoves, NonceMoves
<1> QED
  BY <1>1, <1>2 DEF Steady, Moves, Works

LEMMA OpenedSteady ==
  ASSUME Calls, NEW p \in Procs, NEW pc, Opened(p, pc) \/ Towards(p, pc)
  PROVE  Steady(p, {"open", "record", pc})
<1>1. Moves(p, {"pc", "next"}) \/ Moves(p, {"pc", "item"})
  BY OpenedMoves, TowardsMoves
<1>2. proc'[p].pc \in {"open", "record", pc}
  BY OpenedMoves, TowardsMoves
<1> QED
  BY <1>1, <1>2 DEF Steady, Moves, Works

\* Where the ladder leads to.
Turns(p) ==
  \/ Leaves(p)
  \/ Steady(p, {"key", "lift", "open", "absent", "record", "line", "create", "waiting", "readback",
                "app", "health", "verify"})
  \/ Steady(p, {"accept"}) /\ Vanished(p)
  \/ Steady(p, Choosing) /\ (ReadBinding(p) \/ List(p) \/ Search(p))
  \/ /\ proc'[p].pc = "open" \/ (proc[p].conn /\ proc'[p].pc = "cred")
     /\ \E source, key : Resolved(p, source, key)

LEMMA LadderTurns ==
  ASSUME Calls, NEW p \in Procs, LadderStep(p)
  PROVE  Turns(p)
<1> DEFINE Along == {"key", "lift", "open", "absent", "record", "line", "create", "waiting",
                     "readback", "app", "health", "verify"}
<1>1. ASSUME NEW pc \in Along,
             \/ Goto(p, pc)
             \/ \E x : RecTo(p, pc, x) \/ NonceTo(p, pc, x)
      PROVE  Turns(p)
  <2>1. Steady(p, {pc})
    BY <1>1, GotoSteady
  <2>2. Steady(p, Along)
    BY <1>1, <2>1 DEF Steady
  <2> QED
    BY <2>2 DEF Turns
<1>2. ASSUME NEW why, Return(p, why) \/ Stop(p)
      PROVE  Turns(p)
  BY <1>2, ReturnLeaves, StopLeaves DEF Turns
<1>3. ASSUME NEW source, NEW key, Resolved(p, source, key)
      PROVE  Turns(p)
  BY <1>3, ResolvedMoves DEF Turns
<1>4. ASSUME NEW x, Towards(p, x), x \in {"key", "credential"}
      PROVE  Turns(p)
  <2>1. proc'[p].pc = "record" /\ Steady(p, {"open", "record", x})
    BY <1>4, OpenedSteady, TowardsMoves
  <2>2. Steady(p, Along)
    BY <2>1 DEF Steady
  <2> QED
    BY <2>2 DEF Turns
<1>5. /\ "key" \in Along /\ "lift" \in Along /\ "open" \in Along /\ "absent" \in Along
      /\ "record" \in Along /\ "line" \in Along /\ "create" \in Along /\ "waiting" \in Along
      /\ "readback" \in Along /\ "app" \in Along /\ "health" \in Along /\ "verify" \in Along
  OBVIOUS
<1>6. CASE Lift(p)
  <2>1. Goto(p, "key") \/ Opened(p, "lift")
    BY <1>6 DEF Lift
  <2>2. CASE Opened(p, "lift")
    <3>1. /\ Steady(p, {"open", "record", "lift"})
          /\ proc'[p].pc = "open" \/ proc'[p].pc = "lift"
      BY <2>2, OpenedSteady, OpenedMoves
    <3>2. Steady(p, Along)
      BY <3>1 DEF Steady
    <3> QED
      BY <3>2 DEF Turns
  <2> HIDE DEF Along
  <2> QED
    BY <1>1, <1>5, <2>1, <2>2
<1>7. ASSUME NotCreated(p)
      PROVE  Turns(p)
  BY <1>1, <1>2, <1>7 DEF NotCreated
<1> HIDE DEF Along
<1>8. CASE ResolveKey(p)
  BY <1>1, <1>2, <1>3, <1>5, <1>8 DEF ResolveKey
<1>9. CASE ConfirmAbsent(p) \/ Answer(p) \/ ReadBack(p)
  BY <1>1, <1>2, <1>3, <1>4, <1>5, <1>7, <1>9 DEF ConfirmAbsent, Answer, ReadBack
<1>10. CASE StartLine(p)
  <2>1. NonceTo(p, "line", issued.nonce + 1)
    BY <1>10 DEF StartLine, NonceTo
  <2> QED
    BY <1>1, <1>5, <2>1
<1>11. CASE EndLine(p) \/ Create(p)
  BY <1>1, <1>5, <1>7, <1>11 DEF EndLine, Create
<1>12. CASE Credential(p)
  <2>1. Stop(p) \/ Towards(p, "credential") \/ Goto(p, "app")
    BY <1>12 DEF Credential
  <2> QED
    BY <1>1, <1>2, <1>4, <1>5, <2>1
<1>13. CASE WiredApp(p) \/ Recognise(p)
  BY <1>1, <1>2, <1>5, <1>13 DEF WiredApp, Recognise
<1>14. CASE Keyed(p) \/ Verify(p)
  BY <1>1, <1>2, <1>5, <1>14 DEF Keyed, Mismatch, Verify
<1>15. CASE Health(p) \/ Accept(p)
  BY <1>2, <1>15 DEF Health, Accept
<1>16. CASE ReadBinding(p)
  <2>1. \E x : RecTo(p, "list", x)
    BY <1>16 DEF ReadBinding, RecTo
  <2>2. Steady(p, {"list"})
    BY <2>1, GotoSteady
  <2>3. Steady(p, Choosing)
    BY <2>2, ChoosingSet DEF Steady
  <2> QED
    BY <1>16, <2>3 DEF Turns
<1>17. CASE List(p)
  <2>1. Stop(p) \/ \E x : SeenTo(p, "bind", x)
    BY <1>17 DEF List, SeenTo
  <2>2. CASE \E x : SeenTo(p, "bind", x)
    <3>1. Steady(p, {"bind"})
      BY <2>2, GotoSteady
    <3>2. Steady(p, Choosing)
      BY <3>1, ChoosingSet DEF Steady
    <3> QED
      BY <1>17, <3>2 DEF Turns
  <2> QED
    BY <1>2, <2>1, <2>2
<1>18. CASE Search(p)
  <2>1. Stop(p) \/ Goto(p, "keyed") \/ Goto(p, "register")
    BY <1>18 DEF Search
  <2>2. CASE Goto(p, "keyed") \/ Goto(p, "register")
    <3>1. Steady(p, {"keyed"}) \/ Steady(p, {"register"})
      BY <2>2, GotoSteady
    <3>2. Steady(p, Choosing)
      BY <3>1, ChoosingSet DEF Steady
    <3> QED
      BY <1>18, <3>2 DEF Turns
  <2> QED
    BY <1>2, <2>1, <2>2
<1>19. CASE Register(p)
  <2>1. Stop(p) \/ \E x : RecTo(p, "verify", x)
    BY <1>19 DEF Register, RecTo
  <2> QED
    BY <1>1, <1>2, <1>5, <2>1
<1>20. CASE Vanished(p)
  <2>1. Stop(p) \/ \E x : RecTo(p, "accept", x)
    BY <1>20 DEF Vanished, RecTo
  <2>2. CASE \E x : RecTo(p, "accept", x)
    <3>1. Steady(p, {"accept"})
      BY <2>2, GotoSteady
    <3> QED
      BY <1>20, <3>1 DEF Turns
  <2> QED
    BY <1>2, <2>1, <2>2
<1> QED
  BY <1>6, <1>8, <1>9, <1>10, <1>11, <1>12, <1>13, <1>14, <1>15, <1>16, <1>17, <1>18, <1>19, <1>20
     DEF LadderStep

LEMMA LadderAt ==
  ASSUME NEW p, LadderStep(p)
  PROVE  proc[p].pc \in Laddering
BY PcSets DEF LadderStep, Lift, ResolveKey, ConfirmAbsent, StartLine, EndLine, Create, Answer,
   ReadBack, Credential, WiredApp, ReadBinding, List, Recognise, Search, Keyed, Register,
   Verify, Health, Vanished, Accept

LEMMA LeavesFree ==
  ASSUME NEW p, Leaves(p)
  PROVE  Linked(p)' /\ Chooses(p)' /\ ~Binds(p)'
<1>1. /\ proc'[p].pc \in {"down", "idle"} /\ proc'[p].source = "" /\ proc'[p].lock = "none"
  BY DEF Leaves
<1> QED
  BY <1>1, ChoosingSet DEF Linked, Chooses, Binds

LEMMA NotChoosing ==
  ASSUME NEW p, proc'[p].pc \notin Choosing
  PROVE  Chooses(p)'
BY ChoosingSet DEF Chooses

\* A place at which a call with a key or an acceptance holds its connection.
LEMMA LadderLinked ==
  ASSUME Calls, NEW p \in Procs, Linked(p), LadderStep(p)
  PROVE  Linked(p)'
<1>1. proc[p].pc \in Laddering /\ proc[p].pc \notin Inside
  BY LadderAt, PcSets
<1>2. Turns(p)
  BY LadderTurns
<1>3. CASE Leaves(p)
  BY <1>3, LeavesFree
<1>4. ASSUME NEW pcs, Steady(p, pcs), "vanished" \notin pcs,
             "accept" \in pcs => proc[p].pc = "vanished"
      PROVE  Linked(p)'
  <2>1. /\ proc'[p].conn = proc[p].conn /\ proc'[p].source = proc[p].source
        /\ proc'[p].pc \in pcs
    BY <1>4, SteadyMoves DEF Steady
  <2> QED
    BY <1>1, <1>4, <2>1 DEF Linked
<1>5. CASE /\ proc'[p].pc = "open" \/ (proc[p].conn /\ proc'[p].pc = "cred")
           /\ \E source, key : Resolved(p, source, key)
  <2>1. Moves(p, {"pc", "next", "source", "key"})
    BY <1>5, ResolvedMoves
  <2>2. proc'[p].conn = proc[p].conn
    BY <2>1 DEF Moves, Fields
  <2> QED
    BY <1>5, <2>2, PcSets DEF Linked
<1>6. Vanished(p) => proc[p].pc = "vanished"
  BY DEF Vanished
<1> QED
  BY <1>2, <1>3, <1>4, <1>5, <1>6, ChoosingSet DEF Turns

\* Where the dispatcher and the opening lead to.
Enters(p) ==
  \/ Leaves(p)
  \/ Steady(p, Inside)
  \/ Steady(p, {"fence", "publish"}) /\ proc[p].pc \in {"mode", "stage"}
  \/ /\ proc[p].pc = "fence" /\ Steady(p, Bodies \cup {"key"})
     /\ proc'[p].pc = "vanished" => proc[p].conn
  \/ Connected(p) /\ proc[p].pc \in Inside

LEMMA OtherEnters ==
  ASSUME Calls, NEW p \in Procs, OtherStep(p)
  PROVE  Enters(p)
<1>1. ASSUME NEW pc \in Inside, Goto(p, pc)
      PROVE  Enters(p)
  <2>1. Steady(p, {pc})
    BY <1>1, GotoSteady
  <2>2. Steady(p, Inside)
    BY <2>1 DEF Steady
  <2> QED
    BY <2>2 DEF Enters
<1>2. ASSUME NEW why, Return(p, why)
      PROVE  Enters(p)
  BY <1>2, ReturnLeaves DEF Enters
<1>3. ASSUME Connected(p), proc[p].pc \in {"mark", "sign"}
      PROVE  Enters(p)
  BY <1>3, PcSets DEF Enters
<1>4. ASSUME proc[p].pc \in {"mode", "stage"}, Goto(p, "fence") \/ Goto(p, "publish")
       PROVE  Enters(p)
  <2>1. Steady(p, {"fence"}) \/ Steady(p, {"publish"})
    BY <1>4, GotoSteady
  <2>2. Steady(p, {"fence", "publish"})
    BY <2>1 DEF Steady
  <2> QED
    BY <1>4, <2>2 DEF Enters
<1>5. CASE CheckMode(p) \/ TakeOpenLock(p) \/ OpenBusy(p)
  BY <1>1, <1>2, <1>5, <1>4, PcSets DEF CheckMode, TakeOpenLock, OpenBusy, Refuse
<1>6. CASE CheckFence(p)
  <2> DEFINE body == Body(proc[p].tool)
  <2>1. /\ proc[p].pc = "fence"
        /\ \/ \E why : Return(p, why)
           \/ proc[p].tool \in {"setup", "signin"} /\ Goto(p, body)
           \/ Opened(p, body)
    BY <1>6 DEF CheckFence
  <2>2. /\ body \in Bodies \cup {"key"}
        /\ proc[p].tool \in {"setup", "signin"} => body # "vanished"
    BY DEF Body, Bodies
  <2> HIDE DEF body
  <2>3. CASE proc[p].tool \in {"setup", "signin"} /\ Goto(p, body)
    <3>1. Steady(p, {body})
      BY <2>3, GotoSteady
    <3>2. Steady(p, Bodies \cup {"key"}) /\ proc'[p].pc # "vanished"
      BY <2>2, <2>3, <3>1 DEF Steady
    <3> QED
      BY <2>1, <3>2 DEF Enters
  <2>4. CASE Opened(p, body)
    <3>1. /\ Steady(p, {"open", "record", body})
          /\ proc'[p].pc = "open" \/ (proc[p].conn /\ proc'[p].pc = body)
      BY <2>4, OpenedSteady, OpenedMoves
    <3>2. CASE proc'[p].pc = "open"
      <4>1. Steady(p, Inside)
        BY <3>1, <3>2, PcSets DEF Steady
      <4> QED
        BY <4>1 DEF Enters
    <3>3. CASE proc[p].conn /\ proc'[p].pc = body
      <4>1. Steady(p, Bodies \cup {"key"})
        BY <2>2, <3>1, <3>3 DEF Steady
      <4> QED
        BY <2>1, <3>3, <4>1 DEF Enters
    <3> QED
      BY <3>1, <3>2, <3>3
  <2> QED
    BY <1>2, <2>1, <2>3, <2>4
<1>7. CASE OpenFile(p)
  BY <1>1, <1>2, <1>7, PcSets DEF OpenFile, Refuse
<1>8. CASE Schema(p) \/ Snapshot(p) \/ Migrate(p) \/ Mint(p)
  BY <1>1, <1>2, <1>8, PcSets DEF Schema, Snapshot, Migrate, Mint, Refuse
<1>9. CASE Mark(p) \/ Sign(p)
  BY <1>1, <1>2, <1>3, <1>9, PcSets DEF Mark, Sign, Refuse
<1>10. CASE Write(p) \/ Stage(p) \/ Publish(p)
  BY <1>2, <1>10, <1>4 DEF Write, Stage, Publish
<1> QED
  BY <1>5, <1>6, <1>7, <1>8, <1>9, <1>10 DEF OtherStep

LEMMA OtherLinked ==
  ASSUME Calls, Locks, NEW p \in Procs, Linked(p), HasKey(p), OtherStep(p)
  PROVE  Linked(p)' /\ Chooses(p)'
<1>1. CASE Leaves(p)
  BY <1>1, LeavesFree
<1>2. CASE Steady(p, Inside)
  <2>1. proc'[p].pc \in Inside
    BY <1>2 DEF Steady
  <2> QED
    BY <2>1, NotChoosing, PcSets, ChoosingSet DEF Linked
<1>3. CASE Steady(p, {"fence", "publish"}) /\ proc[p].pc \in {"mode", "stage"}
  <2>1. /\ proc'[p].conn = proc[p].conn /\ proc'[p].source = proc[p].source
        /\ proc'[p].pc \in {"fence", "publish"}
    BY <1>3, SteadyMoves DEF Steady
  <2>2. proc'[p].pc \notin Choosing
    BY <2>1, ChoosingSet
  <2> QED
    BY <1>3, <2>1, <2>2, NotChoosing, PcSets DEF Linked
<1>4. CASE /\ proc[p].pc = "fence" /\ Steady(p, Bodies \cup {"key"})
           /\ proc'[p].pc = "vanished" => proc[p].conn
  <2>1. /\ proc'[p].conn = proc[p].conn /\ proc'[p].source = proc[p].source
        /\ proc'[p].pc \in Bodies \cup {"key"}
    BY <1>4, SteadyMoves DEF Steady
  <2>2. proc[p].source = ""
    BY <1>4, NoKey
  <2> QED
    BY <1>4, <2>1, <2>2, NotChoosing, ChoosingSet DEF Linked, Bodies
<1>5. CASE Connected(p) /\ proc[p].pc \in Inside
  <2>1. proc'[p].conn /\ proc'[p].pc = proc[p].next /\ proc[p].next \in Bodies
    BY <1>5, ConnectedMoves DEF Locks, Post
  <2> QED
    BY <2>1, NotChoosing, ChoosingSet DEF Linked, Bodies
<1> QED
  BY <1>1, <1>2, <1>4, <1>5, <1>3, OtherEnters DEF Enters

IsHist == hist = [overlap |-> hist.overlap, grants |-> hist.grants]

\* What a step may do to the history: forget or add a grant, or note an overlap.
HistMoves(p) ==
  \/ UNCHANGED hist
  \/ LadderStep(p) /\ \E g : hist' = [hist EXCEPT !.grants = g]
  \/ TakeLock(p) /\ \E o : hist' = [hist EXCEPT !.overlap = o]

LEMMA StepHist ==
  ASSUME NEW p, Step(p)
  PROVE  HistMoves(p)
<1>1. CASE Recognise(p) \/ Keyed(p) \/ Verify(p) \/ Health(p) \/ Accept(p)
  <2>1. UNCHANGED hist \/ \E g : hist' = [hist EXCEPT !.grants = g]
    BY <1>1 DEF Recognise, Keyed, Verify, Health, Accept, ProvenAlive
  <2> QED
    BY <1>1, <2>1 DEF HistMoves, LadderStep
<1>2. CASE TakeLock(p)
  <2>1. \E o : hist' = [hist EXCEPT !.overlap = o]
    BY <1>2 DEF TakeLock
  <2> QED
    BY <1>2, <2>1 DEF HistMoves
<1>3. CASE \/ Lift(p) \/ ResolveKey(p) \/ ConfirmAbsent(p) \/ StartLine(p) \/ EndLine(p)
           \/ Create(p) \/ Answer(p) \/ ReadBack(p) \/ Credential(p)
           \/ WiredApp(p) \/ ReadBinding(p) \/ List(p) \/ Search(p)
           \/ Register(p) \/ Vanished(p)
  BY <1>3 DEF HistMoves, Lift, ResolveKey, ConfirmAbsent, StartLine, EndLine, Create, Answer,
     ReadBack, Credential, WiredApp, ReadBinding, List, Search, Register, Vanished
<1>4. CASE OtherStep(p)
  BY <1>4 DEF HistMoves, OtherStep, CheckMode, CheckFence, TakeOpenLock, OpenBusy, OpenFile, Schema,
     Snapshot, Migrate, Mint, Mark, Sign, Write, Stage, Publish
<1>5. CASE EraserStep(p) \/ EraseRows(p)
  BY <1>5 DEF HistMoves, EraseRows, EraserStep, EraseCopies, Withdraw, EraseExports, Sweep, Rewrite,
     Reset, Residue, Reclaim
<1>6. CASE \/ Crash(p) \/ Busy(p)
           \/ \E mode \in Modes : Spawn(p, mode)
           \/ \E tool \in sc.tools : Call(p, tool)
  BY <1>6 DEF HistMoves, Crash, Busy, Spawn, Call
<1> QED
  BY <1>1, <1>2, <1>3, <1>4, <1>5, <1>6 DEF Step, OtherStep, EraserStep

LEMMA HistShape ==
  ASSUME IsHist, NEW p, HistMoves(p)
  PROVE  /\ IsHist' /\ (~TakeLock(p) => hist'.overlap = hist.overlap)
         /\ ~LadderStep(p) => hist'.grants = hist.grants
BY DEF IsHist, HistMoves

LEMMA LadderIsVouched ==
  ASSUME Installed, Fences, IsHist, Unaccepted, NEW p \in Procs, Linked(p), HasKey(p),
         LadderStep(p)
  PROVE  Vouched
<1>1. IsDisk(disk) /\ Calls /\ proc[p].mode \in Modes /\ IsLedger(Ledger(p))
  BY RowsShape DEF Installed, Shapes, Calls
<1>2. CASE UNCHANGED <<disk, hist>>
  BY <1>1, <1>2, SameFilesSame, SameIsVouched
<1>3. proc[p].conn => Ledger(p).there
  BY DEF Fences, Settled
<1>4. proc[p].conn => disk.ledger[Other(proc[p].mode)].accepted = 0
  <2>1. proc[p].conn => ~disk.ledger[Other(proc[p].mode)].there
    BY <1>1 DEF Installed, World, OneWorld
  <2> QED
    BY <1>1, <2>1, OtherMode DEF Unaccepted
<1>5. proc[p].pc \in Rungs => proc[p].conn
  BY PcSets, RungSets DEF HasKey, Linked, Aim
<1>6. \A m \in Modes : m = proc[p].mode \/ m = Other(proc[p].mode)
  BY <1>1, OtherMode DEF Modes
<1>7. ASSUME NEW app, Bound(p, app), UNCHANGED hist
      PROVE  Vouched
  <2> DEFINE c == Ledger(p)
  <2> DEFINE l == [c EXCEPT !.app = app]
  <2>1. IsLedger(l) /\ l.accepted = c.accepted /\ l.there = c.there
    <3>1. l = [c EXCEPT !.app = app]
      OBVIOUS
    <3> HIDE DEF c, l
    <3>2. IsLedger(c)
      BY <1>1 DEF c
    <3> QED
      BY <3>1, <3>2, BoundRow
  <2>2. WriteLedger(p, l)
    BY <1>7 DEF Bound
  <2> HIDE DEF l
  <2> QED
    BY <1>1, <1>7, <2>1, <2>2, WroteRow DEF Vouched, Ledger
<1>8. ASSUME NEW app, BoundAlive(p, app), proc[p].pc \in Rungs
      PROVE  Vouched
  <2> DEFINE c == Ledger(p)
  <2> DEFINE l == [c EXCEPT !.app = app, !.accepted = 0]
  <2>1. IsLedger(l) /\ l.accepted = 0 /\ l.there = c.there
    <3>1. l = [c EXCEPT !.app = app, !.accepted = 0]
      OBVIOUS
    <3> HIDE DEF c, l
    <3>2. IsLedger(c)
      BY <1>1 DEF c
    <3> QED
      BY <3>1, <3>2, BoundAliveRow
  <2>2. WriteLedger(p, l)
    BY <1>8 DEF BoundAlive
  <2> HIDE DEF l
  <2>3. /\ disk'.ledger[proc[p].mode] = l
        /\ disk'.ledger[Other(proc[p].mode)] = disk.ledger[Other(proc[p].mode)]
    BY <1>1, <2>1, <2>2, WroteRow, OtherMode
  <2> QED
    BY <1>4, <1>5, <1>6, <1>8, <2>1, <2>3 DEF Vouched, Ledger
<1>9. CASE Accept(p)
  <2> DEFINE c == Ledger(p)
  <2> DEFINE l == [c EXCEPT !.accepted = proc[p].rec]
  <2>1. IsLedger(l) /\ l.accepted = proc[p].rec /\ l.there = c.there
    <3>1. l = [c EXCEPT !.accepted = proc[p].rec]
      OBVIOUS
    <3> HIDE DEF c, l
    <3>2. IsLedger(c)
      BY <1>1 DEF c
    <3> QED
      BY <3>1, <3>2, AcceptedRow
  <2>2. WriteLedger(p, l) /\ hist' = [hist EXCEPT !.grants = @ \cup {proc[p].rec}]
    BY <1>9 DEF Accept
  <2> HIDE DEF l
  <2>3. proc[p].conn
    BY <1>9 DEF Accept, Linked
  <2>4. hist'.grants = hist.grants \cup {proc[p].rec}
    BY <2>2 DEF IsHist
  <2>5. /\ disk'.ledger[proc[p].mode] = l
        /\ \A m \in Modes \ {proc[p].mode} : disk'.ledger[m] = disk.ledger[m]
    BY <1>1, <2>1, <2>2, WroteRow
  <2> QED
    BY <1>3, <2>1, <2>3, <2>4, <2>5 DEF Vouched, Ledger
<1>10. CASE Lift(p)
  <2>1. /\ UNCHANGED hist
        /\ UNCHANGED disk \/ WriteLedger(p, [Ledger(p) EXCEPT !.fence = FALSE])
    BY <1>10 DEF Lift
  <2>2. \A c : SameUpdate(c, [c EXCEPT !.fence = FALSE])
    BY Zenon DEF SameUpdate
  <2> QED
    BY <1>1, <1>2, <2>1, <2>2, SameWrite, SameIsVouched
<1>11. CASE StartLine(p) \/ EndLine(p)
  <2>1. /\ UNCHANGED hist
        /\ \E x, y : \/ disk' = [disk EXCEPT !.record.torn = x]
                     \/ disk' = [disk EXCEPT !.record.torn = x, !.record.lines = y]
    BY <1>11 DEF StartLine, EndLine
  <2> QED
    BY <1>1, <2>1, LooseRecord, SameFilesSame, SameIsVouched
<1>12. CASE WiredApp(p)
  BY <1>2, <1>7, <1>12 DEF WiredApp
<1>13. CASE Recognise(p) \/ Verify(p)
  <2>1. proc[p].pc \in Rungs
    BY <1>13, RungSets DEF Recognise, Verify
  <2>2. UNCHANGED <<disk, hist>> \/ \E app : BoundAlive(p, app)
    BY <1>13 DEF Recognise, Verify
  <2> QED
    BY <1>2, <1>8, <2>1, <2>2
<1>14. CASE Keyed(p) \/ Health(p)
  <2>1. proc[p].pc \in Rungs
    BY <1>14, RungSets DEF Keyed, Health
  <2>2. UNCHANGED <<disk, hist>> \/ \E app : BoundAlive(p, app)
    BY <1>14 DEF Keyed, Health
  <2> QED
    BY <1>2, <1>8, <2>1, <2>2
<1>15. CASE \/ ResolveKey(p) \/ ConfirmAbsent(p) \/ Create(p) \/ Answer(p)
            \/ ReadBack(p) \/ Credential(p)
  BY <1>2, <1>15 DEF ResolveKey, ConfirmAbsent, Create, Answer, ReadBack, Credential
<1>16. CASE ReadBinding(p) \/ List(p) \/ Search(p) \/ Register(p) \/ Vanished(p)
  BY <1>2, <1>16 DEF ReadBinding, List, Search, Register, Vanished
<1> QED
  BY <1>9, <1>10, <1>11, <1>12, <1>13, <1>14, <1>15, <1>16 DEF LadderStep

-----------------------------------------------------------------------------
(* The ladder acts on what it has read.                                    *)

LEMMA LadderChooses ==
  ASSUME Calls, IsFiniteSet(panel), NEW p \in Procs, Chooses(p), LadderStep(p)
  PROVE  Chooses(p)'
<1>1. CASE proc'[p].pc \notin Choosing
  BY <1>1, NotChoosing
<1>2. CASE ReadBinding(p)
  <2>1. RecTo(p, "list", Ledger(p).app) /\ UNCHANGED disk
    BY <1>2 DEF ReadBinding, RecTo
  <2>2. Moves(p, {"pc", "rec"}) /\ proc'[p].pc = "list" /\ proc'[p].rec = Ledger(p).app
    BY <2>1, RecMoves
  <2>3. proc'[p].mode = proc[p].mode
    BY <2>2, MovesFields, WorkSets
  <2> QED
    BY <2>1, <2>2, <2>3 DEF Chooses, Ledger
<1>3. CASE List(p)
  <2>1. UNCHANGED disk /\ proc[p].pc = "list" /\ (Stop(p) \/ SeenTo(p, "bind", Listing))
    BY <1>3 DEF List, SeenTo
  <2>2. CASE SeenTo(p, "bind", Listing)
    <3>1. Moves(p, {"pc", "seen"}) /\ proc'[p].pc = "bind" /\ proc'[p].seen = Listing
      BY <2>2, SeenMoves
    <3>2. proc'[p].mode = proc[p].mode /\ proc'[p].rec = proc[p].rec
      BY <3>1 DEF Moves, Fields
    <3>3. IsFiniteSet(Listing)
      BY FS_Subset DEF Listing
    <3> QED
      BY <2>1, <3>1, <3>2, <3>3, ChoosingSet DEF Chooses, Ledger
  <2> QED
    BY <2>1, <2>2, StopLeaves, LeavesFree
<1>4. CASE Search(p)
  <2>1. UNCHANGED disk /\ proc[p].pc = "bind"
    BY <1>4 DEF Search
  <2>2. proc[p].rec = Ledger(p).app /\ IsFiniteSet(proc[p].seen)
    BY <2>1, ChoosingSet DEF Chooses
  <2>3. IsFiniteSet(Matches(p))
    BY <2>2, FS_Subset DEF Matches
  <2>4. ASSUME NEW pc, Goto(p, pc)
        PROVE  /\ proc'[p].pc = pc /\ proc'[p].rec = proc[p].rec /\ proc'[p].seen = proc[p].seen
               /\ proc'[p].mode = proc[p].mode
    <3>1. Moves(p, {"pc"}) /\ proc'[p].pc = pc
      BY <2>4, GotoMoves
    <3> QED
      BY <3>1 DEF Moves, Fields
  <2>5. \/ Stop(p)
        \/ /\ proc[p].rec = 0 \/ Accepted(p)
           /\ \/ Goto(p, "keyed")
              \/ /\ ~(Cardinality(Matches(p)) > 1) /\ Cardinality(Matches(p)) # 1
                 /\ Goto(p, "register")
    BY <1>4 DEF Search
  <2>6. (proc[p].rec = 0 \/ Accepted(p)) => proc[p].rec \in {0, Ledger(p).accepted}
    BY DEF Accepted
  <2>7. CASE Goto(p, "keyed") /\ (proc[p].rec = 0 \/ Accepted(p))
    BY <2>1, <2>2, <2>4, <2>6, <2>7 DEF Chooses, Ledger
  <2>8. CASE /\ ~(Cardinality(Matches(p)) > 1) /\ Cardinality(Matches(p)) # 1
             /\ Goto(p, "register") /\ (proc[p].rec = 0 \/ Accepted(p))
    <3>1. Cardinality(Matches(p)) \in Nat
      BY <2>3, FS_CardinalityType
    <3>2. Cardinality(Matches(p)) = 0
      BY <2>8, <3>1
    <3>3. Matches(p) = {}
      BY <2>3, <3>2, FS_EmptySet
    <3>4. /\ proc'[p].pc = "register" /\ proc'[p].rec = proc[p].rec /\ proc'[p].seen = proc[p].seen
          /\ proc'[p].mode = proc[p].mode
      BY <2>4, <2>8
    <3>5. Matches(p)' = {}
      BY <3>3, <3>4 DEF Matches, LooksOurs
    <3> QED
      BY <2>1, <2>2, <2>6, <2>8, <3>4, <3>5 DEF Chooses, Ledger
  <2> QED
    BY <2>5, <2>7, <2>8, StopLeaves, LeavesFree
<1>5. CASE ~(ReadBinding(p) \/ List(p) \/ Search(p))
  <2>1. Turns(p)
    BY LadderTurns
  <2>2. proc'[p].pc \notin Choosing
    BY <1>5, <2>1, ChoosingSet DEF Turns, Leaves, Steady
  <2> QED
    BY <1>1, <2>2
<1> QED
  BY <1>2, <1>3, <1>4, <1>5

LEMMA EraserIsOver ==
  ASSUME Calls, Locks, Locks', NEW p \in Procs, HasKey(p), EraserStep(p) \/ EraseRows(p)
  PROVE  /\ proc[p].pc \in Erasing
         /\ Linked(p)' /\ Chooses(p)' /\ (Binds(p)' => Binds(p))
<1>1. proc[p].pc \in Erasing
  BY PcSets DEF EraserStep, EraseRows, EraseCopies, Withdraw, EraseExports, Sweep, Rewrite, Reset,
     Residue, Reclaim
<1>2. proc[p].source = "" /\ proc[p].tool \in Erasers
  BY <1>1, NoKey, PcSets DEF Locks, Post, Aim
<1>3. CASE Leaves(p)
  BY <1>1, <1>3, LeavesFree
<1>4. CASE Moves(p, Walking)
  <2>1. proc'[p].source = "" /\ proc'[p].tool \in Erasers
    BY <1>2, <1>4, WalkingFields
  <2>2. proc'[p].pc \notin Laddering
    BY <2>1, PcSets DEF Locks, Post, Binding, Erasers, Aim
  <2>3. proc'[p].pc \notin Choosing
    BY <2>2, PcSets, ChoosingSet
  <2>4. ~Binds(p)'
    BY <2>1 DEF Binds, Binding, Erasers
  <2> QED
    BY <1>1, <2>1, <2>2, <2>3, <2>4, NotChoosing, PcSets DEF Linked
<1> QED
  BY <1>3, <1>4, EraserWalks

LEMMA AsleepLinked ==
  ASSUME Calls, Locks, NEW p \in Procs, HasKey(p), Step(p), proc[p].pc \in Asleep
  PROVE  Linked(p)' /\ Chooses(p)' /\ (Binds(p)' => TakeLock(p))
<1>1. proc[p].source = "" /\ ~Binds(p)
  BY NoKey DEF Binds, Locks, Post
<1>2. CASE Leaves(p)
  BY <1>2, LeavesFree
<1>3. ASSUME proc'[p].pc \in {"lock", "mode"}, proc'[p].source = ""
      PROVE  Linked(p)' /\ Chooses(p)'
  BY <1>3, ChoosingSet DEF Linked, Chooses
<1>4. CASE \E tool \in sc.tools : Call(p, tool)
  <2>1. Moves(p, {"pc", "tool", "why"}) /\ proc'[p].pc = "lock"
    BY <1>4, CallMoves
  <2>2. proc'[p].source = proc[p].source /\ proc'[p].lock = proc[p].lock
    BY <2>1 DEF Moves, Fields
  <2>3. proc[p].lock = "none"
    BY DEF Locks, Post
  <2> QED
    BY <1>1, <1>3, <2>1, <2>2, <2>3 DEF Binds
<1>5. CASE TakeLock(p)
  <2>1. \E x : LockTo(p, "mode", x)
    BY <1>5 DEF TakeLock, LockTo
  <2>2. Moves(p, {"pc", "lock"}) /\ proc'[p].pc = "mode"
    BY <2>1, LockMoves
  <2>3. proc'[p].source = proc[p].source
    BY <2>2 DEF Moves, Fields
  <2> QED
    BY <1>1, <1>3, <1>5, <2>2, <2>3
<1> QED
  BY <1>2, <1>4, <1>5, StepWorks DEF Worked

\* A call that works binds only if it did.
LEMMA WorkBinds ==
  ASSUME NEW p, Worked(p)
  PROVE  Binds(p)' => Binds(p)
<1>1. CASE Moves(p, Works)
  BY <1>1, MovesFields DEF Binds, Works
<1>2. CASE Leaves(p)
  BY <1>2, LeavesFree
<1> QED
  BY <1>1, <1>2 DEF Worked

\* A call whose lock is new to the binding notes whom it overlaps.
LEMMA TakeLockNotes ==
  ASSUME Calls, IsHist, NEW p \in Procs, TakeLock(p), ~hist'.overlap, Binds(p)'
  PROVE  ~hist.overlap /\ \A q \in Procs \ {p} : ~Binds(q)
<1> DEFINE o == hist.overlap \/
       /\ proc[p].tool \in Binding
       /\ \E q \in Procs \ {p} : proc[q].lock # "none" /\ proc[q].tool \in Binding
<1>1. hist'.overlap = o
  <2>1. hist' = [hist EXCEPT !.overlap = o]
    BY DEF TakeLock
  <2> HIDE DEF o
  <2> QED
    BY <2>1 DEF IsHist
<1>2. ~o
  BY <1>1
<1>3. proc[p].tool \in Binding
  <2>1. \E x : LockTo(p, "mode", x)
    BY DEF TakeLock, LockTo
  <2>2. proc'[p].tool = proc[p].tool
    BY <2>1, LockMoves DEF Moves, Fields
  <2> QED
    BY <2>2 DEF Binds
<1> QED
  BY <1>2, <1>3 DEF Binds

LEMMA OverlapStays ==
  ASSUME IsHist, NEW p, Step(p), ~hist'.overlap
  PROVE  ~hist.overlap
<1> DEFINE x == /\ proc[p].tool \in Binding
                /\ \E q \in Procs \ {p} : proc[q].lock # "none" /\ proc[q].tool \in Binding
<1>1. CASE TakeLock(p)
  <2> DEFINE o == hist.overlap \/ x
  <2>1. hist'.overlap = o
    <3>1. hist' = [hist EXCEPT !.overlap = o]
      BY <1>1 DEF TakeLock
    <3> HIDE DEF o
    <3> QED
      BY <3>1 DEF IsHist
  <2> HIDE DEF x
  <2> QED
    BY <2>1
<1>2. CASE ~TakeLock(p)
  BY <1>2, StepHist, HistShape
<1> QED
  BY <1>1, <1>2

LEMMA StepVouched ==
  ASSUME Installed, Fences, IsHist, Unaccepted, NEW p \in Procs, Linked(p), HasKey(p), Step(p)
  PROVE  Vouched
<1>1. Calls /\ IsDisk(disk)
  BY DEF Installed, Shapes
<1>2. CASE LadderStep(p)
  BY <1>2, LadderIsVouched
<1>3. CASE EraserStep(p) \/ EraseRows(p)
  BY <1>3, EraserIsVouched
<1>4. CASE OtherStep(p)
  BY <1>4, OtherIsSame, SameIsVouched
<1>5. ASSUME UNCHANGED disk, ~LadderStep(p)
      PROVE  Vouched
  BY <1>5, StepHist, HistShape DEF Vouched
<1>6. CASE TakeLock(p) \/ \E tool \in sc.tools : Call(p, tool)
  BY <1>2, <1>5, <1>6 DEF TakeLock, Call
<1> QED
  BY <1>1, <1>2, <1>3, <1>4, <1>5, <1>6, StepWorks

LEMMA VouchedKeeps ==
  ASSUME Vouched, Unaccepted
  PROVE  Unaccepted' /\ (Granted => Granted')
BY DEF Vouched, Unaccepted, Granted

-----------------------------------------------------------------------------
(* The calls beside it, and the invariant.                                 *)

LEMMA OthersLinked ==
  ASSUME Calls, NEW p \in Procs, Step(p), NEW q \in Procs \ {p}
  PROVE  /\ proc'[q] = proc[q] /\ (Linked(q) => Linked(q)')
         /\ Binds(q)' <=> Binds(q)
BY StepAlone DEF Linked, Binds

LEMMA OthersChoose ==
  ASSUME Installed, Locks', NEW p \in Procs, Step(p), NEW q \in Procs \ {p}, Chooses(q), Single
  PROVE  Chooses(q)'
<1>1. Calls /\ Locks /\ proc'[q] = proc[q]
  BY OthersLinked DEF Installed, Shapes
<1>2. CASE proc[q].pc \notin Choosing
  BY <1>1, <1>2, NotChoosing
<1>3. ASSUME \A m \in Modes : /\ disk'.ledger[m].app = disk.ledger[m].app
                              /\ disk'.ledger[m].accepted = disk.ledger[m].accepted
      PROVE  Chooses(q)'
  <2>1. proc[q].mode \in Modes
    BY <1>1 DEF Calls
  <2> QED
    BY <1>1, <1>3, <2>1 DEF Chooses, Ledger, Matches, LooksOurs
<1>4. CASE proc[q].pc \in Choosing
  <2>1. proc[q].pc \in Laddering /\ proc[q].pc \notin Asleep /\ proc[q].pc \notin Inside
    BY <1>4, PcSets, ChoosingSet
  <2>2. Binds(q)
    BY <1>1, <2>1 DEF Binds, Locks, Post, Aim
  <2>3. CASE LadderStep(p)
    <3>1. proc[p].pc \in Laddering /\ proc[p].pc \notin Asleep /\ proc[p].pc \notin Inside
      BY <2>3, LadderAt, PcSets
    <3>2. Binds(p)
      BY <1>1, <3>1 DEF Binds, Locks, Post, Aim
    <3> QED
      BY <2>2, <3>2 DEF Single
  <2>4. CASE EraserStep(p) \/ EraseRows(p)
    <3>1. proc[p].pc \in Erasing
      BY <2>4, PcSets DEF EraserStep, EraseRows, EraseCopies, Withdraw, EraseExports, Sweep,
         Rewrite, Reset, Residue, Reclaim
    <3>2. proc[q].pc \in Asleep
      BY <1>1, <3>1, EraserAlone
    <3> QED
      BY <2>1, <3>2
  <2>5. CASE OtherStep(p)
    BY <1>3, <2>5, OtherIsSame DEF SameBinding
  <2>6. CASE UNCHANGED disk
    BY <1>3, <2>6
  <2> QED
    BY <1>1, <2>3, <2>4, <2>5, <2>6, StepWorks DEF Call, TakeLock
<1> QED
  BY <1>2, <1>4

LEMMA StepChooses ==
  ASSUME Installed, Locks', IsFiniteSet(panel), NEW p \in Procs, HasKey(p), Linked(p), Step(p)
  PROVE  Linked(p)' /\ (Chooses(p) => Chooses(p)')
<1>1. Calls /\ Locks
  BY DEF Installed, Shapes
<1>2. CASE proc[p].pc \in Asleep
  BY <1>1, <1>2, AsleepLinked
<1>3. CASE LadderStep(p)
  BY <1>1, <1>3, LadderLinked, LadderChooses
<1>4. CASE EraserStep(p) \/ EraseRows(p)
  BY <1>1, <1>4, EraserIsOver
<1>5. CASE OtherStep(p)
  BY <1>1, <1>5, OtherLinked
<1>6. CASE Leaves(p)
  BY <1>6, LeavesFree
<1> QED
  BY <1>1, <1>2, <1>3, <1>4, <1>5, <1>6, StepWorks, PcSets DEF Call, TakeLock

LEMMA StepSingle ==
  ASSUME Installed, Keys, IsHist, NEW p \in Procs, Step(p), ~hist'.overlap, Single
  PROVE  Single'
<1>1. Calls /\ Locks /\ HasKey(p)
  BY DEF Installed, Shapes, Keys
<1>2. \A q \in Procs \ {p} : Binds(q)' <=> Binds(q)
  BY <1>1, OthersLinked
<1>3. CASE Binds(p)' => Binds(p)
  BY <1>2, <1>3 DEF Single
<1>4. CASE Binds(p)' /\ TakeLock(p)
  <2>1. \A q \in Procs \ {p} : ~Binds(q)
    BY <1>1, <1>4, TakeLockNotes
  <2> QED
    BY <1>2, <2>1 DEF Single
<1>5. Binds(p)' => Binds(p) \/ TakeLock(p)
  <2>1. CASE proc[p].pc \in Asleep
    BY <1>1, <2>1, AsleepLinked
  <2>2. CASE proc[p].pc \notin Asleep
    BY <1>1, <2>2, StepWorks, WorkBinds, LeavesFree, PcSets DEF Call, TakeLock
  <2> QED
    BY <2>1, <2>2
<1> QED
  BY <1>3, <1>4, <1>5

LEMMA StepFinite ==
  ASSUME IsFiniteSet(panel), NEW p, Step(p)
  PROVE  IsFiniteSet(panel')
<1>1. CASE Register(p)
  BY <1>1, RegisterAdds, FS_AddElement
<1>2. CASE ~Register(p)
  BY <1>2, PanelStays
<1> QED
  BY <1>1, <1>2

LEMMA PanelFinite ==
  ASSUME IsFiniteSet(panel), NEW a \in panel, Flap(a) \/ Drift(a)
  PROVE  IsFiniteSet(panel')
<1>1. PICK b : panel' = (panel \ {a}) \cup {b}
  BY DEF Flap, Drift
<1>2. IsFiniteSet(panel \ {a})
  BY FS_RemoveElement
<1> QED
  BY <1>1, <1>2, FS_AddElement

LEMMA NextRightful ==
  ASSUME Installed, Locks', Fences, Keys, Rightful, [Next]_vars
  PROVE  Rightful'
<1>1. Calls /\ Locks /\ IsHist /\ IsDisk(disk)
  BY DEF Installed, Shapes, Rightful, IsHist
<1>2. CASE \E p \in sc.procs : Step(p)
  <2>1. PICK p \in Procs : Step(p)
    BY <1>2, ProcsOfScenario
  <2>2. Linked(p) /\ HasKey(p) /\ IsFiniteSet(panel) /\ Unaccepted
    BY DEF Rightful, Keys
  <2>3. IsHist' /\ IsFiniteSet(panel')
    BY <1>1, <2>1, <2>2, StepHist, HistShape, StepFinite
  <2>4. Vouched
    BY <1>1, <2>1, <2>2, StepVouched
  <2>5. Unaccepted' /\ (Granted => Granted')
    BY <2>2, <2>4, VouchedKeeps
  <2>6. \A q \in Procs : Linked(q)'
    BY <1>1, <2>1, <2>2, StepChooses, OthersLinked DEF Rightful
  <2>7. ASSUME ~hist'.overlap
        PROVE  Single' /\ Granted' /\ \A q \in Procs : Chooses(q)'
    <3>1. Single /\ Granted /\ \A q \in Procs : Chooses(q)
      BY <1>1, <2>1, <2>7, OverlapStays DEF Rightful
    <3>2. \A q \in Procs : Chooses(q)'
      BY <2>1, <2>2, <3>1, StepChooses, OthersChoose
    <3> QED
      BY <1>1, <2>1, <2>5, <2>7, <3>1, <3>2, StepSingle
  <2> QED
    BY <2>3, <2>5, <2>6, <2>7 DEF Rightful, IsHist
<1>3. ASSUME UNCHANGED <<proc, hist>>, disk'.ledger = disk.ledger, IsFiniteSet(panel')
      PROVE  Rightful'
  <2>1. \A p \in Procs : Linked(p)' <=> Linked(p)
    BY <1>3 DEF Linked
  <2>2. \A p \in Procs : Chooses(p)' <=> Chooses(p)
    BY <1>3 DEF Chooses, Ledger, Matches, LooksOurs
  <2>3. /\ Single' <=> Single
        /\ Granted' <=> Granted
        /\ Unaccepted' <=> Unaccepted
    BY <1>3 DEF Single, Binds, Granted, Unaccepted
  <2> QED
    BY <1>3, <2>1, <2>2, <2>3 DEF Rightful
<1>4. CASE \E kid \in kids : ChildEnds(kid)
  BY <1>3, <1>4 DEF ChildEnds, Rightful
<1>5. CASE \E a \in panel : Flap(a) \/ Drift(a)
  <2>1. IsFiniteSet(panel')
    BY <1>5, PanelFinite DEF Rightful
  <2> QED
    BY <1>3, <1>5, <2>1 DEF Flap, Drift
<1>6. CASE ClearMarker
  <2>1. disk'.ledger = disk.ledger
    BY <1>1, <1>6, LooseFiles DEF ClearMarker
  <2> QED
    BY <1>3, <1>6, <2>1 DEF ClearMarker, Rightful
<1>7. CASE UNCHANGED vars
  BY <1>3, <1>7 DEF vars, Rightful
<1> QED
  BY <1>2, <1>4, <1>5, <1>6, <1>7 DEF Next

LEMMA NoAcceptanceYet ==
  ASSUME NEW kind, NEW m \in Modes
  PROVE  Begun(kind).ledger[m].accepted = 0
<1>1. IsLedger(NoLedger) /\ NoLedger.accepted = 0
  BY DEF IsLedger, NoLedger
<1>2. IsLedger(Standing) /\ Standing.accepted = 0
  <2> DEFINE l == NoLedger
  <2>1. IsLedger(l) /\ l.accepted = 0
        /\ Standing = [l EXCEPT !.there = TRUE, !.tables = Tables, !.version = Current,
                                !.instance = 1, !.data = TRUE]
    BY <1>1 DEF Standing
  <2> HIDE DEF l
  <2> QED
    BY <2>1 DEF IsLedger
<1> DEFINE base == Standing
<1> DEFINE live == [base EXCEPT !.consents = TRUE, !.app = 1]
<1> DEFINE old == [base EXCEPT !.tables = 2, !.version = 1]
<1> DEFINE newer == [base EXCEPT !.version = Current + 1]
<1>3. live = [base EXCEPT !.consents = TRUE, !.app = 1]
  OBVIOUS
<1>4. old = [base EXCEPT !.tables = 2, !.version = 1]
  OBVIOUS
<1>5. newer = [base EXCEPT !.version = Current + 1]
  OBVIOUS
<1>6. IsLedger(base) /\ base.accepted = 0
  BY <1>2
<1>7. \E marker, record, files :
        \/ Begun(kind) = Disk(OnProduction(live), marker, record, files)
        \/ Begun(kind) = Disk(OnProduction(old), marker, record, files)
        \/ Begun(kind) = Disk(OnProduction(newer), marker, record, files)
        \/ Begun(kind) = Disk(OnProduction(NoLedger), marker, record, files)
  BY Zenon DEF Begun
<1> HIDE DEF base, live, old, newer
<1>8. live.accepted = 0 /\ old.accepted = 0 /\ newer.accepted = 0
  BY <1>3, <1>4, <1>5, <1>6 DEF IsLedger
<1>9. PICK l, marker, record, files :
        l.accepted = 0 /\ Begun(kind) = Disk(OnProduction(l), marker, record, files)
  BY <1>1, <1>7, <1>8
<1>10. Begun(kind).ledger = OnProduction(l)
  BY <1>9 DEF Disk
<1> QED
  BY <1>1, <1>9, <1>10 DEF OnProduction

LEMMA InitRightful ==
  ASSUME Init
  PROVE  Rightful
<1>1. /\ disk = Begun(sc.begun) /\ \A p \in Procs : proc[p] = Down
      /\ hist = [overlap |-> FALSE, grants |-> {}]
  BY DEF Init
<1>2. \A m \in Modes : disk.ledger[m].accepted = 0
  BY <1>1, NoAcceptanceYet
<1>3. IsFiniteSet(panel)
  <2>1. panel = {} \/ \E a : panel = {a}
    BY DEF Init
  <2> QED
    BY <2>1, FS_EmptySet, FS_Singleton
<1>4. \A p \in Procs : Linked(p) /\ Chooses(p) /\ ~Binds(p)
  BY <1>1, DownFields, ChoosingSet DEF Linked, Chooses, Binds
<1> QED
  BY <1>1, <1>2, <1>3, <1>4 DEF Rightful, Granted, Unaccepted, Single

\* Setups that do not overlap never register beside an application of ours they
\* were shown, and replace a recorded one only under an acceptance the operator
\* gave while it was gone and that nothing has voided since (_reconcile,
\* accept_app_reregistration).
THEOREM OneApplicationEver == Spec => OneApplication
<1>1. Init => Installed /\ Fences /\ Keys /\ Rightful
  BY InitInstalled, InitFences, InitKeys, InitRightful
<1>2. (Installed /\ Fences /\ Keys /\ Rightful) /\ [Next]_vars =>
        (Installed /\ Fences /\ Keys /\ Rightful)'
  <2> SUFFICES ASSUME Installed, Fences, Keys, Rightful, [Next]_vars
               PROVE  Installed' /\ Fences' /\ Keys' /\ Rightful'
    OBVIOUS
  <2>1. Installed' /\ Locks'
    BY NextKeeps DEF Installed
  <2> QED
    BY <2>1, NextFences, NextKeepsKeys, NextRightful
<1>3. (Installed /\ Fences /\ Keys /\ Rightful) /\ [Next]_vars =>
        [~hist.overlap => \A a \in Registered :
           /\ disk.ledger[a.world].app \in hist.grants \cup {0}
           /\ \A p \in Procs : proc[p].pc = "register" /\ proc'[p].pc # "register" =>
                \A b \in proc[p].seen : b.world = a.world => ~b.ours]_vars
  <2> SUFFICES ASSUME Installed, Keys, Rightful, [Next]_vars, ~hist.overlap, NEW a \in Registered
               PROVE  /\ disk.ledger[a.world].app \in hist.grants \cup {0}
                      /\ \A p \in Procs : proc[p].pc = "register" /\ proc'[p].pc # "register" =>
                           \A b \in proc[p].seen : b.world = a.world => ~b.ours
    OBVIOUS
  <2>1. PICK p \in Procs : Register(p) /\ a = Made(p)
    BY WhoRegisters
  <2>2. a.world = proc[p].mode /\ proc[p].mode \in Modes /\ proc[p].pc = "register" /\ Calls
    BY <2>1 DEF Made, Register, Installed, Shapes, Calls
  <2>3. Granted /\ Chooses(p)
    BY DEF Rightful
  <2>4. disk.ledger[a.world].app \in hist.grants \cup {0}
    BY <2>2, <2>3, ChoosingSet DEF Chooses, Granted, Ledger
  <2>5. ASSUME NEW q \in Procs, proc[q].pc = "register", proc'[q].pc # "register",
               NEW b \in proc[q].seen, b.world = a.world
        PROVE  ~b.ours
    <3>1. q = p
      BY <2>1, <2>2, <2>5, StepAlone DEF Step
    <3>2. Matches(p) = {}
      BY <2>2, <2>3 DEF Chooses
    <3> QED
      BY <2>2, <2>5, <3>1, <3>2 DEF Matches, LooksOurs
  <2> QED
    BY <2>4, <2>5
<1> QED
  BY <1>1, <1>2, <1>3, PTL DEF Spec, OneApplication

-----------------------------------------------------------------------------
(* Types: the numbers handed out, and what a call holds.                   *)

Places == UNION {Pcs[part] : part \in DOMAIN Pcs}

LEMMA PlaceSets ==
  /\ Places = Asleep \cup Opening \cup Laddering \cup Erasing
              \cup {"mode", "fence", "open", "write", "stage", "publish"}
  /\ Asleep \subseteq Places /\ Inside \subseteq Places /\ Laddering \subseteq Places
  /\ Erasing \subseteq Places /\ Filling \subseteq Places /\ Rungs \subseteq Places
  /\ Bodies \subseteq Places
BY DEF Places, Pcs, Asleep, Opening, Laddering, Erasing, Inside, Filling, Rungs, Bodies

Counted == issued.instance \in Nat /\ issued.nonce \in Nat /\ issued.app \in Nat

\* What is handed out is handed out once.
Grows ==
  /\ issued'.instance \in Nat /\ issued.instance <= issued'.instance
  /\ issued'.nonce \in Nat /\ issued.nonce <= issued'.nonce
  /\ issued'.app \in Nat /\ issued.app <= issued'.app

CallTyped(p) ==
  /\ proc[p].pc \in Places
  /\ proc[p].pc \in Making => proc[p].item \in {"key", "credential"}
  /\ proc[p].nonce \in 0 .. issued.nonce
  /\ proc[p].rec \in 0 .. issued.app /\ proc[p].envapp \in 0 .. issued.app
  /\ \A a \in proc[p].seen : a.id \in 1 .. issued.app

LEMMA NextGrows ==
  ASSUME Numbers, Counted,
         \/ UNCHANGED issued
         \/ issued' = [issued EXCEPT !.instance = issued.instance + 1]
         \/ issued' = [issued EXCEPT !.nonce = issued.nonce + 1]
         \/ issued' = [issued EXCEPT !.app = issued.app + 1]
  PROVE  Grows /\ Counted'
<1>1. CASE UNCHANGED issued
  BY <1>1 DEF Counted, Grows
<1>2. CASE issued' = [issued EXCEPT !.instance = issued.instance + 1]
  <2>1. /\ issued'.instance = issued.instance + 1 /\ issued'.nonce = issued.nonce
        /\ issued'.app = issued.app
    BY <1>2 DEF Numbers
  <2> QED
    BY <2>1 DEF Counted, Grows
<1>3. CASE issued' = [issued EXCEPT !.nonce = issued.nonce + 1]
  <2>1. /\ issued'.instance = issued.instance /\ issued'.nonce = issued.nonce + 1
        /\ issued'.app = issued.app
    BY <1>3 DEF Numbers
  <2> QED
    BY <2>1 DEF Counted, Grows
<1>4. CASE issued' = [issued EXCEPT !.app = issued.app + 1]
  <2>1. /\ issued'.instance = issued.instance /\ issued'.nonce = issued.nonce
        /\ issued'.app = issued.app + 1
    BY <1>4 DEF Numbers
  <2> QED
    BY <2>1 DEF Counted, Grows
<1> QED
  BY <1>1, <1>2, <1>3, <1>4

LEMMA StepIssues ==
  ASSUME NEW p, Step(p)
  PROVE  \/ UNCHANGED issued
         \/ issued' = [issued EXCEPT !.instance = issued.instance + 1]
         \/ issued' = [issued EXCEPT !.nonce = issued.nonce + 1]
         \/ issued' = [issued EXCEPT !.app = issued.app + 1]
<1>1. CASE \/ StartLine(p) \/ Register(p) \/ Mint(p) \/ EraseRows(p) \/ Reset(p)
  BY <1>1, Zenon DEF StartLine, Register, Mint, EraseRows, Reset
<1>2. CASE \/ Lift(p) \/ ResolveKey(p) \/ ConfirmAbsent(p) \/ EndLine(p)
           \/ Create(p) \/ Answer(p) \/ ReadBack(p) \/ Credential(p)
           \/ WiredApp(p) \/ ReadBinding(p) \/ List(p) \/ Recognise(p) \/ Search(p)
           \/ Keyed(p) \/ Verify(p) \/ Health(p) \/ Vanished(p) \/ Accept(p)
  BY <1>2 DEF Lift, ResolveKey, ConfirmAbsent, EndLine, Create, Answer, ReadBack, Credential,
     WiredApp, ReadBinding, List, Recognise, Search, Keyed, Verify, Health, Vanished, Accept
<1>3. CASE \/ CheckMode(p) \/ CheckFence(p) \/ TakeOpenLock(p) \/ OpenBusy(p) \/ OpenFile(p)
           \/ Schema(p) \/ Snapshot(p) \/ Migrate(p) \/ Mark(p) \/ Sign(p)
           \/ Write(p) \/ Stage(p) \/ Publish(p)
  BY <1>3 DEF CheckMode, CheckFence, TakeOpenLock, OpenBusy, OpenFile, Schema, Snapshot, Migrate,
     Mark, Sign, Write, Stage, Publish
<1>4. CASE \/ EraseCopies(p) \/ Withdraw(p) \/ EraseExports(p) \/ Sweep(p) \/ Rewrite(p)
           \/ Residue(p) \/ Reclaim(p)
  BY <1>4 DEF EraseCopies, Withdraw, EraseExports, Sweep, Rewrite, Residue, Reclaim
<1>5. CASE \/ Crash(p) \/ TakeLock(p) \/ Busy(p)
           \/ \E mode \in Modes : Spawn(p, mode)
           \/ \E tool \in sc.tools : Call(p, tool)
  BY <1>5 DEF Crash, TakeLock, Busy, Spawn, Call
<1> QED
  BY <1>1, <1>2, <1>3, <1>4, <1>5 DEF Step

LEMMA CallGrows ==
  ASSUME Counted, Grows, NEW p, CallTyped(p), proc'[p] = proc[p]
  PROVE  CallTyped(p)'
BY DEF Counted, Grows, CallTyped

\* Steps that hold nothing new.
Plodding == {"pc", "next", "tool", "conn", "lock", "source", "key", "kept", "ok", "why"}

LEMMA PlodTyped ==
  ASSUME Counted, Grows, NEW p, CallTyped(p), NEW changed \in SUBSET Plodding, Moves(p, changed),
         proc'[p].pc \in Places, proc'[p].pc \in Making => proc[p].pc \in Making
  PROVE  CallTyped(p)'
<1>1. /\ proc'[p].item = proc[p].item /\ proc'[p].nonce = proc[p].nonce
      /\ proc'[p].rec = proc[p].rec /\ proc'[p].seen = proc[p].seen
      /\ proc'[p].envapp = proc[p].envapp
  BY DEF Moves, Fields, Plodding
<1> QED
  BY <1>1 DEF Counted, Grows, CallTyped

LEMMA PlodSets ==
  /\ {"pc"} \in SUBSET Plodding /\ {"pc", "next"} \in SUBSET Plodding
  /\ {"pc", "ok"} \in SUBSET Plodding /\ {"pc", "lock"} \in SUBSET Plodding
  /\ {"pc", "tool", "why"} \in SUBSET Plodding
  /\ {"pc", "next", "source", "key"} \in SUBSET Plodding
  /\ {"pc", "next", "conn"} \in SUBSET Plodding /\ {"pc", "kept", "ok"} \in SUBSET Plodding
BY DEF Plodding

LEMMA GoneTyped ==
  ASSUME Counted, Grows, NEW p, Leaves(p), proc'[p].rec = 0, proc'[p].nonce = 0,
         proc'[p].envapp \in 0 .. issued.app
  PROVE  CallTyped(p)'
<1>1. proc'[p].pc \in {"down", "idle"} /\ proc'[p].seen = {}
  BY DEF Leaves
<1>2. proc'[p].pc \in Places /\ proc'[p].pc \notin Making
  BY <1>1, PlaceSets, PcSets, RungSets
<1> QED
  BY <1>1, <1>2 DEF Counted, Grows, CallTyped

LEMMA ReturnTyped ==
  ASSUME Calls, Counted, Grows, NEW p \in Procs, CallTyped(p),
         Stop(p) \/ \E why : Return(p, why)
  PROVE  CallTyped(p)'
<1>1. /\ Leaves(p) /\ proc'[p].rec = 0 /\ proc'[p].nonce = 0 /\ proc'[p].envapp = proc[p].envapp
  BY ReturnLeaves DEF Stop
<1> QED
  BY <1>1, GoneTyped DEF CallTyped

LEMMA GotoTyped ==
  ASSUME Calls, Counted, Grows, NEW p \in Procs, CallTyped(p), NEW pc \in Places,
         pc \in Making => proc[p].pc \in Making,
         \/ Goto(p, pc)
         \/ \E x : OkTo(p, pc, x)
         \/ \E x, y : SweptTo(p, pc, x, y)
  PROVE  CallTyped(p)'
<1>1. /\ Moves(p, {"pc"}) \/ Moves(p, {"pc", "ok"}) \/ Moves(p, {"pc", "kept", "ok"})
      /\ proc'[p].pc = pc
  BY GotoMoves, OkMoves, SweptMoves
<1> QED
  BY <1>1, PlodSets, PlodTyped

LEMMA OpenedTyped ==
  ASSUME Calls, Counted, Grows, NEW p \in Procs, CallTyped(p), NEW pc \in Places \ Making,
         Opened(p, pc)
  PROVE  CallTyped(p)'
<1>1. Moves(p, {"pc", "next"}) /\ proc'[p].pc \in {pc, "open"}
  BY OpenedMoves
<1> QED
  BY <1>1, PlodSets, PlodTyped, PlaceSets, RungSets

LEMMA RecTyped ==
  ASSUME Calls, Counted, Grows, NEW p \in Procs, CallTyped(p), NEW pc \in Places \ Making,
         NEW x \in 0 .. issued'.app, RecTo(p, pc, x)
  PROVE  CallTyped(p)'
<1>1. Moves(p, {"pc", "rec"}) /\ proc'[p].pc = pc /\ proc'[p].rec = x
  BY RecMoves
<1>2. /\ proc'[p].item = proc[p].item /\ proc'[p].nonce = proc[p].nonce
      /\ proc'[p].seen = proc[p].seen /\ proc'[p].envapp = proc[p].envapp
  BY <1>1 DEF Moves, Fields
<1> QED
  BY <1>1, <1>2 DEF Counted, Grows, CallTyped

LEMMA SeenTyped ==
  ASSUME Calls, Counted, Grows, NEW p \in Procs, CallTyped(p), NEW pc \in Places \ Making,
         NEW x, \A a \in x : a.id \in 1 .. issued.app, SeenTo(p, pc, x)
  PROVE  CallTyped(p)'
<1>1. Moves(p, {"pc", "seen"}) /\ proc'[p].pc = pc /\ proc'[p].seen = x
  BY SeenMoves
<1>2. /\ proc'[p].item = proc[p].item /\ proc'[p].nonce = proc[p].nonce
      /\ proc'[p].rec = proc[p].rec /\ proc'[p].envapp = proc[p].envapp
  BY <1>1 DEF Moves, Fields
<1> QED
  BY <1>1, <1>2 DEF Counted, Grows, CallTyped

LEMMA NonceTyped ==
  ASSUME Calls, Counted, Grows, NEW p \in Procs, CallTyped(p), proc[p].pc \in Making,
         NEW pc \in Places, NEW x \in 0 .. issued'.nonce, NonceTo(p, pc, x)
  PROVE  CallTyped(p)'
<1>1. Moves(p, {"pc", "nonce"}) /\ proc'[p].pc = pc /\ proc'[p].nonce = x
  BY NonceMoves
<1>2. /\ proc'[p].item = proc[p].item /\ proc'[p].rec = proc[p].rec
      /\ proc'[p].seen = proc[p].seen /\ proc'[p].envapp = proc[p].envapp
  BY <1>1 DEF Moves, Fields
<1> QED
  BY <1>1, <1>2 DEF Counted, Grows, CallTyped

LEMMA TowardsTyped ==
  ASSUME Calls, Counted, Grows, NEW p \in Procs, CallTyped(p), NEW item \in {"key", "credential"},
         Towards(p, item)
  PROVE  CallTyped(p)'
<1>1. Moves(p, {"pc", "item"}) /\ proc'[p].pc = "record" /\ proc'[p].item = item
  BY TowardsMoves
<1>2. /\ proc'[p].nonce = proc[p].nonce /\ proc'[p].rec = proc[p].rec
      /\ proc'[p].seen = proc[p].seen /\ proc'[p].envapp = proc[p].envapp
  BY <1>1 DEF Moves, Fields
<1>3. "record" \in Places
  BY PlaceSets, PcSets
<1> QED
  BY <1>1, <1>2, <1>3 DEF Counted, Grows, CallTyped

LEMMA ResolvedTyped ==
  ASSUME Calls, Counted, Grows, NEW p \in Procs, CallTyped(p), NEW source, NEW key,
         Resolved(p, source, key)
  PROVE  CallTyped(p)'
<1>1. Moves(p, {"pc", "next", "source", "key"}) /\ proc'[p].pc \in {"cred", "open"}
  BY ResolvedMoves
<1>2. proc'[p].pc \in Places \ Making
  BY <1>1, PlaceSets, PcSets, RungSets
<1> QED
  BY <1>1, <1>2, PlodSets, PlodTyped

\* A row, and the files beside it, within the numbers handed out.
RowIn(l, instances, apps) ==
  /\ l.version \in 0 .. Current + 1 /\ l.instance \in 0 .. instances
  /\ {l.app, l.accepted} \subseteq 0 .. apps
  /\ {l.there, l.data, l.fence, l.consents} \subseteq BOOLEAN

FilesIn(d, nonces) ==
  /\ d.marker \in Modes \cup {"absent", "torn"}
  /\ {d.copies, d.snapshots, d.published, d.staging} \subseteq BOOLEAN
  /\ d.record.lines \subseteq 1 .. nonces
  /\ {d.record.torn, d.record.copy} \subseteq BOOLEAN

DiskTyped ==
  /\ \A m \in Modes : RowIn(disk.ledger[m], issued.instance, issued.app)
  /\ FilesIn(disk, issued.nonce)

PanelTyped == \A a \in panel : IsApp(a) /\ a.id \in 1 .. issued.app /\ a.world \in Modes

LEMMA EarlyCallTyped ==
  ASSUME Calls, Counted, Grows, Numbers, NEW p \in Procs, CallTyped(p),
         \/ Lift(p) \/ ResolveKey(p) \/ ConfirmAbsent(p) \/ StartLine(p) \/ EndLine(p)
         \/ Create(p) \/ Answer(p) \/ ReadBack(p) \/ Credential(p)
  PROVE  CallTyped(p)'
<1>1. \A pc \in {"lift", "key", "absent", "readback", "app"} : pc \in Places /\ pc \notin Making
  BY PlaceSets, PcSets, RungSets
<1>2. \A pc \in Making : pc \in Places
  BY PlaceSets, PcSets, RungSets
<1>3. ASSUME NotCreated(p)
      PROVE  CallTyped(p)'
  BY <1>1, <1>3, GotoTyped, ReturnTyped DEF NotCreated
<1>4. ASSUME NEW pc \in {"lift", "key", "absent", "readback", "app"}, Goto(p, pc)
      PROVE  CallTyped(p)'
  BY <1>1, <1>4, GotoTyped
<1>5. ASSUME proc[p].pc \in Making, NEW pc \in Making, Goto(p, pc)
      PROVE  CallTyped(p)'
  BY <1>2, <1>5, GotoTyped
<1>6. CASE Lift(p)
  <2>1. Goto(p, "key") \/ Opened(p, "lift")
    BY <1>6 DEF Lift
  <2> QED
    BY <1>1, <1>4, <2>1, OpenedTyped
<1>7. CASE ResolveKey(p)
  BY <1>4, <1>7, ReturnTyped, ResolvedTyped DEF ResolveKey
<1>8. CASE ConfirmAbsent(p) \/ Credential(p)
  BY <1>4, <1>8, ReturnTyped, TowardsTyped DEF ConfirmAbsent, Credential
<1>9. CASE StartLine(p)
  <2>1. NonceTo(p, "line", issued.nonce + 1) /\ proc[p].pc \in Making
    BY <1>9, RungSets DEF StartLine, NonceTo
  <2>2. issued'.nonce = issued.nonce + 1
    BY <1>9 DEF StartLine, Numbers
  <2>3. issued.nonce + 1 \in 0 .. issued'.nonce
    BY <2>2 DEF Counted
  <2>4. "line" \in Places
    BY PlaceSets, PcSets
  <2> QED
    BY <2>1, <2>3, <2>4, NonceTyped
<1>10. CASE EndLine(p) \/ Create(p)
  <2>1. /\ proc[p].pc \in Making
        /\ Goto(p, "create") \/ Goto(p, "waiting") \/ NotCreated(p)
    BY <1>10, RungSets DEF EndLine, Create
  <2> QED
    BY <1>3, <1>5, <2>1, RungSets
<1>11. CASE Answer(p)
  <2>1. Goto(p, "readback") \/ Goto(p, "app") \/ NotCreated(p)
    BY <1>11 DEF Answer
  <2> QED
    BY <1>3, <1>4, <2>1
<1>12. CASE ReadBack(p)
  BY <1>12, ReturnTyped, ResolvedTyped DEF ReadBack
<1> QED
  BY <1>6, <1>7, <1>8, <1>9, <1>10, <1>11, <1>12

LEMMA LateCallTyped ==
  ASSUME Calls, Counted, Grows, Numbers, DiskTyped, PanelTyped, NEW p \in Procs, CallTyped(p),
         \/ WiredApp(p) \/ ReadBinding(p) \/ List(p) \/ Recognise(p) \/ Search(p)
         \/ Keyed(p) \/ Register(p) \/ Verify(p) \/ Health(p) \/ Vanished(p) \/ Accept(p)
  PROVE  CallTyped(p)'
<1>1. \A pc \in {"health", "keyed", "register", "list", "bind", "verify", "accept"} :
        pc \in Places /\ pc \notin Making
  BY PlaceSets, PcSets, RungSets
<1>2. Ledger(p).app \in 0 .. issued.app
  BY DEF DiskTyped, RowIn, Ledger, Calls
<1>3. 0 .. issued.app \subseteq 0 .. issued'.app
  BY DEF Counted, Grows
<1>4. CASE WiredApp(p) \/ Recognise(p) \/ Search(p) \/ Keyed(p) \/ Verify(p)
  <2>1. Stop(p) \/ Goto(p, "health") \/ Goto(p, "keyed") \/ Goto(p, "register")
    BY <1>4 DEF WiredApp, Recognise, Search, Keyed, Mismatch, Verify
  <2> QED
    BY <1>1, <2>1, ReturnTyped, GotoTyped
<1>5. CASE ReadBinding(p) \/ Vanished(p)
  <2>1. Stop(p) \/ RecTo(p, "list", Ledger(p).app) \/ RecTo(p, "accept", Ledger(p).app)
    BY <1>5 DEF ReadBinding, Vanished, RecTo
  <2>2. Ledger(p).app \in 0 .. issued'.app
    BY <1>2, <1>3
  <2> QED
    BY <1>1, <2>1, <2>2, ReturnTyped, RecTyped
<1>6. CASE List(p)
  <2>1. Stop(p) \/ SeenTo(p, "bind", Listing)
    BY <1>6 DEF List, SeenTo
  <2>2. \A a \in Listing : a.id \in 1 .. issued.app
    BY DEF Listing, PanelTyped
  <2> QED
    BY <1>1, <2>1, <2>2, ReturnTyped, SeenTyped
<1>7. CASE Register(p)
  <2>1. \/ Stop(p)
        \/ issued' = [issued EXCEPT !.app = issued.app + 1] /\ RecTo(p, "verify", issued.app + 1)
    BY <1>7 DEF Register, RecTo
  <2>2. CASE issued' = [issued EXCEPT !.app = issued.app + 1] /\ RecTo(p, "verify", issued.app + 1)
    <3>1. issued'.app = issued.app + 1
      BY <2>2 DEF Numbers
    <3>2. issued.app + 1 \in 0 .. issued'.app
      BY <3>1 DEF Counted
    <3> QED
      BY <1>1, <2>2, <3>2, RecTyped
  <2> QED
    BY <2>1, <2>2, ReturnTyped
<1>8. CASE Health(p) \/ Accept(p)
  BY <1>8, ReturnTyped DEF Health, Accept
<1> QED
  BY <1>4, <1>5, <1>6, <1>7, <1>8

LEMMA OtherCallTyped ==
  ASSUME Calls, Locks, Counted, Grows, NEW p \in Procs, CallTyped(p), OtherStep(p)
  PROVE  CallTyped(p)'
<1>1. \A pc \in {"fence", "publish"} \cup Inside \cup Bodies \cup {"key"} :
        pc \in Places /\ pc \notin Making
  BY PlaceSets, PcSets, RungSets DEF Bodies
<1>2. ASSUME NEW pc \in {"fence", "publish"} \cup Inside, Goto(p, pc)
      PROVE  CallTyped(p)'
  BY <1>1, <1>2, GotoTyped
<1>3. ASSUME Connected(p), proc[p].pc \in Inside
      PROVE  CallTyped(p)'
  <2>1. Moves(p, {"pc", "next", "conn"}) /\ proc'[p].pc \in Bodies
    BY <1>3, ConnectedMoves DEF Locks, Post
  <2> QED
    BY <1>1, <2>1, PlodSets, PlodTyped
<1>4. CASE CheckMode(p) \/ TakeOpenLock(p) \/ OpenBusy(p) \/ OpenFile(p)
  BY <1>2, <1>4, ReturnTyped, PcSets DEF CheckMode, TakeOpenLock, OpenBusy, OpenFile, Refuse
<1>5. CASE CheckFence(p)
  <2> DEFINE body == Body(proc[p].tool)
  <2>1. (\E why : Return(p, why)) \/ Goto(p, body) \/ Opened(p, body)
    BY <1>5 DEF CheckFence
  <2>2. body \in Bodies \cup {"key"}
    BY DEF Body, Bodies
  <2> HIDE DEF body
  <2> QED
    BY <1>1, <2>1, <2>2, ReturnTyped, GotoTyped, OpenedTyped
<1>6. CASE Schema(p) \/ Snapshot(p) \/ Migrate(p) \/ Mint(p)
  BY <1>2, <1>6, ReturnTyped, PcSets DEF Schema, Snapshot, Migrate, Mint, Refuse
<1>7. CASE Mark(p) \/ Sign(p)
  BY <1>2, <1>3, <1>7, ReturnTyped, PcSets DEF Mark, Sign, Refuse
<1>8. CASE Write(p) \/ Stage(p) \/ Publish(p)
  BY <1>2, <1>8, ReturnTyped DEF Write, Stage, Publish
<1> QED
  BY <1>4, <1>5, <1>6, <1>7, <1>8 DEF OtherStep

LEMMA EraserCallTyped ==
  ASSUME Calls, Counted, Grows, NEW p \in Procs, CallTyped(p), EraserStep(p) \/ EraseRows(p)
  PROVE  CallTyped(p)'
<1>1. \A pc \in Erasing : pc \in Places /\ pc \notin Making
  BY PlaceSets, PcSets, RungSets
<1>2. ASSUME NEW pc \in Erasing, Goto(p, pc) \/ \E x : OkTo(p, pc, x)
      PROVE  CallTyped(p)'
  BY <1>1, <1>2, GotoTyped
<1>3. ASSUME NEW done, NEW next \in Erasing, Attempt(p, done, next)
      PROVE  CallTyped(p)'
  <2>1. Goto(p, next) \/ OkTo(p, next, FALSE)
    BY <1>3 DEF Attempt, OkTo
  <2> QED
    BY <1>2, <2>1
<1>4. CASE EraseRows(p)
  BY <1>2, <1>4, ReturnTyped, PcSets DEF EraseRows
<1>5. CASE EraseCopies(p) \/ EraseExports(p) \/ Reset(p)
  BY <1>3, <1>5, PcSets DEF EraseCopies, EraseExports, Reset
<1>6. CASE Withdraw(p)
  <2>1. \E pc \in {"exports", "reclaim"} : Goto(p, pc) \/ OkTo(p, pc, FALSE)
    BY <1>6 DEF Withdraw, OkTo
  <2> QED
    BY <1>2, <2>1, PcSets
<1>7. CASE Sweep(p)
  <2>1. PICK kept, spared \in SUBSET disk.record.lines :
          \E ok : proc' = [proc EXCEPT ![p].kept = kept, ![p].pc = "rewrite", ![p].ok = ok]
    BY <1>7 DEF Sweep
  <2>2. \E x, y : SweptTo(p, "rewrite", x, y)
    BY <2>1 DEF SweptTo
  <2> QED
    BY <1>1, <2>2, GotoTyped, PcSets
<1>8. CASE Rewrite(p)
  <2>1. UNCHANGED proc \/ Goto(p, "reset") \/ OkTo(p, "reset", FALSE)
    BY <1>8 DEF Rewrite, OkTo
  <2> QED
    BY <1>2, <2>1, PcSets, CallGrows
<1>9. CASE Residue(p)
  <2>1. \E x : OkTo(p, "reclaim", x)
    BY <1>9 DEF Residue, OkTo
  <2> QED
    BY <1>2, <2>1, PcSets
<1>10. CASE Reclaim(p)
  BY <1>10, ReturnTyped DEF Reclaim
<1> QED
  BY <1>4, <1>5, <1>6, <1>7, <1>8, <1>9, <1>10 DEF EraserStep

LEMMA AsleepCallTyped ==
  ASSUME Calls, Counted, Grows, DiskTyped, NEW p \in Procs, CallTyped(p),
         \/ \E mode \in Modes : Spawn(p, mode)
         \/ Crash(p) \/ TakeLock(p) \/ Busy(p)
         \/ \E tool \in sc.tools : Call(p, tool)
  PROVE  CallTyped(p)'
<1>1. CASE \E mode \in Modes : Spawn(p, mode)
  <2>1. PICK mode \in Modes : Spawn(p, mode)
    BY <1>1
  <2>2. disk.ledger[mode].app \in 0 .. issued.app /\ 0 \in 0 .. issued.app
    BY DEF DiskTyped, RowIn, Counted
  <2>3. /\ Leaves(p) /\ proc'[p].rec = 0 /\ proc'[p].nonce = 0
        /\ proc'[p].envapp \in {0, disk.ledger[mode].app}
    BY <2>1, SpawnLeaves
  <2> QED
    BY <2>2, <2>3, GoneTyped
<1>2. CASE Crash(p)
  <2>1. Leaves(p) /\ proc'[p] = Down
    BY <1>2, CrashLeaves
  <2>2. proc'[p].rec = 0 /\ proc'[p].nonce = 0 /\ proc'[p].envapp = 0
    BY <2>1, DownFields
  <2>3. 0 \in 0 .. issued.app
    BY DEF Counted
  <2> QED
    BY <2>1, <2>2, <2>3, GoneTyped
<1>3. CASE TakeLock(p)
  <2>1. \E x : LockTo(p, "mode", x)
    BY <1>3 DEF TakeLock, LockTo
  <2>2. Moves(p, {"pc", "lock"}) /\ proc'[p].pc = "mode"
    BY <2>1, LockMoves
  <2>3. proc'[p].pc \in Places /\ proc'[p].pc \notin Making
    BY <2>2, PlaceSets, RungSets
  <2> QED
    BY <2>2, <2>3, PlodSets, PlodTyped
<1>4. CASE Busy(p)
  BY <1>4, ReturnTyped DEF Busy
<1>5. CASE \E tool \in sc.tools : Call(p, tool)
  <2>1. Moves(p, {"pc", "tool", "why"}) /\ proc'[p].pc = "lock"
    BY <1>5, CallMoves
  <2>2. proc'[p].pc \in Places /\ proc'[p].pc \notin Making
    BY <2>1, PlaceSets, PcSets, RungSets
  <2> QED
    BY <2>1, <2>2, PlodSets, PlodTyped
<1> QED
  BY <1>1, <1>2, <1>3, <1>4, <1>5

LEMMA StepCallTyped ==
  ASSUME Calls, Locks, Counted, Grows, Numbers, DiskTyped, PanelTyped, NEW p \in Procs,
         CallTyped(p), Step(p)
  PROVE  CallTyped(p)'
<1>1. CASE LadderStep(p)
  BY <1>1, EarlyCallTyped, LateCallTyped DEF LadderStep
<1>2. CASE OtherStep(p)
  BY <1>2, OtherCallTyped
<1>3. CASE EraserStep(p) \/ EraseRows(p)
  BY <1>3, EraserCallTyped
<1> QED
  BY <1>1, <1>2, <1>3, AsleepCallTyped DEF Step, LadderStep, OtherStep, EraserStep

-----------------------------------------------------------------------------
(* Types: the disk.                                                        *)

\* The updates of a ledger, with an instance n and an application a.
RowTo(c, l, n, a) ==
  \/ l = [c EXCEPT !.there = TRUE]
  \/ \E x : l = [c EXCEPT !.tables = x]
  \/ l = [c EXCEPT !.version = Current]
  \/ l = [c EXCEPT !.tables = Tables, !.version = Current]
  \/ l = [c EXCEPT !.instance = n]
  \/ l = [c EXCEPT !.data = TRUE]
  \/ l = [c EXCEPT !.fence = FALSE]
  \/ l = [c EXCEPT !.consents = FALSE]
  \/ l = [c EXCEPT !.app = a]
  \/ l = [c EXCEPT !.app = a, !.accepted = 0]
  \/ l = [c EXCEPT !.accepted = a]
  \/ l = [c EXCEPT !.data = FALSE, !.fence = FALSE, !.accepted = 0, !.instance = n]
  \/ l = [c EXCEPT !.data = FALSE, !.fence = TRUE, !.instance = n]
  \/ l = [c EXCEPT !.app = 0, !.accepted = 0, !.fence = FALSE, !.instance = n]

LEMMA RowTyped ==
  ASSUME NEW instances \in Nat, NEW apps \in Nat, NEW n \in 0 .. instances,
         NEW a \in 0 .. apps, NEW c, IsLedger(c), RowIn(c, instances, apps),
         NEW l, RowTo(c, l, n, a)
  PROVE  IsLedger(l) /\ RowIn(l, instances, apps)
<1>1. Current \in 0 .. Current + 1 /\ 0 \in 0 .. apps
  BY DEF Current
<1>2. \/ \E x : l = [c EXCEPT !.tables = x]
      \/ l = [c EXCEPT !.there = TRUE]
      \/ l = [c EXCEPT !.version = Current]
      \/ l = [c EXCEPT !.tables = Tables, !.version = Current]
      \/ l = [c EXCEPT !.instance = n]
      \/ l = [c EXCEPT !.data = TRUE]
      \/ l = [c EXCEPT !.fence = FALSE]
      \/ l = [c EXCEPT !.consents = FALSE]
      \/ l = [c EXCEPT !.app = a]
      \/ l = [c EXCEPT !.app = a, !.accepted = 0]
      \/ l = [c EXCEPT !.accepted = a]
      \/ l = [c EXCEPT !.data = FALSE, !.fence = FALSE, !.accepted = 0, !.instance = n]
      \/ l = [c EXCEPT !.data = FALSE, !.fence = TRUE, !.instance = n]
      \/ l = [c EXCEPT !.app = 0, !.accepted = 0, !.fence = FALSE, !.instance = n]
  BY Zenon DEF RowTo
<1>3. /\ IsLedger(l)
      /\ l.there = c.there \/ l.there = TRUE
      /\ l.version = c.version \/ l.version = Current
      /\ l.instance = c.instance \/ l.instance = n
      /\ l.data = c.data \/ l.data = TRUE \/ l.data = FALSE
      /\ l.fence = c.fence \/ l.fence = TRUE \/ l.fence = FALSE
      /\ l.app = c.app \/ l.app = a \/ l.app = 0
      /\ l.accepted = c.accepted \/ l.accepted = a \/ l.accepted = 0
      /\ l.consents = c.consents \/ l.consents = FALSE
  BY <1>2 DEF IsLedger
<1> QED
  BY <1>1, <1>3 DEF RowIn

LEMMA RowGrows ==
  ASSUME Counted, Grows, NEW l, RowIn(l, issued.instance, issued.app)
  PROVE  RowIn(l, issued'.instance, issued'.app)
<1>1. /\ 0 .. issued.instance \subseteq 0 .. issued'.instance
      /\ 0 .. issued.app \subseteq 0 .. issued'.app
  BY DEF Counted, Grows
<1> QED
  BY <1>1 DEF RowIn

LEMMA LinesGrow ==
  ASSUME Counted, Grows, DiskTyped
  PROVE  FilesIn(disk, issued'.nonce)
<1>1. 1 .. issued.nonce \subseteq 1 .. issued'.nonce
  BY DEF Counted, Grows
<1> QED
  BY <1>1 DEF DiskTyped, FilesIn

LEMMA WriteTyped ==
  ASSUME Calls, IsDisk(disk), Counted, Grows, DiskTyped, NEW p \in Procs, NEW l,
         NEW n \in 0 .. issued'.instance, NEW a \in 0 .. issued'.app,
         RowTo(Ledger(p), l, n, a), WriteLedger(p, l)
  PROVE  DiskTyped'
<1>1. \A m \in Modes : RowIn(disk.ledger[m], issued'.instance, issued'.app)
  BY RowGrows DEF DiskTyped
<1>2. IsLedger(l) /\ RowIn(l, issued'.instance, issued'.app)
  BY <1>1, RowsShape, RowTyped DEF Grows, Ledger, Calls
<1>3. \A m \in Modes : RowIn(disk'.ledger[m], issued'.instance, issued'.app)
  BY <1>1, <1>2, WroteRow
<1>4. FilesIn(disk', issued'.nonce)
  BY LinesGrow, LedgerLeaves DEF FilesIn
<1> QED
  BY <1>3, <1>4 DEF DiskTyped

LEMMA BesideTyped ==
  ASSUME Counted, Grows, DiskTyped, disk'.ledger = disk.ledger, FilesIn(disk', issued'.nonce)
  PROVE  DiskTyped'
BY RowGrows DEF DiskTyped

LEMMA StillTyped ==
  ASSUME Counted, Grows, DiskTyped, UNCHANGED disk
  PROVE  DiskTyped'
BY LinesGrow, BesideTyped

\* Files and folders that are there or not.
LEMMA LooseTyped ==
  ASSUME IsDisk(disk), Counted, Grows, DiskTyped, NEW x \in BOOLEAN, NEW y \in BOOLEAN,
         \/ disk' = [disk EXCEPT !.snapshots = x]
         \/ disk' = [disk EXCEPT !.staging = x]
         \/ disk' = [disk EXCEPT !.staging = x, !.published = y]
         \/ disk' = [disk EXCEPT !.published = x, !.staging = y]
         \/ disk' = [disk EXCEPT !.copies = x, !.snapshots = y]
  PROVE  DiskTyped'
<1>1. /\ disk'.ledger = disk.ledger /\ disk'.marker = disk.marker /\ disk'.record = disk.record
      /\ disk'.copies = disk.copies \/ disk'.copies = x
      /\ disk'.snapshots \in {disk.snapshots, x, y}
      /\ disk'.published \in {disk.published, x, y}
      /\ disk'.staging \in {disk.staging, x, y}
  BY DEF IsDisk
<1> QED
  BY <1>1, LinesGrow, BesideTyped DEF FilesIn

LEMMA MarkerTyped ==
  ASSUME IsDisk(disk), Counted, Grows, DiskTyped, NEW x \in Modes \cup {"absent", "torn"},
         disk' = [disk EXCEPT !.marker = x]
  PROVE  DiskTyped'
<1>1. /\ disk'.ledger = disk.ledger /\ disk'.marker = x /\ disk'.record = disk.record
      /\ disk'.copies = disk.copies /\ disk'.snapshots = disk.snapshots
      /\ disk'.published = disk.published /\ disk'.staging = disk.staging
  BY DEF IsDisk
<1> QED
  BY <1>1, LinesGrow, BesideTyped DEF FilesIn

LEMMA RecordTyped ==
  ASSUME IsDisk(disk), Counted, Grows, DiskTyped, NEW r, disk' = [disk EXCEPT !.record = r],
         r.lines \subseteq 1 .. issued'.nonce, r.torn \in BOOLEAN, r.copy \in BOOLEAN
  PROVE  DiskTyped'
<1>1. /\ disk'.ledger = disk.ledger /\ disk'.marker = disk.marker /\ disk'.record = r
      /\ disk'.copies = disk.copies /\ disk'.snapshots = disk.snapshots
      /\ disk'.published = disk.published /\ disk'.staging = disk.staging
  BY DEF IsDisk
<1> QED
  BY <1>1, LinesGrow, BesideTyped DEF FilesIn

\* The record, line by line: torn or copied, or with these lines.
LEMMA TornTyped ==
  ASSUME IsDisk(disk), Counted, Grows, DiskTyped, NEW x \in BOOLEAN, NEW y \in BOOLEAN,
         NEW lines \in SUBSET (1 .. issued'.nonce),
         \/ disk' = [disk EXCEPT !.record.torn = x]
         \/ disk' = [disk EXCEPT !.record.torn = x, !.record.lines = lines]
         \/ disk' = [disk EXCEPT !.record.copy = x]
         \/ disk' = [disk EXCEPT !.record.copy = x, !.record.torn = y]
         \/ disk' = [disk EXCEPT !.record = [NoRecord EXCEPT !.lines = lines]]
  PROVE  DiskTyped'
<1> DEFINE c == disk.record
<1>1. /\ IsRecord(c) /\ c.torn \in BOOLEAN /\ c.copy \in BOOLEAN
      /\ c.lines \subseteq 1 .. issued'.nonce
  BY LinesGrow DEF IsDisk, FilesIn
<1>2. IsRecord(NoRecord) /\ NoRecord.torn = FALSE /\ NoRecord.copy = FALSE
  BY DEF NoRecord, IsRecord
<1>3. \E r : /\ disk' = [disk EXCEPT !.record = r]
             /\ \/ r = [c EXCEPT !.torn = x]
                \/ r = [c EXCEPT !.torn = x, !.lines = lines]
                \/ r = [c EXCEPT !.copy = x]
                \/ r = [c EXCEPT !.copy = x, !.torn = y]
                \/ r = [NoRecord EXCEPT !.lines = lines]
  BY DEF IsDisk
<1>4. PICK r : /\ disk' = [disk EXCEPT !.record = r]
               /\ \/ r = [c EXCEPT !.torn = x]
                  \/ r = [c EXCEPT !.torn = x, !.lines = lines]
                  \/ r = [c EXCEPT !.copy = x]
                  \/ r = [c EXCEPT !.copy = x, !.torn = y]
                  \/ r = [NoRecord EXCEPT !.lines = lines]
  BY <1>3
<1> HIDE DEF c
<1>5. /\ r.torn \in {c.torn, x, y, FALSE} /\ r.copy \in {c.copy, x, FALSE}
      /\ r.lines \in {c.lines, lines}
  BY <1>1, <1>2, <1>4 DEF IsRecord
<1> QED
  BY <1>1, <1>4, <1>5, RecordTyped

LEMMA NumberBounds ==
  ASSUME Counted, Grows
  PROVE  /\ 0 \in 0 .. issued'.instance /\ 0 \in 0 .. issued'.app
         /\ 0 .. issued.app \subseteq 0 .. issued'.app
BY DEF Counted, Grows

LEMMA OtherDiskTyped ==
  ASSUME Installed, Counted, Grows, DiskTyped, NEW p \in Procs, OtherStep(p)
  PROVE  DiskTyped'
<1>1. IsDisk(disk) /\ Calls /\ Numbers
  BY DEF Installed, Shapes
<1>2. CASE UNCHANGED disk
  BY <1>2, StillTyped
<1>3. ASSUME NEW l, NEW n \in 0 .. issued'.instance, NEW a \in 0 .. issued'.app,
             RowTo(Ledger(p), l, n, a), WriteLedger(p, l)
      PROVE  DiskTyped'
  BY <1>1, <1>3, WriteTyped
<1>4. CASE CheckMode(p) \/ CheckFence(p) \/ TakeOpenLock(p) \/ OpenBusy(p)
  BY <1>2, <1>4 DEF CheckMode, CheckFence, TakeOpenLock, OpenBusy
<1>5. CASE OpenFile(p)
  <2>1. WriteLedger(p, [Ledger(p) EXCEPT !.there = TRUE])
    BY <1>5 DEF OpenFile
  <2>2. RowTo(Ledger(p), [Ledger(p) EXCEPT !.there = TRUE], 0, 0)
    BY Zenon DEF RowTo
  <2> QED
    BY <1>3, <2>1, <2>2, NumberBounds
<1>6. CASE Schema(p)
  <2>1. WriteLedger(p, SchemaStep(Ledger(p)))
    BY <1>6 DEF Schema
  <2>2. RowTo(Ledger(p), SchemaStep(Ledger(p)), 0, 0)
    BY Zenon DEF SchemaStep, RowTo
  <2> QED
    BY <1>3, <2>1, <2>2, NumberBounds
<1>7. CASE Snapshot(p)
  <2>1. UNCHANGED disk \/ disk' = [disk EXCEPT !.snapshots = TRUE]
    BY <1>7 DEF Snapshot
  <2> QED
    BY <1>1, <1>2, <2>1, LooseTyped
<1>8. CASE Migrate(p)
  <2>1. \/ UNCHANGED disk
        \/ WriteLedger(p, [Ledger(p) EXCEPT !.tables = Tables, !.version = Current])
    BY <1>8 DEF Migrate
  <2>2. RowTo(Ledger(p), [Ledger(p) EXCEPT !.tables = Tables, !.version = Current], 0, 0)
    BY Zenon DEF RowTo
  <2> QED
    BY <1>2, <1>3, <2>1, <2>2, NumberBounds
<1>9. CASE Mint(p)
  <2>1. \/ UNCHANGED disk
        \/ /\ WriteLedger(p, [Ledger(p) EXCEPT !.instance = issued.instance + 1])
           /\ issued' = [issued EXCEPT !.instance = @ + 1]
    BY <1>9 DEF Mint
  <2>2. RowTo(Ledger(p), [Ledger(p) EXCEPT !.instance = issued.instance + 1],
              issued.instance + 1, 0)
    BY Zenon DEF RowTo
  <2>3. issued' = [issued EXCEPT !.instance = @ + 1]
          => issued.instance + 1 \in 0 .. issued'.instance
    BY <1>1 DEF Numbers, Counted
  <2> QED
    BY <1>2, <1>3, <2>1, <2>2, <2>3, NumberBounds
<1>10. CASE Mark(p) \/ Sign(p)
  <2>1. \/ UNCHANGED disk
        \/ disk' = [disk EXCEPT !.marker = "torn"]
        \/ disk' = [disk EXCEPT !.marker = proc[p].mode]
    BY <1>10 DEF Mark, Sign
  <2>2. proc[p].mode \in Modes
    BY <1>1 DEF Calls
  <2> QED
    BY <1>1, <1>2, <2>1, <2>2, MarkerTyped
<1>11. CASE Write(p)
  <2> DEFINE l == [Ledger(p) EXCEPT !.data = TRUE]
  <2>1. PICK x \in {disk.copies, TRUE} : WriteData(p, l, x)
    BY <1>11 DEF Write, WriteData
  <2>2. RowTo(Ledger(p), l, 0, 0)
    BY Zenon DEF RowTo
  <2> HIDE DEF l
  <2>3. \A m \in Modes : RowIn(disk.ledger[m], issued'.instance, issued'.app)
    BY RowGrows DEF DiskTyped
  <2>4. IsLedger(l) /\ RowIn(l, issued'.instance, issued'.app)
    BY <1>1, <2>2, <2>3, RowsShape, RowTyped, NumberBounds DEF Grows, Ledger, Calls
  <2>5. /\ disk'.ledger[proc[p].mode] = l
        /\ \A m \in Modes \ {proc[p].mode} : disk'.ledger[m] = disk.ledger[m]
    BY <1>1, <2>1, <2>4, DataEffect DEF Calls
  <2>6. \A m \in Modes : RowIn(disk'.ledger[m], issued'.instance, issued'.app)
    BY <2>3, <2>4, <2>5
  <2>7. disk'.copies = x /\ disk'.marker = disk.marker /\ disk'.record = disk.record
        /\ disk'.snapshots = disk.snapshots /\ disk'.published = disk.published
        /\ disk'.staging = disk.staging
    <3> DEFINE ledger == [disk.ledger EXCEPT ![proc[p].mode] = l]
    <3>1. disk' = [disk EXCEPT !.ledger = ledger, !.copies = x]
      BY <2>1 DEF WriteData
    <3> HIDE DEF ledger
    <3> QED
      BY <1>1, <3>1 DEF IsDisk
  <2>8. FilesIn(disk', issued'.nonce)
    BY <2>7, LinesGrow DEF FilesIn
  <2> QED
    BY <2>6, <2>8 DEF DiskTyped
<1>12. CASE Stage(p) \/ Publish(p)
  <2>1. \/ disk' = [disk EXCEPT !.staging = TRUE]
        \/ disk' = [disk EXCEPT !.staging = FALSE, !.published = TRUE]
        \/ disk' = [disk EXCEPT !.staging = FALSE]
    BY <1>12 DEF Stage, Publish
  <2> QED
    BY <1>1, <2>1, LooseTyped
<1> QED
  BY <1>4, <1>5, <1>6, <1>7, <1>8, <1>9, <1>10, <1>11, <1>12 DEF OtherStep

LEMMA LadderDiskTyped ==
  ASSUME Installed, Counted, Grows, DiskTyped, NEW p \in Procs, CallTyped(p), LadderStep(p)
  PROVE  DiskTyped'
<1>1. IsDisk(disk) /\ Calls /\ Numbers
  BY DEF Installed, Shapes
<1>2. CASE UNCHANGED disk
  BY <1>2, StillTyped
<1>3. ASSUME NEW l, NEW n \in 0 .. issued'.instance, NEW a \in 0 .. issued'.app,
             RowTo(Ledger(p), l, n, a), WriteLedger(p, l)
      PROVE  DiskTyped'
  BY <1>1, <1>3, WriteTyped
<1>4. ASSUME NEW a \in 0 .. issued.app, Bound(p, a) \/ BoundAlive(p, a)
      PROVE  DiskTyped'
  <2>1. /\ RowTo(Ledger(p), [Ledger(p) EXCEPT !.app = a], 0, a)
        /\ RowTo(Ledger(p), [Ledger(p) EXCEPT !.app = a, !.accepted = 0], 0, a)
    BY Zenon DEF RowTo
  <2> QED
    BY <1>3, <1>4, <2>1, NumberBounds DEF Bound, BoundAlive
<1>5. /\ Ledger(p).app \in 0 .. issued.app
      /\ proc[p].rec \in 0 .. issued.app /\ proc[p].envapp \in 0 .. issued.app
      /\ \A a \in Matches(p) : a.id \in 0 .. issued.app
  BY <1>1 DEF DiskTyped, RowIn, Ledger, Calls, CallTyped, Matches, Counted
<1>6. CASE WiredApp(p) \/ Recognise(p) \/ Keyed(p) \/ Verify(p) \/ Health(p)
  <2>1. \/ UNCHANGED disk
        \/ Bound(p, proc[p].envapp) \/ BoundAlive(p, Ledger(p).app)
        \/ BoundAlive(p, proc[p].rec)
        \/ \E a \in Matches(p) : BoundAlive(p, a.id)
    BY <1>6, Zenon DEF WiredApp, Recognise, Keyed, Verify, Health
  <2> QED
    BY <1>2, <1>4, <1>5, <2>1
<1>7. CASE Lift(p)
  <2>1. UNCHANGED disk \/ WriteLedger(p, [Ledger(p) EXCEPT !.fence = FALSE])
    BY <1>7 DEF Lift
  <2>2. RowTo(Ledger(p), [Ledger(p) EXCEPT !.fence = FALSE], 0, 0)
    BY Zenon DEF RowTo
  <2> QED
    BY <1>2, <1>3, <2>1, <2>2, NumberBounds
<1>8. CASE Accept(p)
  <2>1. WriteLedger(p, [Ledger(p) EXCEPT !.accepted = proc[p].rec])
    BY <1>8 DEF Accept
  <2>2. RowTo(Ledger(p), [Ledger(p) EXCEPT !.accepted = proc[p].rec], 0, proc[p].rec)
    BY Zenon DEF RowTo
  <2> QED
    BY <1>3, <1>5, <2>1, <2>2, NumberBounds
<1>9. CASE StartLine(p)
  <2>1. disk' = [disk EXCEPT !.record.torn = TRUE] /\ {} \in SUBSET (1 .. issued'.nonce)
    BY <1>9 DEF StartLine
  <2> QED
    BY <1>1, <2>1, TornTyped
<1>10. CASE EndLine(p)
  <2>1. \/ \E torn \in BOOLEAN : disk' = [disk EXCEPT !.record.torn = torn]
        \/ disk' = [disk EXCEPT !.record.torn = FALSE,
                                !.record.lines = @ \cup {proc[p].nonce}]
    BY <1>10 DEF EndLine
  <2>2. proc[p].nonce \in 1 .. issued.nonce
    <3>1. proc[p].nonce # 0 /\ proc[p].nonce \in 0 .. issued.nonce
      BY <1>10 DEF EndLine, Installed, Records, CallTyped
    <3> QED
      BY <3>1 DEF Counted
  <2> DEFINE lines == disk.record.lines \cup {proc[p].nonce}
  <2>3. lines \subseteq 1 .. issued'.nonce
    <3>1. 1 .. issued.nonce \subseteq 1 .. issued'.nonce
      BY DEF Counted, Grows
    <3> QED
      BY <2>2, <3>1 DEF DiskTyped, FilesIn
  <2>4. \/ \E torn \in BOOLEAN : disk' = [disk EXCEPT !.record.torn = torn]
        \/ disk' = [disk EXCEPT !.record.torn = FALSE, !.record.lines = lines]
    BY <1>1, <2>1 DEF IsDisk, IsRecord
  <2> HIDE DEF lines
  <2>5. lines \in SUBSET (1 .. issued'.nonce)
    BY <2>3
  <2> QED
    BY <1>1, <2>4, <2>5, TornTyped
<1>11. CASE \/ ResolveKey(p) \/ ConfirmAbsent(p) \/ Create(p) \/ Answer(p) \/ ReadBack(p)
            \/ Credential(p) \/ ReadBinding(p) \/ List(p) \/ Search(p) \/ Register(p)
            \/ Vanished(p)
  BY <1>2, <1>11 DEF ResolveKey, ConfirmAbsent, Create, Answer, ReadBack, Credential,
     ReadBinding, List, Search, Register, Vanished
<1> QED
  BY <1>6, <1>7, <1>8, <1>9, <1>10, <1>11 DEF LadderStep

LEMMA EraserDiskTyped ==
  ASSUME Installed, Counted, Grows, DiskTyped, NEW p \in Procs, EraseRows(p) \/ EraserStep(p)
  PROVE  DiskTyped'
<1>1. IsDisk(disk) /\ Calls /\ Numbers
  BY DEF Installed, Shapes
<1>2. CASE UNCHANGED disk
  BY <1>2, StillTyped
<1>3. ASSUME NEW l, NEW n \in 0 .. issued'.instance, NEW a \in 0 .. issued'.app,
             RowTo(Ledger(p), l, n, a), WriteLedger(p, l)
      PROVE  DiskTyped'
  BY <1>1, <1>3, WriteTyped
<1>4. CASE EraseCopies(p) \/ EraseExports(p) \/ Residue(p) \/ Reclaim(p)
  <2>1. \/ UNCHANGED disk
        \/ disk' = [disk EXCEPT !.copies = FALSE, !.snapshots = FALSE]
        \/ disk' = [disk EXCEPT !.published = FALSE, !.staging = FALSE]
        \/ disk' = [disk EXCEPT !.snapshots = FALSE]
    BY <1>4 DEF EraseCopies, EraseExports, Residue, Reclaim, Attempt
  <2> QED
    BY <1>1, <1>2, <2>1, LooseTyped
<1>5. CASE EraseRows(p)
  <2>1. \/ UNCHANGED disk
        \/ /\ WriteLedger(p, Emptied(p))
           /\ issued' = [issued EXCEPT !.instance = @ + 1]
    BY <1>5 DEF EraseRows
  <2>2. RowTo(Ledger(p), Emptied(p), issued.instance + 1, 0)
    BY Zenon DEF RowTo, Emptied
  <2>3. issued' = [issued EXCEPT !.instance = @ + 1]
          => issued.instance + 1 \in 0 .. issued'.instance
    BY <1>1 DEF Numbers, Counted
  <2> QED
    BY <1>2, <1>3, <2>1, <2>2, <2>3, NumberBounds
<1>6. CASE Withdraw(p)
  <2>1. UNCHANGED disk \/ WriteLedger(p, [Ledger(p) EXCEPT !.consents = FALSE])
    BY <1>6 DEF Withdraw
  <2>2. RowTo(Ledger(p), [Ledger(p) EXCEPT !.consents = FALSE], 0, 0)
    BY Zenon DEF RowTo
  <2> QED
    BY <1>2, <1>3, <2>1, <2>2, NumberBounds
<1>7. CASE Sweep(p)
  <2>1. /\ disk' = [disk EXCEPT !.record.copy = FALSE, !.record.torn = FALSE]
        /\ {} \in SUBSET (1 .. issued'.nonce)
    BY <1>7 DEF Sweep
  <2> QED
    BY <1>1, <2>1, TornTyped
<1>8. CASE Rewrite(p)
  <2>1. \/ UNCHANGED disk
        \/ disk' = [disk EXCEPT !.record.copy = TRUE]
        \/ disk' = [disk EXCEPT !.record = [NoRecord EXCEPT !.lines = proc[p].kept]]
    BY <1>8 DEF Rewrite
  <2>2. proc[p].kept \subseteq disk.record.lines
    BY <1>8 DEF Rewrite, Installed, Records
  <2>3. proc[p].kept \in SUBSET (1 .. issued'.nonce)
    BY <2>2, LinesGrow DEF FilesIn
  <2> QED
    BY <1>1, <1>2, <2>1, <2>3, TornTyped
<1>9. CASE Reset(p)
  <2> DEFINE l == [Ledger(p) EXCEPT !.app = 0, !.accepted = 0, !.fence = FALSE,
                                    !.instance = issued.instance + 1]
  <2>1. /\ UNCHANGED disk \/ WriteLedger(p, l)
        /\ issued' = [issued EXCEPT !.instance = @ + 1]
    BY <1>9 DEF Reset, Attempt, WriteLedger
  <2>2. RowTo(Ledger(p), l, issued.instance + 1, 0)
    BY Zenon DEF RowTo
  <2>3. issued.instance + 1 \in 0 .. issued'.instance
    BY <1>1, <2>1 DEF Numbers, Counted
  <2> HIDE DEF l
  <2> QED
    BY <1>2, <1>3, <2>1, <2>2, <2>3, NumberBounds
<1> QED
  BY <1>4, <1>5, <1>6, <1>7, <1>8, <1>9 DEF EraserStep

-----------------------------------------------------------------------------
(* Types: what is outside, and the invariant.                              *)

Titles == Modes \X {"key", "credential"}

Titled ==
  /\ \A i \in vault : i.title \in Titles
  /\ \A kid \in kids : kid.title \in Titles

Typed ==
  /\ Counted /\ DiskTyped /\ PanelTyped /\ Titled
  /\ opener \in Procs \cup {Nobody}
  /\ \A p \in Procs : CallTyped(p)

LEMMA MadeTyped ==
  ASSUME Calls, Numbers, Counted, Grows, PanelTyped, NEW p \in Procs, Step(p)
  PROVE  PanelTyped'
<1>1. 1 .. issued.app \subseteq 1 .. issued'.app
  BY DEF Counted, Grows
<1>2. CASE UNCHANGED panel
  BY <1>1, <1>2 DEF PanelTyped
<1>3. CASE panel' = panel \cup {Made(p)} /\ issued' = [issued EXCEPT !.app = issued.app + 1]
  <2>1. /\ IsApp(Made(p)) /\ Made(p).id = issued.app + 1 /\ Made(p).world = proc[p].mode
    BY DEF IsApp, Made
  <2>2. issued'.app = issued.app + 1
    BY <1>3 DEF Numbers
  <2>3. issued.app + 1 \in 1 .. issued'.app /\ proc[p].mode \in Modes
    BY <2>2 DEF Counted, Calls
  <2> QED
    BY <1>1, <1>3, <2>1, <2>3 DEF PanelTyped
<1>4. CASE Register(p)
  <2>1. \/ UNCHANGED panel
        \/ panel' = panel \cup {Made(p)} /\ issued' = [issued EXCEPT !.app = issued.app + 1]
    BY <1>4 DEF Register, Made
  <2> QED
    BY <1>2, <1>3, <2>1
<1> QED
  BY <1>2, <1>4, PanelStays

LEMMA MovedTyped ==
  ASSUME PanelTyped, UNCHANGED issued, NEW a \in panel, Flap(a) \/ Drift(a)
  PROVE  PanelTyped'
<1>1. PICK b : /\ panel' = (panel \ {a}) \cup {b}
               /\ b = [a EXCEPT !.listed = ~@] \/ b = [a EXCEPT !.ours = FALSE]
  BY DEF Flap, Drift
<1>2. IsApp(a)
  BY DEF PanelTyped
<1>3. IsApp(b) /\ b.id = a.id /\ b.world = a.world
  BY <1>1, <1>2 DEF IsApp
<1> QED
  BY <1>1, <1>3 DEF PanelTyped

LEMMA CreateTitles ==
  ASSUME Calls, Titled, NEW p \in Procs, CallTyped(p), Create(p)
  PROVE  Titled'
<1>1. proc[p].mode \in Modes /\ proc[p].item \in {"key", "credential"}
  BY RungSets DEF Create, CallTyped, Calls
<1>2. Child(p).title = <<proc[p].mode, proc[p].item>>
  BY DEF Child
<1>3. Child(p).title \in Titles
  BY <1>1, <1>2 DEF Titles
<1> QED
  BY <1>3 DEF Create, Titled

LEMMA KidsStay ==
  ASSUME NEW p, Step(p), ~Create(p)
  PROVE  UNCHANGED kids
<1>1. CASE LadderStep(p)
  BY <1>1 DEF LadderStep, Lift, ResolveKey, ConfirmAbsent, StartLine, EndLine, Answer,
     ReadBack, Credential, WiredApp, ReadBinding, List, Recognise, Search, Keyed, Register,
     Verify, Health, Vanished, Accept
<1>2. CASE OtherStep(p)
  BY <1>2 DEF OtherStep, CheckMode, CheckFence, TakeOpenLock, OpenBusy, OpenFile, Schema, Snapshot,
     Migrate, Mint, Mark, Sign, Write, Stage, Publish
<1>3. CASE EraserStep(p) \/ EraseRows(p)
  BY <1>3 DEF EraseRows, EraserStep, EraseCopies, Withdraw, EraseExports, Sweep, Rewrite, Reset,
     Residue, Reclaim
<1>4. CASE \/ Crash(p) \/ TakeLock(p) \/ Busy(p)
           \/ \E mode \in Modes : Spawn(p, mode)
           \/ \E tool \in sc.tools : Call(p, tool)
  BY <1>4 DEF Crash, TakeLock, Busy, Spawn, Call
<1> QED
  BY <1>1, <1>2, <1>3, <1>4 DEF Step, LadderStep, OtherStep, EraserStep

LEMMA StepTitled ==
  ASSUME Calls, Titled, NEW p \in Procs, CallTyped(p), Step(p)
  PROVE  Titled'
<1>1. vault' \subseteq vault
  <2>1. CASE Sweep(p)
    BY <2>1 DEF Sweep
  <2> QED
    BY <2>1, VaultStays
<1>2. CASE Create(p)
  BY <1>2, CreateTitles
<1>3. CASE ~Create(p)
  BY <1>1, <1>3, KidsStay DEF Titled
<1> QED
  BY <1>2, <1>3

LEMMA StepOpener ==
  ASSUME opener \in Procs \cup {Nobody}, NEW p \in Procs, Step(p)
  PROVE  opener' \in Procs \cup {Nobody}
<1>1. CASE LadderStep(p)
  BY <1>1 DEF LadderStep, Lift, ResolveKey, ConfirmAbsent, StartLine, EndLine, Create, Answer,
     ReadBack, Credential, WiredApp, ReadBinding, List, Recognise, Search, Keyed, Register,
     Verify, Health, Vanished, Accept
<1>2. CASE OtherStep(p)
  BY <1>2 DEF OtherStep, CheckMode, CheckFence, TakeOpenLock, OpenBusy, OpenFile, Schema, Snapshot,
     Migrate, Mint, Mark, Sign, Write, Stage, Publish, Refuse, Connected
<1>3. CASE EraserStep(p) \/ EraseRows(p)
  BY <1>3 DEF EraseRows, EraserStep, EraseCopies, Withdraw, EraseExports, Sweep, Rewrite, Reset,
     Residue, Reclaim
<1>4. CASE \/ Crash(p) \/ TakeLock(p) \/ Busy(p)
           \/ \E mode \in Modes : Spawn(p, mode)
           \/ \E tool \in sc.tools : Call(p, tool)
  BY <1>4 DEF Crash, TakeLock, Busy, Spawn, Call
<1> QED
  BY <1>1, <1>2, <1>3, <1>4 DEF Step, LadderStep, OtherStep, EraserStep

LEMMA AsleepLeavesDisk ==
  ASSUME NEW p, \/ Crash(p) \/ TakeLock(p) \/ Busy(p)
                \/ \E mode \in Modes : Spawn(p, mode)
                \/ \E tool \in sc.tools : Call(p, tool)
  PROVE  UNCHANGED disk
BY DEF Crash, TakeLock, Busy, Spawn, Call

LEMMA StepTyped ==
  ASSUME Installed, Typed, NEW p \in Procs, Step(p)
  PROVE  Typed'
<1>1. Calls /\ Locks /\ Numbers /\ CallTyped(p) /\ Counted /\ DiskTyped /\ PanelTyped
  BY DEF Installed, Shapes, Typed
<1>2. Grows /\ Counted'
  BY <1>1, StepIssues, NextGrows
<1>3. DiskTyped'
  <2>1. CASE OtherStep(p) \/ LadderStep(p) \/ EraseRows(p) \/ EraserStep(p)
    BY <1>1, <1>2, <2>1, OtherDiskTyped, LadderDiskTyped, EraserDiskTyped
  <2>2. CASE ~(OtherStep(p) \/ LadderStep(p) \/ EraseRows(p) \/ EraserStep(p))
    <3>1. \/ Crash(p) \/ TakeLock(p) \/ Busy(p)
          \/ \E mode \in Modes : Spawn(p, mode)
          \/ \E tool \in sc.tools : Call(p, tool)
      BY <2>2 DEF Step, LadderStep, OtherStep, EraserStep
    <3> QED
      BY <1>1, <1>2, <3>1, AsleepLeavesDisk, StillTyped
  <2> QED
    BY <2>1, <2>2
<1>4. PanelTyped'
  BY <1>1, <1>2, MadeTyped
<1>5. Titled' /\ opener' \in Procs \cup {Nobody}
  BY <1>1, StepTitled, StepOpener DEF Typed
<1>6. \A q \in Procs : CallTyped(q)'
  <2>1. \A q \in Procs \ {p} : proc'[q] = proc[q] /\ CallTyped(q)
    BY <1>1, StepAlone DEF Typed
  <2>2. \A q \in Procs \ {p} : CallTyped(q)'
    BY <1>1, <1>2, <2>1, CallGrows
  <2> QED
    BY <1>1, <1>2, <2>2, StepCallTyped
<1> QED
  BY <1>2, <1>3, <1>4, <1>5, <1>6 DEF Typed

LEMMA NextTyped ==
  ASSUME Installed, Typed, [Next]_vars
  PROVE  Typed'
<1>1. Calls /\ Numbers /\ IsDisk(disk) /\ Counted /\ DiskTyped /\ PanelTyped /\ Titled
  BY DEF Installed, Shapes, Typed
<1>2. CASE \E p \in sc.procs : Step(p)
  BY <1>2, ProcsOfScenario, StepTyped
<1>3. ASSUME UNCHANGED <<proc, opener, issued>>, DiskTyped', PanelTyped', Titled'
      PROVE  Typed'
  BY <1>3 DEF Typed, Counted, CallTyped
<1>4. UNCHANGED issued => Grows
  BY <1>1 DEF Counted, Grows
<1>5. CASE \E kid \in kids : ChildEnds(kid)
  <2>1. PICK kid \in kids : ChildEnds(kid)
    BY <1>5
  <2>2. Titled'
    BY <1>1, <2>1 DEF ChildEnds, Titled
  <2>3. DiskTyped' /\ PanelTyped'
    BY <1>1, <1>4, <2>1, StillTyped DEF ChildEnds, PanelTyped
  <2> QED
    BY <1>3, <2>1, <2>2, <2>3 DEF ChildEnds
<1>6. CASE \E a \in panel : Flap(a) \/ Drift(a)
  <2>1. UNCHANGED <<disk, vault, proc, opener, kids, issued>>
    BY <1>6 DEF Flap, Drift
  <2>2. DiskTyped' /\ Titled'
    BY <1>1, <1>4, <2>1, StillTyped DEF Titled
  <2>3. PanelTyped'
    BY <1>1, <1>6, <2>1, MovedTyped
  <2> QED
    BY <1>3, <2>1, <2>2, <2>3
<1>7. CASE ClearMarker
  <2>1. UNCHANGED <<vault, panel, proc, opener, kids, issued>>
    BY <1>7 DEF ClearMarker
  <2>2. DiskTyped'
    BY <1>1, <1>4, <1>7, <2>1, MarkerTyped DEF ClearMarker
  <2>3. PanelTyped' /\ Titled'
    BY <1>1, <2>1 DEF PanelTyped, Titled
  <2> QED
    BY <1>3, <2>1, <2>2, <2>3
<1>8. CASE UNCHANGED vars
  <2>1. UNCHANGED <<disk, vault, panel, proc, opener, kids, issued>>
    BY <1>8 DEF vars
  <2>2. DiskTyped' /\ PanelTyped' /\ Titled'
    BY <1>1, <1>4, <2>1, StillTyped DEF PanelTyped, Titled
  <2> QED
    BY <1>3, <2>1, <2>2
<1> QED
  BY <1>2, <1>5, <1>6, <1>7, <1>8 DEF Next

LEMMA RowsOfBegun ==
  ASSUME NEW l, RowIn(l, 1, 1), NEW marker \in Modes \cup {"absent"}, NEW record,
         record.lines \subseteq {1}, record.torn = FALSE, record.copy = FALSE,
         NEW files \in BOOLEAN, NEW d, d = Disk(OnProduction(l), marker, record, files)
  PROVE  FilesIn(d, 1) /\ \A m \in Modes : RowIn(d.ledger[m], 1, 1)
<1>1. RowIn(NoLedger, 1, 1)
  BY DEF RowIn, NoLedger, Current
<1> DEFINE ledger == OnProduction(l)
<1>2. \A m \in Modes : ledger[m] \in {l, NoLedger}
  BY DEF OnProduction
<1> HIDE DEF ledger
<1>3. \A m \in Modes : RowIn(ledger[m], 1, 1)
  BY <1>1, <1>2
<1>4. d = Disk(ledger, marker, record, files)
  BY DEF ledger
<1>5. /\ d.ledger = ledger /\ d.marker = marker /\ d.record = record
      /\ d.copies = files /\ d.published = files /\ d.snapshots = FALSE /\ d.staging = FALSE
  BY <1>4 DEF Disk
<1>6. d.record.lines \subseteq 1 .. 1
  <2>1. 1 \in 1 .. 1
    OBVIOUS
  <2> QED
    BY <1>5, <2>1
<1>7. /\ {d.copies, d.snapshots, d.published, d.staging} \subseteq BOOLEAN
      /\ {d.record.torn, d.record.copy} \subseteq BOOLEAN
  BY <1>5
<1> QED
  BY <1>3, <1>5, <1>6, <1>7 DEF FilesIn

LEMMA BegunTyped ==
  ASSUME NEW kind
  PROVE  /\ FilesIn(Begun(kind), 1)
         /\ \A m \in Modes : RowIn(Begun(kind).ledger[m], 1, 1)
<1> DEFINE base == Standing
<1> DEFINE live == [base EXCEPT !.consents = TRUE, !.app = 1]
<1> DEFINE old == [base EXCEPT !.tables = 2, !.version = 1]
<1> DEFINE newer == [base EXCEPT !.version = Current + 1]
<1> DEFINE none == NoRecord
<1> DEFINE one == [none EXCEPT !.lines = {1}]
<1>1. /\ base.there = TRUE /\ base.version = 2 /\ base.instance = 1 /\ base.data = TRUE
      /\ base.fence = FALSE /\ base.app = 0 /\ base.accepted = 0 /\ base.consents = FALSE
      /\ IsLedger(base)
  <2> DEFINE l == NoLedger
  <2>1. /\ IsLedger(l) /\ l.fence = FALSE /\ l.app = 0 /\ l.accepted = 0 /\ l.consents = FALSE
        /\ base = [l EXCEPT !.there = TRUE, !.tables = Tables, !.version = Current,
                            !.instance = 1, !.data = TRUE]
    BY DEF IsLedger, NoLedger, Standing
  <2> HIDE DEF l, base
  <2> QED
    BY <2>1 DEF IsLedger, Current
<1>2. /\ IsRecord(none) /\ none.lines = {} /\ none.torn = FALSE /\ none.copy = FALSE
  BY DEF NoRecord, IsRecord
<1>3. /\ live = [base EXCEPT !.consents = TRUE, !.app = 1]
      /\ old = [base EXCEPT !.tables = 2, !.version = 1]
      /\ newer = [base EXCEPT !.version = Current + 1]
      /\ one = [none EXCEPT !.lines = {1}]
  OBVIOUS
<1>4. \/ Begun(kind) = Disk(OnProduction(old), "PRODUCTION", none, FALSE)
      \/ Begun(kind) = Disk(OnProduction(newer), "PRODUCTION", none, FALSE)
      \/ Begun(kind) = Disk(OnProduction(live), "PRODUCTION", one, TRUE)
      \/ Begun(kind) = Disk(OnProduction(NoLedger), "absent", none, FALSE)
  BY Zenon DEF Begun
<1> HIDE DEF base, live, old, newer, none, one
<1>5. /\ live.there = TRUE /\ live.version = 2 /\ live.instance = 1 /\ live.data = TRUE
      /\ live.fence = FALSE /\ live.app = 1 /\ live.accepted = 0 /\ live.consents = TRUE
  BY <1>1, <1>3 DEF IsLedger
<1>6. /\ old.there = TRUE /\ old.version = 1 /\ old.instance = 1 /\ old.data = TRUE
      /\ old.fence = FALSE /\ old.app = 0 /\ old.accepted = 0 /\ old.consents = FALSE
  BY <1>1, <1>3 DEF IsLedger
<1>7. /\ newer.there = TRUE /\ newer.version = 3 /\ newer.instance = 1 /\ newer.data = TRUE
      /\ newer.fence = FALSE /\ newer.app = 0 /\ newer.accepted = 0 /\ newer.consents = FALSE
  BY <1>1, <1>3 DEF IsLedger, Current
<1>8. RowIn(live, 1, 1) /\ RowIn(old, 1, 1) /\ RowIn(newer, 1, 1)
  <2>1. /\ 0 \in 0 .. 1 /\ 1 \in 0 .. 1
        /\ 1 \in 0 .. Current + 1 /\ 2 \in 0 .. Current + 1 /\ 3 \in 0 .. Current + 1
    BY DEF Current
  <2>2. RowIn(live, 1, 1)
    BY <1>5, <2>1 DEF RowIn
  <2>3. RowIn(old, 1, 1)
    BY <1>6, <2>1 DEF RowIn
  <2>4. RowIn(newer, 1, 1)
    BY <1>7, <2>1 DEF RowIn
  <2> QED
    BY <2>2, <2>3, <2>4
<1>9. RowIn(NoLedger, 1, 1)
  BY DEF RowIn, NoLedger, Current
<1>10. one.lines = {1} /\ one.torn = FALSE /\ one.copy = FALSE
  BY <1>2, <1>3 DEF IsRecord
<1>11. /\ {"PRODUCTION", "absent"} \subseteq Modes \cup {"absent"}
       /\ none.lines \subseteq {1} /\ one.lines \subseteq {1}
  BY <1>2, <1>10 DEF Modes
<1> QED
  BY <1>2, <1>4, <1>8, <1>9, <1>10, <1>11, RowsOfBegun

LEMMA InitTyped ==
  ASSUME Init
  PROVE  Typed
<1>1. /\ disk = Begun(sc.begun) /\ opener = Nobody /\ kids = {}
      /\ issued = [instance |-> 1, nonce |-> 1, app |-> 1]
      /\ \A p \in Procs : proc[p] = Down
  BY DEF Init
<1>2. issued.instance = 1 /\ issued.nonce = 1 /\ issued.app = 1
  BY <1>1
<1>3. Counted /\ DiskTyped
  BY <1>1, <1>2, BegunTyped DEF Counted, DiskTyped
<1>4. PanelTyped
  BY <1>2 DEF Init, PanelTyped, IsApp, Modes
<1>5. Titled
  BY <1>1 DEF Init, OurKey, KeyItem, Titled, Titles, Modes
<1>6. \A p \in Procs : CallTyped(p)
  <2>1. "down" \in Places /\ "down" \notin Making
    BY PlaceSets, PcSets, RungSets
  <2>2. /\ Down.pc = "down" /\ Down.nonce = 0 /\ Down.rec = 0 /\ Down.envapp = 0
        /\ Down.seen = {}
    BY DEF Down
  <2>3. 0 \in 0 .. issued.nonce /\ 0 \in 0 .. issued.app
    BY <1>2
  <2> QED
    BY <1>1, <2>1, <2>2, <2>3 DEF CallTyped
<1> QED
  BY <1>1, <1>3, <1>4, <1>5, <1>6 DEF Typed

LEMMA TypedIsTypeOK ==
  ASSUME Installed, Typed
  PROVE  TypeOK
<1>1. \A m \in Modes : LET l == disk.ledger[m] IN
       /\ l.tables \in 0 .. Tables /\ l.version \in 0 .. Current + 1
       /\ l.instance \in 0 .. issued.instance
       /\ {l.app, l.accepted} \subseteq 0 .. issued.app
       /\ {l.there, l.data, l.fence, l.consents} \subseteq BOOLEAN
  BY DEF Installed, Schemas, Typed, DiskTyped, RowIn
<1>2. /\ disk.marker \in Modes \cup {"absent", "torn"}
      /\ {disk.copies, disk.snapshots, disk.published, disk.staging} \subseteq BOOLEAN
      /\ disk.record.lines \subseteq 1 .. issued.nonce
      /\ {disk.record.torn, disk.record.copy} \subseteq BOOLEAN
  BY DEF Typed, DiskTyped, FilesIn
<1>3. {i.title : i \in vault} \cup {k.title : k \in kids} \subseteq Modes \X {"key", "credential"}
  BY DEF Typed, Titled, Titles
<1>4. \A a \in panel : a.id \in 1 .. issued.app /\ a.world \in Modes
  BY DEF Typed, PanelTyped
<1>5. ASSUME NEW p \in Procs
      PROVE  /\ proc[p].pc \in UNION {Pcs[part] : part \in DOMAIN Pcs}
             /\ (proc[p].lock # "none") <=> (proc[p].pc \notin Pcs.down)
             /\ proc[p].lock = "ex" => \A q \in Procs \ {p} : proc[q].lock = "none"
             /\ proc[p].pc \in Pcs.erasing => proc[p].tool \in {"erase_all", "erase_data"}
             /\ (opener = p) <=> (proc[p].pc \in Pcs.opening)
  <2>1. proc[p].pc \in UNION {Pcs[part] : part \in DOMAIN Pcs}
    BY DEF Typed, CallTyped, Places
  <2>2. Post(p) /\ (opener = p <=> proc[p].pc \in Opening)
        /\ (proc[p].lock = "ex" => \A q \in Procs \ {p} : proc[q].lock = "none")
    BY DEF Installed, Locks
  <2>3. proc[p].pc \in Erasing => proc[p].tool \in Erasers
    BY <2>2, PcSets DEF Post, Aim
  <2>4. Pcs.down = Asleep /\ Pcs.erasing = Erasing /\ Pcs.opening = Opening
    BY DEF Asleep, Erasing, Opening
  <2> QED
    BY <2>1, <2>2, <2>3, <2>4 DEF Post, Erasers
<1>6. sc \in Scenarios /\ opener \in Procs \cup {Nobody}
  BY DEF Installed, Shapes, Typed
<1> QED
  BY <1>1, <1>2, <1>3, <1>4, <1>5, <1>6 DEF TypeOK

\* Every value keeps its type, and the locks are held by those who should hold
\* them: a call past the dispatcher has the lifecycle lock, an exclusive call
\* has it alone, and the open lock is with the process that opens the ledger.
THEOREM TypeOKAlways == Spec => []TypeOK
<1>1. Init => Installed /\ Typed
  BY InitInstalled, InitTyped
<1>2. Installed /\ Typed /\ [Next]_vars => Installed' /\ Typed'
  BY NextKeeps, NextTyped
<1>3. Installed /\ Typed => TypeOK
  BY TypedIsTypeOK
<1> QED
  BY <1>1, <1>2, <1>3, PTL DEF Spec

=============================================================================
