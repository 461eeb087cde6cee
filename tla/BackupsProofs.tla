--------------------------- MODULE BackupsProofs ----------------------------
(* Proofs about Backups, for every value of its constants: first what the  *)
(* index says (it always parses, at most one operation is open, it tells   *)
(* the restores as they happened, an erasure leaves no copy before it      *)
(* without record), then the copies: what a workflow registered stands     *)
(* until an erasure sweeps it, a scoped erasure keeps the copy it needs,   *)
(* and the whole keeps the promise of RestorePoints.                       *)
EXTENDS Backups, FiniteSetTheorems, TLAPS


-----------------------------------------------------------------------------
(* What the helpers return.                                                *)

Kinds == {"backup", "restore", "erase", "prune"}
States == {"pending", "committed", "aborted", "orphan", "done"}

LEMMA LineTyped ==
  ASSUME NEW kind \in Kinds, NEW op \in Ops, NEW state \in States
  PROVE  Line(kind, op, state) \in Lines
BY DEF Line, Lines, Kinds, States, NoOp

LEMMA AppendTyped ==
  ASSUME index \in Seq(Lines), flushed \in 0..Len(index), torn \in BOOLEAN,
         faults \in Nat, NEW rec \in Lines, NEW out \in Outcomes,
         AppendRecord(rec, out)
  PROVE  /\ index' \in Seq(Lines)
         /\ flushed' \in 0..Len(index')
         /\ torn' \in BOOLEAN
         /\ faults' \in Nat
BY DEF AppendRecord, Outcomes

LEMMA LeaveTyped ==
  ASSUME job \in [Procs -> Job], txn \in Procs \cup {NoProc},
         lock \in Procs \cup {NoProc}, NEW p \in Procs, Leave(p)
  PROVE  /\ job' \in [Procs -> Job]
         /\ txn' \in Procs \cup {NoProc}
         /\ lock' \in Procs \cup {NoProc}
<1>1. Idle \in Job
  BY DEF Idle, Job, Phases, NoOp
<1> QED
  BY <1>1 DEF Leave

LEMMA PhaseNames ==
  /\ "idle" \in Phases /\ "begin" \in Phases /\ "settle" \in Phases
  /\ "sweep" \in Phases /\ "copied" \in Phases /\ "named" \in Phases
  /\ "staged" \in Phases /\ "closing" \in Phases /\ "prune" \in Phases
  /\ "restoring" \in Phases /\ "restored" \in Phases /\ "erasing" \in Phases
BY DEF Phases

LEMMA GotoTyped ==
  ASSUME job \in [Procs -> Job], NEW p \in Procs, NEW pc \in Phases, Goto(p, pc)
  PROVE  job' \in [Procs -> Job]
<1>1. [job[p] EXCEPT !.pc = pc] \in Job
  BY DEF Job
<1>2. job' = [job EXCEPT ![p] = [job[p] EXCEPT !.pc = pc]]
  BY DEF Goto
<1> QED
  BY <1>1, <1>2

LEMMA GotoWithTyped ==
  ASSUME job \in [Procs -> Job], NEW p \in Procs, NEW pc \in Phases,
         NEW op \in Ops \cup {NoOp}, GotoWith(p, pc, op)
  PROVE  job' \in [Procs -> Job]
<1>1. [job[p] EXCEPT !.pc = pc, !.op = op] \in Job
  BY DEF Job
<1>2. job' = [job EXCEPT ![p] = [job[p] EXCEPT !.pc = pc, !.op = op]]
  BY DEF GotoWith
<1> QED
  BY <1>1, <1>2

LEMMA BeginTyped ==
  ASSUME job \in [Procs -> Job], NEW p \in Procs, NEW call \in Calls,
         job' = [job EXCEPT ![p].pc = "begin", ![p].call = call]
  PROVE  job' \in [Procs -> Job]
<1>1. [job[p] EXCEPT !.pc = "begin", !.call = call] \in Job
  BY PhaseNames DEF Job
<1>2. job' = [job EXCEPT ![p] = [job[p] EXCEPT !.pc = "begin", !.call = call]]
  OBVIOUS
<1> QED
  BY <1>1, <1>2

LEMMA SweepTyped ==
  ASSUME job \in [Procs -> Job], swept \subseteq Ops, NEW p \in Procs,
         NEW op \in Ops, StartSweep(p, op)
  PROVE  job' \in [Procs -> Job] /\ swept' \subseteq Ops
<1> DEFINE todo == {f \in Files : dir[f] # "none"}
<1>1. todo \in SUBSET Files /\ "sweep" \in Phases
  BY PhaseNames
<1>2. job' = [job EXCEPT ![p] = [job[p] EXCEPT !.pc = "sweep", !.op = op,
                                                !.stuck = FALSE, !.todo = todo]]
  BY DEF StartSweep
<1> HIDE DEF todo
<1>3. [job[p] EXCEPT !.pc = "sweep", !.op = op, !.stuck = FALSE, !.todo = todo]
        \in Job
  BY <1>1 DEF Job
<1>4. swept' \subseteq Ops
  BY DEF StartSweep
<1> QED
  BY <1>2, <1>3, <1>4

\* What a call may carry.
LEMMA CallTyped ==
  ASSUME NEW c \in Calls \cup {Idle.call}
  PROVE  /\ c.reason \in Reasons \cup {"none"}
         /\ c.tool = "write" => c.reason \in Workflows
BY DEF Calls, Call, Idle, Reasons

LEMMA NextOp ==
  ASSUME minted \in 0..MaxOps, minted < MaxOps
  PROVE  minted + 1 \in Ops /\ minted + 1 \in 0..MaxOps
BY BackupsAssumption DEF Ops

LEMMA OpsAreFiles == Ops \subseteq Files
BY DEF Files

LEMMA GenerationNat == Generation \in Nat
<1>1. IsFiniteSet(Ops)
  BY FS_Interval, BackupsAssumption DEF Ops
<1>2. IsFiniteSet(CommittedRestores)
  BY <1>1, FS_Subset DEF CommittedRestores
<1> QED
  BY <1>2, FS_CardinalityType DEF Generation

LEMMA UnlinkTyped ==
  ASSUME dir \in [Files -> FileStates], onDisk \in [Files -> SUBSET FileStates],
         \A g \in Files : dir[g] \in onDisk[g],
         NEW f \in Files, Unlink(f)
  PROVE  /\ dir' \in [Files -> FileStates]
         /\ onDisk' \in [Files -> SUBSET FileStates]
         /\ \A g \in Files : dir'[g] \in onDisk'[g]
         /\ content' = content
BY DEF Unlink, FileStates

-----------------------------------------------------------------------------
(* Types.                                                                  *)

LEMMA TypeInit == Init => TypeOK
<1> SUFFICES ASSUME Init PROVE TypeOK
  OBVIOUS
<1>1. Idle \in Job
  BY DEF Idle, Job, Phases, NoOp
<1>2. EmptyLedger \in Ledgers
  BY DEF EmptyLedger, Ledgers, NoOp
<1>3. index \in Seq(Lines) /\ flushed \in 0..Len(index)
  BY DEF Init
<1>4. /\ dir \in [Files -> FileStates]
      /\ onDisk \in [Files -> SUBSET FileStates]
      /\ \A f \in Files : dir[f] \in onDisk[f]
  BY DEF Init, FileStates
<1>5. content \in [Files -> [epoch : Nat, db : Ledgers]]
  BY <1>2 DEF Init
<1>6. job \in [Procs -> Job]
  BY <1>1 DEF Init
<1>7. minted \in 0..MaxOps
  BY BackupsAssumption DEF Init
<1>8. seen \in [Workflows -> Nat]
  BY DEF Init
<1> QED
  BY <1>2, <1>3, <1>4, <1>5, <1>6, <1>7, <1>8 DEF Init, TypeOK

\* A call that has minted an operation id names it.
OpPhases == {"copied", "named", "closing", "prune", "restoring", "restored",
             "erasing", "sweep"}
HasOp == \A p \in Procs : job[p].pc \in OpPhases => job[p].op # NoOp

LEMMA OpTyped ==
  ASSUME TypeOK, HasOp, NEW p \in Procs, job[p].pc \in OpPhases
  PROVE  job[p].op \in Ops
BY DEF TypeOK, HasOp, Job

LEMMA TypeNext == TypeOK /\ HasOp /\ [Next]_vars => TypeOK'
<1> SUFFICES ASSUME TypeOK, HasOp, [Next]_vars PROVE TypeOK'
  OBVIOUS
<1> USE DEF vars, records, files, history
<1>1. ASSUME NEW p \in Procs, NEW call \in Calls, Begin(p, call)
     PROVE TypeOK'
  <2>1. /\ job' \in [Procs -> Job] /\ txn' \in Procs \cup {NoProc}
        /\ lock' \in Procs \cup {NoProc}
    BY <1>1, BeginTyped DEF TypeOK, Begin
  <2> QED
    BY <1>1, <2>1 DEF TypeOK, Begin
<1>2. ASSUME NEW p \in Procs, Busy(p)
     PROVE TypeOK'
  <2>1. /\ job' \in [Procs -> Job] /\ txn' \in Procs \cup {NoProc}
        /\ lock' \in Procs \cup {NoProc}
    BY <1>2, LeaveTyped DEF TypeOK, Busy
  <2> QED
    BY <1>2, <2>1 DEF TypeOK, Busy
<1>3. ASSUME NEW p \in Procs, RefuseEarly(p)
     PROVE TypeOK'
  <2>1. /\ job' \in [Procs -> Job] /\ txn' \in Procs \cup {NoProc}
        /\ lock' \in Procs \cup {NoProc}
    BY <1>3, LeaveTyped DEF TypeOK, RefuseEarly
  <2> QED
    BY <1>3, <2>1 DEF TypeOK, RefuseEarly
<1>4. ASSUME NEW p \in Procs, Acquire(p)
     PROVE TypeOK'
  <2>1. /\ job' \in [Procs -> Job] /\ txn' \in Procs \cup {NoProc}
        /\ lock' \in Procs \cup {NoProc}
    BY <1>4, GotoTyped, PhaseNames DEF TypeOK, Acquire
  <2>2. flushed' \in 0..Len(index')
    BY <1>4 DEF TypeOK, Acquire
  <2> QED
    BY <1>4, <2>1, <2>2 DEF TypeOK, Acquire
<1>5. ASSUME NEW p \in Procs, AcquireFails(p)
     PROVE TypeOK'
  <2>1. /\ job' \in [Procs -> Job] /\ txn' \in Procs \cup {NoProc}
        /\ lock' \in Procs \cup {NoProc}
    BY <1>5, LeaveTyped DEF TypeOK, AcquireFails
  <2> QED
    BY <1>5, <2>1 DEF TypeOK, AcquireFails, Fault
<1>6. ASSUME NEW p \in Procs, List(p)
     PROVE TypeOK'
  <2>1. /\ job' \in [Procs -> Job] /\ txn' \in Procs \cup {NoProc}
        /\ lock' \in Procs \cup {NoProc}
    BY <1>6, LeaveTyped DEF TypeOK, List
  <2>2. seen' \in [Workflows -> Nat]
    BY <1>6, GenerationNat DEF TypeOK, List, MayBind
  <2> QED
    BY <1>6, <2>1, <2>2 DEF TypeOK, List
<1>7. ASSUME NEW p \in Procs, Refuse(p)
     PROVE TypeOK'
  <2>1. /\ job' \in [Procs -> Job] /\ txn' \in Procs \cup {NoProc}
        /\ lock' \in Procs \cup {NoProc}
    BY <1>7, LeaveTyped DEF TypeOK, Refuse
  <2> QED
    BY <1>7, <2>1 DEF TypeOK, Refuse
<1>8. ASSUME NEW p \in Procs, StageWrite(p)
     PROVE TypeOK'
  <2>1. /\ job' \in [Procs -> Job] /\ txn' \in Procs \cup {NoProc}
        /\ lock' \in Procs \cup {NoProc}
    BY <1>8, GotoTyped, PhaseNames DEF TypeOK, StageWrite
  <2> QED
    BY <1>8, <2>1 DEF TypeOK, StageWrite
<1>9. ASSUME NEW p \in Procs, Copy(p)
     PROVE TypeOK'
  <2>1. /\ job' \in [Procs -> Job] /\ txn' \in Procs \cup {NoProc}
        /\ lock' \in Procs \cup {NoProc}
    BY <1>9, GotoWithTyped, PhaseNames, NextOp DEF TypeOK, Copy
  <2>2. /\ dir' \in [Files -> FileStates]
        /\ onDisk' \in [Files -> SUBSET FileStates]
        /\ \A f \in Files : dir'[f] \in onDisk'[f]
        /\ content' \in [Files -> [epoch : Nat, db : Ledgers]]
    BY <1>9, NextOp, OpsAreFiles DEF TypeOK, Copy, FileStates
  <2>3. minted' \in 0..MaxOps
    BY <1>9, NextOp DEF TypeOK, Copy
  <2> QED
    BY <1>9, <2>1, <2>2, <2>3 DEF TypeOK, Copy
<1>10. ASSUME NEW p \in Procs, Place(p)
     PROVE TypeOK'
  <2>1. /\ job' \in [Procs -> Job] /\ txn' \in Procs \cup {NoProc}
        /\ lock' \in Procs \cup {NoProc}
    BY <1>10, LeaveTyped, GotoTyped, PhaseNames DEF TypeOK, Place
  <2>2. /\ dir' \in [Files -> FileStates]
        /\ onDisk' \in [Files -> SUBSET FileStates]
        /\ \A f \in Files : dir'[f] \in onDisk'[f]
    <3>1. job[p].op \in Files
      BY <1>10, OpTyped, OpsAreFiles DEF Place, OpPhases
    <3>2. dir' \in [Files -> FileStates]
      BY <1>10, <3>1 DEF TypeOK, Place, FileStates
    <3>3. CASE FlushDir
      BY <3>2, <3>3 DEF FlushDir
    <3>4. CASE onDisk' = [onDisk EXCEPT ![job[p].op] = @ \cup {"final"}]
      BY <1>10, <3>1, <3>2, <3>4 DEF TypeOK, Place, FileStates
    <3> QED
      BY <1>10, <3>3, <3>4 DEF Place
  <2>3. faults' \in Nat
    BY <1>10 DEF TypeOK, Place, Fault
  <2> QED
    BY <1>10, <2>1, <2>2, <2>3 DEF TypeOK, Place
<1>11. ASSUME NEW p \in Procs, Commit(p)
     PROVE TypeOK'
  <2>1. /\ job' \in [Procs -> Job] /\ txn' \in Procs \cup {NoProc}
        /\ lock' \in Procs \cup {NoProc}
    BY <1>11, LeaveTyped, GotoTyped, PhaseNames DEF TypeOK, Commit
  <2>2. db' \in Ledgers
    <3> DEFINE w == job[p].call.reason
    <3>1. /\ job[p].call \in Calls \cup {Idle.call}
          /\ job[p].op \in Ops \cup {NoOp}
      BY DEF TypeOK, Job
    <3>2. CASE job[p].call.tool = "write"
      <4>1. w \in Workflows
        BY <3>1, <3>2, CallTyped
      <4>2. db' \in {[db EXCEPT !.regs[w] = job[p].op, !.wrote = @ \cup {w}],
                     [db EXCEPT !.wrote = @ \cup {w}]}
        BY <1>11, <3>2 DEF Commit, Staged
      <4>3. [db EXCEPT !.wrote = @ \cup {w}] \in Ledgers
        BY <4>1 DEF TypeOK, Ledgers
      <4>4. [db EXCEPT !.regs[w] = job[p].op, !.wrote = @ \cup {w}] \in Ledgers
        BY <3>1, <4>1 DEF TypeOK, Ledgers
      <4> QED
        BY <4>2, <4>3, <4>4
    <3>3. CASE job[p].call.tool # "write"
      <4>1. db' \in {[db EXCEPT !.wrote = {}], db}
        BY <1>11, <3>3 DEF Commit, Staged
      <4> QED
        BY <4>1 DEF TypeOK, Ledgers
    <3> QED
      BY <3>2, <3>3
  <2> QED
    BY <1>11, <2>1, <2>2 DEF TypeOK, Commit
<1>12. ASSUME NEW p \in Procs, PruneDone(p)
     PROVE TypeOK'
  <2>1. /\ job' \in [Procs -> Job] /\ txn' \in Procs \cup {NoProc}
        /\ lock' \in Procs \cup {NoProc}
    BY <1>12, LeaveTyped DEF TypeOK, PruneDone
  <2> QED
    BY <1>12, <2>1 DEF TypeOK, PruneDone
<1>13. ASSUME NEW p \in Procs, EraseCommit(p)
     PROVE TypeOK'
  <2>1. /\ job' \in [Procs -> Job] /\ txn' \in Procs \cup {NoProc}
        /\ lock' \in Procs \cup {NoProc} /\ swept' \subseteq Ops
    BY <1>13, OpTyped, SweepTyped DEF TypeOK, EraseCommit, OpPhases
  <2>2. db' \in Ledgers
    <3>1. EmptyLedger \in Ledgers
      BY DEF EmptyLedger, Ledgers, NoOp
    <3>2. life + 1 \in Nat /\ db.marker \in Ops \cup {NoOp}
      BY DEF TypeOK, Ledgers
    <3>3. [EmptyLedger EXCEPT !.life = life + 1, !.marker = db.marker] \in Ledgers
      BY <3>1, <3>2 DEF Ledgers
    <3> QED
      BY <1>13, <3>3 DEF TypeOK, EraseCommit
  <2> QED
    BY <1>13, <2>1, <2>2 DEF TypeOK, EraseCommit
<1>14. ASSUME NEW p \in Procs, SweepIncomplete(p)
     PROVE TypeOK'
  <2>1. /\ job' \in [Procs -> Job] /\ txn' \in Procs \cup {NoProc}
        /\ lock' \in Procs \cup {NoProc}
    BY <1>14, LeaveTyped DEF TypeOK, SweepIncomplete
  <2>2. /\ dir' \in [Files -> FileStates]
        /\ onDisk' \in [Files -> SUBSET FileStates]
        /\ \A f \in Files : dir'[f] \in onDisk'[f]
        /\ content' \in [Files -> [epoch : Nat, db : Ledgers]]
    BY <1>14 DEF TypeOK, SweepIncomplete, FlushDir, FileStates
  <2>3. seen' \in [Workflows -> Nat]
    BY <1>14, GenerationNat DEF TypeOK, SweepIncomplete, MayBind
  <2> QED
    BY <1>14, <2>1, <2>2, <2>3 DEF TypeOK, SweepIncomplete, Fault
<1>15. ASSUME NEW p \in Procs, NEW e \in Ops, SettleErase(p, e)
     PROVE TypeOK'
  <2>1. /\ job' \in [Procs -> Job] /\ txn' \in Procs \cup {NoProc}
        /\ lock' \in Procs \cup {NoProc} /\ swept' \subseteq Ops
    BY <1>15, SweepTyped DEF TypeOK, SettleErase
  <2> QED
    BY <1>15, <2>1 DEF TypeOK, SettleErase
<1>16. ASSUME NEW p \in Procs, NEW b \in Ops, RestoreCommit(p, b)
     PROVE TypeOK'
  <2>1. /\ job' \in [Procs -> Job] /\ txn' \in Procs \cup {NoProc}
        /\ lock' \in Procs \cup {NoProc}
    BY <1>16, GotoTyped, PhaseNames DEF TypeOK, RestoreCommit
  <2>2. RegsFrom(b) \in [Workflows -> Ops \cup {NoOp}]
    BY <1>16, OpsAreFiles DEF TypeOK, RegsFrom, Ledgers
  <2>3. db' \in Ledgers
    BY <1>16, <2>2, OpsAreFiles DEF TypeOK, RestoreCommit, Ledgers, Job
  <2>4. restored' \subseteq Ops
    BY <1>16, OpTyped DEF TypeOK, OpPhases, RestoreCommit
  <2> QED
    BY <1>16, <2>1, <2>2, <2>3, <2>4 DEF TypeOK, RestoreCommit
<1>17. ASSUME NEW p \in Procs, NEW f \in Files, SweepStuck(p, f)
     PROVE TypeOK'
  <2>1. job[p] \in Job
    BY DEF TypeOK
  <2>2. [job[p] EXCEPT !.todo = @ \ {f}, !.stuck = TRUE] \in Job
    BY <2>1 DEF Job
  <2>3. job' = [job EXCEPT ![p] = [job[p] EXCEPT !.todo = @ \ {f},
                                                !.stuck = TRUE]]
    BY <1>17 DEF SweepStuck
  <2>4. job' \in [Procs -> Job]
    BY <2>2, <2>3 DEF TypeOK
  <2> QED
    BY <1>17, <2>4 DEF TypeOK, SweepStuck, Fault
<1>18. ASSUME NEW p \in Procs, NEW out \in Outcomes, Name(p, out)
     PROVE TypeOK'
  <2>1. /\ job' \in [Procs -> Job] /\ txn' \in Procs \cup {NoProc}
        /\ lock' \in Procs \cup {NoProc}
    BY <1>18, LeaveTyped, GotoTyped, PhaseNames DEF TypeOK, Name
  <2>2. [Line("backup", job[p].op, "pending") EXCEPT !.reason = job[p].call.reason] \in Lines
    BY <1>18, OpTyped, CallTyped DEF TypeOK, OpPhases, Name, Job, Line, Lines
  <2>3. /\ index' \in Seq(Lines) /\ flushed' \in 0..Len(index')
        /\ torn' \in BOOLEAN /\ faults' \in Nat
    BY <1>18, <2>2, AppendTyped DEF TypeOK, Name
  <2>4. /\ dir' \in [Files -> FileStates]
        /\ onDisk' \in [Files -> SUBSET FileStates]
        /\ \A f \in Files : dir'[f] \in onDisk'[f]
        /\ content' \in [Files -> [epoch : Nat, db : Ledgers]]
    BY <1>18, OpTyped, UnlinkTyped, OpsAreFiles DEF TypeOK, Name, OpPhases
  <2> QED
    BY <1>18, <2>1, <2>2, <2>3, <2>4 DEF TypeOK, Name
<1>19. ASSUME NEW p \in Procs, NEW out \in Outcomes, PlaceFails(p, out)
     PROVE TypeOK'
  <2>1. /\ job' \in [Procs -> Job] /\ txn' \in Procs \cup {NoProc}
        /\ lock' \in Procs \cup {NoProc}
    BY <1>19, LeaveTyped DEF TypeOK, PlaceFails
  <2>2. Line("backup", job[p].op, "aborted") \in Lines
    BY <1>19, OpTyped, LineTyped DEF PlaceFails, OpPhases, Kinds, States
  <2>3. /\ index' \in Seq(Lines) /\ flushed' \in 0..Len(index')
        /\ torn' \in BOOLEAN /\ faults' \in Nat
    BY <1>19, <2>2, AppendTyped DEF TypeOK, PlaceFails
  <2>4. /\ dir' \in [Files -> FileStates]
        /\ onDisk' \in [Files -> SUBSET FileStates]
        /\ \A f \in Files : dir'[f] \in onDisk'[f]
        /\ content' \in [Files -> [epoch : Nat, db : Ledgers]]
    BY <1>19, OpTyped, UnlinkTyped, OpsAreFiles DEF TypeOK, PlaceFails, OpPhases
  <2> QED
    BY <1>19, <2>1, <2>2, <2>3, <2>4 DEF TypeOK, PlaceFails
<1>20. ASSUME NEW p \in Procs, NEW out \in Outcomes, CommitFails(p, out)
     PROVE TypeOK'
  <2>1. /\ job' \in [Procs -> Job] /\ txn' \in Procs \cup {NoProc}
        /\ lock' \in Procs \cup {NoProc}
    BY <1>20, LeaveTyped, GotoTyped, PhaseNames DEF TypeOK, CommitFails
  <2>2. Line("backup", job[p].op, "orphan") \in Lines
    BY <1>20, LineTyped DEF TypeOK, Job, CommitFails, Kinds, States
  <2>3. /\ index' \in Seq(Lines) /\ flushed' \in 0..Len(index')
        /\ torn' \in BOOLEAN /\ faults' \in Nat
    BY <1>20, <2>2, AppendTyped DEF TypeOK, CommitFails
  <2> QED
    BY <1>20, <2>1, <2>2, <2>3 DEF TypeOK, CommitFails
<1>21. ASSUME NEW p \in Procs, NEW out \in Outcomes, Close(p, out)
     PROVE TypeOK'
  <2>1. /\ job' \in [Procs -> Job] /\ txn' \in Procs \cup {NoProc}
        /\ lock' \in Procs \cup {NoProc}
    BY <1>21, LeaveTyped, GotoTyped, PhaseNames DEF TypeOK, Close
  <2>2. Line("backup", job[p].op, "committed") \in Lines
    BY <1>21, OpTyped, LineTyped DEF Close, OpPhases, Kinds, States
  <2>3. /\ index' \in Seq(Lines) /\ flushed' \in 0..Len(index')
        /\ torn' \in BOOLEAN /\ faults' \in Nat
    BY <1>21, <2>2, AppendTyped DEF TypeOK, Close
  <2> QED
    BY <1>21, <2>1, <2>2, <2>3 DEF TypeOK, Close
<1>22. ASSUME NEW p \in Procs, NEW out \in Outcomes, RestoreClose(p, out)
     PROVE TypeOK'
  <2>1. /\ job' \in [Procs -> Job] /\ txn' \in Procs \cup {NoProc}
        /\ lock' \in Procs \cup {NoProc}
    BY <1>22, LeaveTyped DEF TypeOK, RestoreClose
  <2>2. Line("restore", job[p].op, "committed") \in Lines
    BY <1>22, OpTyped, LineTyped DEF RestoreClose, OpPhases, Kinds, States
  <2>3. /\ index' \in Seq(Lines) /\ flushed' \in 0..Len(index')
        /\ torn' \in BOOLEAN /\ faults' \in Nat
    BY <1>22, <2>2, AppendTyped DEF TypeOK, RestoreClose
  <2> QED
    BY <1>22, <2>1, <2>2, <2>3 DEF TypeOK, RestoreClose
<1>23. ASSUME NEW p \in Procs, NEW out \in Outcomes, EraseBegin(p, out)
     PROVE TypeOK'
  <2>1. /\ job' \in [Procs -> Job] /\ txn' \in Procs \cup {NoProc}
        /\ lock' \in Procs \cup {NoProc}
    BY <1>23, GotoWithTyped, LeaveTyped, PhaseNames, NextOp DEF TypeOK, EraseBegin
  <2>2. Line("erase", minted + 1, "pending") \in Lines
    BY <1>23, NextOp, LineTyped DEF TypeOK, EraseBegin, Kinds, States
  <2>3. /\ index' \in Seq(Lines) /\ flushed' \in 0..Len(index')
        /\ torn' \in BOOLEAN /\ faults' \in Nat
    BY <1>23, <2>2, AppendTyped DEF TypeOK, EraseBegin
  <2>4. minted' \in 0..MaxOps
    BY <1>23, NextOp DEF TypeOK, EraseBegin
  <2> QED
    BY <1>23, <2>1, <2>2, <2>3, <2>4 DEF TypeOK, EraseBegin
<1>24. ASSUME NEW p \in Procs, NEW out \in Outcomes, SweepDone(p, out)
     PROVE TypeOK'
  <2>1. /\ job' \in [Procs -> Job] /\ txn' \in Procs \cup {NoProc}
        /\ lock' \in Procs \cup {NoProc}
    BY <1>24, GotoWithTyped, LeaveTyped, PhaseNames DEF TypeOK, SweepDone
  <2>2. Line("erase", job[p].op, "committed") \in Lines
    BY <1>24, OpTyped, LineTyped DEF SweepDone, OpPhases, Kinds, States
  <2>3. /\ index' \in Seq(Lines) /\ flushed' \in 0..Len(index')
        /\ torn' \in BOOLEAN /\ faults' \in Nat
    BY <1>24, <2>2, AppendTyped DEF TypeOK, SweepDone
  <2>4. /\ dir' \in [Files -> FileStates]
        /\ onDisk' \in [Files -> SUBSET FileStates]
        /\ \A f \in Files : dir'[f] \in onDisk'[f]
    BY <1>24 DEF TypeOK, SweepDone, FlushDir, FileStates
  <2> QED
    BY <1>24, <2>1, <2>2, <2>3, <2>4 DEF TypeOK, SweepDone
<1>25. ASSUME NEW p \in Procs, NEW b \in Ops, NEW out \in Outcomes, SettleBackup(p, b, out)
     PROVE TypeOK'
  <2>1. /\ job' \in [Procs -> Job] /\ txn' \in Procs \cup {NoProc}
        /\ lock' \in Procs \cup {NoProc}
    BY <1>25, LeaveTyped DEF TypeOK, SettleBackup
  <2>2. Line("backup", b, SettledState(b)) \in Lines
    BY <1>25, LineTyped DEF SettledState, Kinds, States
  <2>3. /\ index' \in Seq(Lines) /\ flushed' \in 0..Len(index')
        /\ torn' \in BOOLEAN /\ faults' \in Nat
    BY <1>25, <2>2, AppendTyped DEF TypeOK, SettleBackup
  <2>4. /\ dir' \in [Files -> FileStates]
        /\ onDisk' \in [Files -> SUBSET FileStates]
        /\ \A f \in Files : dir'[f] \in onDisk'[f]
        /\ content' \in [Files -> [epoch : Nat, db : Ledgers]]
    BY <1>25, UnlinkTyped, OpsAreFiles DEF TypeOK, SettleBackup
  <2> QED
    BY <1>25, <2>1, <2>2, <2>3, <2>4 DEF TypeOK, SettleBackup
<1>26. ASSUME NEW p \in Procs, NEW b \in Ops, NEW out \in Outcomes, SettleRestore(p, b, out)
     PROVE TypeOK'
  <2>1. /\ job' \in [Procs -> Job] /\ txn' \in Procs \cup {NoProc}
        /\ lock' \in Procs \cup {NoProc}
    BY <1>26, LeaveTyped DEF TypeOK, SettleRestore
  <2>2. Line("restore", b, RestoreOutcome(b)) \in Lines
    BY <1>26, LineTyped DEF RestoreOutcome, Kinds, States
  <2>3. /\ index' \in Seq(Lines) /\ flushed' \in 0..Len(index')
        /\ torn' \in BOOLEAN /\ faults' \in Nat
    BY <1>26, <2>2, AppendTyped DEF TypeOK, SettleRestore
  <2> QED
    BY <1>26, <2>1, <2>2, <2>3 DEF TypeOK, SettleRestore
<1>27. ASSUME NEW p \in Procs, NEW b \in Ops, NEW out \in Outcomes, Prune(p, b, out)
     PROVE TypeOK'
  <2>1. /\ job' \in [Procs -> Job] /\ txn' \in Procs \cup {NoProc}
        /\ lock' \in Procs \cup {NoProc}
    BY <1>27, LeaveTyped DEF TypeOK, Prune
  <2>2. Line("prune", b, "done") \in Lines
    BY <1>27, LineTyped DEF Kinds, States
  <2>3. /\ index' \in Seq(Lines) /\ flushed' \in 0..Len(index')
        /\ torn' \in BOOLEAN /\ faults' \in Nat
    BY <1>27, <2>2, AppendTyped DEF TypeOK, Prune
  <2>4. /\ dir' \in [Files -> FileStates]
        /\ onDisk' \in [Files -> SUBSET FileStates]
        /\ \A f \in Files : dir'[f] \in onDisk'[f]
        /\ content' \in [Files -> [epoch : Nat, db : Ledgers]]
    BY <1>27, UnlinkTyped, OpsAreFiles DEF TypeOK, Prune
  <2> QED
    BY <1>27, <2>1, <2>2, <2>3, <2>4 DEF TypeOK, Prune
<1>28. ASSUME NEW p \in Procs, NEW b \in Ops, NEW out \in Outcomes, RestoreBegin(p, b, out)
     PROVE TypeOK'
  <2>1. /\ job' \in [Procs -> Job] /\ txn' \in Procs \cup {NoProc}
        /\ lock' \in Procs \cup {NoProc}
    BY <1>28, GotoWithTyped, LeaveTyped, PhaseNames, NextOp DEF TypeOK, RestoreBegin
  <2>2. [Line("restore", minted + 1, "pending") EXCEPT !.of = b] \in Lines
    BY <1>28, NextOp DEF TypeOK, RestoreBegin, Line, Lines
  <2>3. /\ index' \in Seq(Lines) /\ flushed' \in 0..Len(index')
        /\ torn' \in BOOLEAN /\ faults' \in Nat
    BY <1>28, <2>2, AppendTyped DEF TypeOK, RestoreBegin
  <2>4. minted' \in 0..MaxOps
    BY <1>28, NextOp DEF TypeOK, RestoreBegin
  <2> QED
    BY <1>28, <2>1, <2>2, <2>3, <2>4 DEF TypeOK, RestoreBegin
<1>29. ASSUME NEW p \in Procs, NEW b \in Ops, NEW out \in Outcomes, RecordAbsent(p, b, out)
     PROVE TypeOK'
  <2>1. /\ job' \in [Procs -> Job] /\ txn' \in Procs \cup {NoProc}
        /\ lock' \in Procs \cup {NoProc}
    BY <1>29, LeaveTyped DEF TypeOK, RecordAbsent
  <2>2. Line("prune", b, "done") \in Lines
    BY <1>29, LineTyped DEF Kinds, States
  <2>3. /\ index' \in Seq(Lines) /\ flushed' \in 0..Len(index')
        /\ torn' \in BOOLEAN /\ faults' \in Nat
    BY <1>29, <2>2, AppendTyped DEF TypeOK, RecordAbsent
  <2> QED
    BY <1>29, <2>1, <2>2, <2>3 DEF TypeOK, RecordAbsent
<1>30. ASSUME NEW p \in Procs, NEW f \in Files, NEW out \in Outcomes, SweepFile(p, f, out)
     PROVE TypeOK'
  <2>1. /\ job' \in [Procs -> Job] /\ txn' \in Procs \cup {NoProc}
        /\ lock' \in Procs \cup {NoProc}
    <3>1. CASE out = "ok"
      <4>1. [job[p] EXCEPT !.todo = @ \ {f}] \in Job
        BY DEF TypeOK, Job
      <4> QED
        BY <1>30, <3>1, <4>1 DEF TypeOK, SweepFile
    <3>2. CASE out # "ok"
      BY <1>30, <3>2, LeaveTyped DEF TypeOK, SweepFile
    <3> QED
      BY <3>1, <3>2
  <2>2. /\ dir' \in [Files -> FileStates]
        /\ onDisk' \in [Files -> SUBSET FileStates]
        /\ \A g \in Files : dir'[g] \in onDisk'[g]
        /\ content' \in [Files -> [epoch : Nat, db : Ledgers]]
    BY <1>30, UnlinkTyped DEF TypeOK, SweepFile
  <2>3. /\ index' \in Seq(Lines) /\ flushed' \in 0..Len(index')
        /\ torn' \in BOOLEAN /\ faults' \in Nat
    <3>1. CASE UNCHANGED <<records, faults>>
      BY <3>1 DEF TypeOK
    <3>2. CASE /\ Has("backup", f, "pending")
               /\ AppendRecord(Line("prune", f, "done"), out)
      <4>1. PICK i \in DOMAIN index : index[i].op = f
        BY <3>2 DEF Has
      <4>2. index[i] \in Lines
        BY <4>1 DEF TypeOK
      <4>3. f \in Ops
        BY <4>1, <4>2 DEF Lines
      <4> QED
        BY <3>2, <4>3, LineTyped, AppendTyped DEF TypeOK, Kinds, States
    <3> QED
      BY <1>30, <3>1, <3>2 DEF SweepFile
  <2> QED
    BY <1>30, <2>1, <2>2, <2>3 DEF TypeOK, SweepFile
<1>31. ASSUME NEW p \in Procs, Crash(p)
     PROVE TypeOK'
  <2>1. /\ job' \in [Procs -> Job] /\ txn' \in Procs \cup {NoProc}
        /\ lock' \in Procs \cup {NoProc}
    BY <1>31, LeaveTyped DEF TypeOK, Crash
  <2> QED
    BY <1>31, <2>1 DEF TypeOK, Crash, Fault
<1>32. CASE PowerLoss
  <2>1. job' \in [Procs -> Job]
    BY <1>32 DEF PowerLoss, Idle, Job, Phases, NoOp
  <2>2. index' \in Seq(Lines) /\ flushed' \in 0..Len(index')
    BY <1>32 DEF PowerLoss, TypeOK
  <2> QED
    BY <1>32, <2>1, <2>2 DEF PowerLoss, TypeOK, Fault, FileStates
<1>33. CASE UNCHANGED vars
  BY <1>33 DEF TypeOK
<1> QED
  BY <1>1, <1>2, <1>3, <1>4, <1>5, <1>6, <1>7, <1>8, <1>9, <1>10, <1>11,
     <1>12, <1>13, <1>14, <1>15, <1>16, <1>17, <1>18, <1>19, <1>20, <1>21,
     <1>22, <1>23, <1>24, <1>25, <1>26, <1>27, <1>28, <1>29, <1>30, <1>31,
     <1>32, <1>33 DEF Next, Advance

-----------------------------------------------------------------------------
(* Control: who holds the index, and what its holder is working on.        *)

LEMMA LeaveFacts ==
  ASSUME job \in [Procs -> Job], NEW p \in Procs, Leave(p)
  PROVE  /\ job'[p].pc = "idle" /\ job'[p].op = NoOp
         /\ \A q \in Procs \ {p} : job'[q] = job[q]
         /\ lock' = IF lock = p THEN NoProc ELSE lock
BY DEF Leave, Idle

LEMMA BeginFacts ==
  ASSUME job \in [Procs -> Job], NEW p \in Procs, NEW call, Begin(p, call)
  PROVE  /\ job'[p].pc = "begin" /\ job'[p].op = job[p].op
         /\ \A q \in Procs \ {p} : job'[q] = job[q]
<1>1. job' = [job EXCEPT ![p] = [job[p] EXCEPT !.pc = "begin", !.call = call]]
  BY DEF Begin
<1> QED
  BY <1>1 DEF Job

LEMMA GotoFacts ==
  ASSUME job \in [Procs -> Job], NEW p \in Procs, NEW pc, Goto(p, pc)
  PROVE  /\ job'[p] = [job[p] EXCEPT !.pc = pc]
         /\ job'[p].pc = pc /\ job'[p].op = job[p].op
         /\ \A q \in Procs \ {p} : job'[q] = job[q]
BY DEF Goto, Job

LEMMA GotoWithFacts ==
  ASSUME job \in [Procs -> Job], NEW p \in Procs, NEW pc, NEW op, GotoWith(p, pc, op)
  PROVE  /\ job'[p].pc = pc /\ job'[p].op = op
         /\ \A q \in Procs \ {p} : job'[q] = job[q]
BY DEF GotoWith, Job

LEMMA SweepFacts ==
  ASSUME job \in [Procs -> Job], NEW p \in Procs, NEW op, StartSweep(p, op)
  PROVE  /\ job'[p].pc = "sweep" /\ job'[p].op = op
         /\ job'[p].todo = {f \in Files : dir[f] # "none"}
         /\ \A q \in Procs \ {p} : job'[q] = job[q]
BY DEF StartSweep, Job

Locked == Phases \ {"idle", "begin"}
LockHeld == \A p \in Procs : job[p].pc \in Locked => lock = p

\* What a step of p does to the calls: it leaves the others alone and p
\* either out of the locked phases, or in one with the lock p had, or in
\* "settle" with the lock it has just taken; the operation it works on is
\* the one it had, none, the one just minted or an open erasure.
Turn(p) ==
  /\ \A q \in Procs \ {p} : job'[q] = job[q]
  /\ \/ job'[p].op \in {job[p].op, NoOp, minted'}
     \/ Open("erase", job'[p].op)
  /\ \/ /\ job'[p].pc \in {"idle", "begin"}
        /\ lock' = lock \/ lock = p
     \/ /\ job[p].pc \in Locked /\ lock' = lock
        /\ job'[p].pc \in OpPhases => job'[p].op # NoOp
     \/ job'[p].pc = "settle" /\ lock = NoProc /\ lock' = p

LEMMA Turns ==
  ASSUME TypeOK, HasOp, NEW p \in Procs,
         Advance(p) \/ Crash(p) \/ \E call \in Calls : Begin(p, call)
  PROVE  Turn(p)
<1> USE DEF vars, records, files, history
<1>1. ASSUME NEW call \in Calls, Begin(p, call)
     PROVE Turn(p)
  BY <1>1, BeginFacts DEF TypeOK, Begin, Turn
<1>2. ASSUME Busy(p)
     PROVE Turn(p)
  BY <1>2, LeaveFacts DEF TypeOK, Busy, Turn
<1>3. ASSUME RefuseEarly(p)
     PROVE Turn(p)
  BY <1>3, LeaveFacts DEF TypeOK, RefuseEarly, Turn
<1>4. ASSUME Acquire(p)
     PROVE Turn(p)
  BY <1>4, GotoFacts DEF TypeOK, Acquire, Turn, Locked, Phases, OpPhases,
     NoOp, HasOp
<1>5. ASSUME AcquireFails(p)
     PROVE Turn(p)
  BY <1>5, LeaveFacts DEF TypeOK, AcquireFails, Turn
<1>6. ASSUME List(p)
     PROVE Turn(p)
  BY <1>6, LeaveFacts DEF TypeOK, List, Turn
<1>7. ASSUME Refuse(p)
     PROVE Turn(p)
  BY <1>7, LeaveFacts DEF TypeOK, Refuse, Turn
<1>8. ASSUME StageWrite(p)
     PROVE Turn(p)
  BY <1>8, GotoFacts DEF TypeOK, StageWrite, Turn, Locked, Phases, OpPhases,
     NoOp, Ready, HasOp
<1>9. ASSUME Copy(p)
     PROVE Turn(p)
  <2>1. /\ GotoWith(p, "copied", minted') /\ UNCHANGED lock
        /\ job[p].pc \in Locked /\ minted' # NoOp
    BY <1>9 DEF TypeOK, Copy, Ready, Locked, Phases, NoOp
  <2> QED
    BY <2>1, GotoWithFacts DEF TypeOK, Turn
<1>10. ASSUME Place(p)
     PROVE Turn(p)
  <2>1. job[p].pc \in Locked /\ job[p].op # NoOp
    BY <1>10 DEF Place, Locked, Phases, OpPhases, HasOp
  <2>2. CASE Goto(p, "staged") /\ UNCHANGED lock
    BY <2>1, <2>2, GotoFacts DEF TypeOK, Turn
  <2>3. CASE Leave(p)
    BY <2>3, LeaveFacts DEF TypeOK, Turn
  <2> QED
    BY <1>10, <2>2, <2>3 DEF Place
<1>11. ASSUME Commit(p)
     PROVE Turn(p)
  BY <1>11, LeaveFacts, GotoFacts DEF TypeOK, Commit, Turn, Locked, Phases,
     OpPhases, NoOp, HasOp
<1>12. ASSUME PruneDone(p)
     PROVE Turn(p)
  BY <1>12, LeaveFacts DEF TypeOK, PruneDone, Turn
<1>13. ASSUME EraseCommit(p)
     PROVE Turn(p)
  BY <1>13, SweepFacts DEF TypeOK, EraseCommit, Turn, Locked, Phases,
     OpPhases, NoOp, HasOp
<1>14. ASSUME SweepIncomplete(p)
     PROVE Turn(p)
  BY <1>14, LeaveFacts DEF TypeOK, SweepIncomplete, Turn
<1>15. ASSUME NEW e \in Ops, SettleErase(p, e)
     PROVE Turn(p)
  BY <1>15, SweepFacts DEF TypeOK, SettleErase, Turn, Locked, Phases,
     OpPhases, NoOp, Ops, HasOp
<1>16. ASSUME NEW b \in Ops, RestoreCommit(p, b)
     PROVE Turn(p)
  BY <1>16, GotoFacts DEF TypeOK, RestoreCommit, Turn, Locked, Phases,
     OpPhases, NoOp, HasOp
<1>17. ASSUME NEW f \in Files, SweepStuck(p, f)
     PROVE Turn(p)
  BY <1>17 DEF TypeOK, SweepStuck, Turn, Locked, Phases, OpPhases, NoOp, Job, HasOp
<1>18. ASSUME NEW out \in Outcomes, Name(p, out)
     PROVE Turn(p)
  BY <1>18, LeaveFacts, GotoFacts DEF TypeOK, Name, Turn, Locked, Phases,
     OpPhases, NoOp, HasOp
<1>19. ASSUME NEW out \in Outcomes, PlaceFails(p, out)
     PROVE Turn(p)
  BY <1>19, LeaveFacts DEF TypeOK, PlaceFails, Turn
<1>20. ASSUME NEW out \in Outcomes, CommitFails(p, out)
     PROVE Turn(p)
  BY <1>20, LeaveFacts, GotoFacts DEF TypeOK, CommitFails, Turn, Locked,
     Phases, OpPhases, NoOp, HasOp
<1>21. ASSUME NEW out \in Outcomes, Close(p, out)
     PROVE Turn(p)
  BY <1>21, LeaveFacts, GotoFacts DEF TypeOK, Close, Turn, Locked, Phases,
     OpPhases, NoOp, HasOp
<1>22. ASSUME NEW out \in Outcomes, RestoreClose(p, out)
     PROVE Turn(p)
  BY <1>22, LeaveFacts DEF TypeOK, RestoreClose, Turn
<1>23. ASSUME NEW out \in Outcomes, EraseBegin(p, out)
     PROVE Turn(p)
  BY <1>23, LeaveFacts, GotoWithFacts DEF TypeOK, EraseBegin, Turn, Locked,
     Phases, OpPhases, NoOp, Ready, HasOp
<1>24. ASSUME NEW out \in Outcomes, SweepDone(p, out)
     PROVE Turn(p)
  BY <1>24, LeaveFacts, GotoWithFacts DEF TypeOK, SweepDone, Turn, Locked,
     Phases, OpPhases, NoOp, HasOp
<1>25. ASSUME NEW b \in Ops, NEW out \in Outcomes, SettleBackup(p, b, out)
     PROVE Turn(p)
  BY <1>25, LeaveFacts DEF TypeOK, SettleBackup, Turn, Locked, Phases,
     OpPhases, HasOp
<1>26. ASSUME NEW b \in Ops, NEW out \in Outcomes, SettleRestore(p, b, out)
     PROVE Turn(p)
  BY <1>26, LeaveFacts DEF TypeOK, SettleRestore, Turn, Locked, Phases,
     OpPhases, HasOp
<1>27. ASSUME NEW b \in Ops, NEW out \in Outcomes, Prune(p, b, out)
     PROVE Turn(p)
  BY <1>27, LeaveFacts DEF TypeOK, Prune, Turn, Locked, Phases, OpPhases, HasOp
<1>28. ASSUME NEW b \in Ops, NEW out \in Outcomes, RestoreBegin(p, b, out)
     PROVE Turn(p)
  BY <1>28, LeaveFacts, GotoWithFacts DEF TypeOK, RestoreBegin, Turn, Locked,
     Phases, OpPhases, NoOp, Ready, HasOp
<1>29. ASSUME NEW b \in Ops, NEW out \in Outcomes, RecordAbsent(p, b, out)
     PROVE Turn(p)
  BY <1>29, LeaveFacts DEF TypeOK, RecordAbsent, Turn, Locked, Phases,
     OpPhases, HasOp
<1>30. ASSUME NEW f \in Files, NEW out \in Outcomes, SweepFile(p, f, out)
     PROVE Turn(p)
  BY <1>30, LeaveFacts DEF TypeOK, SweepFile, Turn, Locked, Phases, OpPhases,
     NoOp, Job, HasOp
<1>31. ASSUME Crash(p)
     PROVE Turn(p)
  BY <1>31, LeaveFacts DEF TypeOK, Crash, Turn
<1> QED
  BY <1>1, <1>2, <1>3, <1>4, <1>5, <1>6, <1>7, <1>8, <1>9, <1>10, <1>11,
     <1>12, <1>13, <1>14, <1>15, <1>16, <1>17, <1>18, <1>19, <1>20, <1>21,
     <1>22, <1>23, <1>24, <1>25, <1>26, <1>27, <1>28, <1>29, <1>30, <1>31 DEF
     Advance

LEMMA Control ==
  ASSUME TypeOK, HasOp, LockHeld, [Next]_vars
  PROVE  HasOp' /\ LockHeld'
<1>1. ASSUME NEW p \in Procs, Turn(p) PROVE HasOp' /\ LockHeld'
  BY <1>1, BackupsAssumption DEF Turn, HasOp, LockHeld, Locked, OpPhases
<1>2. CASE PowerLoss
  BY <1>2 DEF PowerLoss, Idle, HasOp, LockHeld, Locked, OpPhases
<1>3. CASE UNCHANGED vars
  BY <1>3 DEF vars, HasOp, LockHeld
<1> QED
  BY <1>1, <1>2, <1>3, Turns DEF Next

-----------------------------------------------------------------------------
(* The index only grows, one record at a time, and only the end of a sweep *)
(* that got every file closes an erasure.                                  *)

Minted == /\ \A i \in DOMAIN index : index[i].op <= minted
          /\ \A p \in Procs : job[p].op <= minted

Swept(p) == job[p].pc = "sweep" /\ job[p].todo = {} /\ ~job[p].stuck

SweptClean(p) == Swept(p) /\ onDisk' = [f \in Files |-> {dir[f]}]

Grew(p) ==
  /\ minted <= minted' /\ flushed <= flushed'
  /\ \/ index' = index
     \/ \E rec \in Lines :
          /\ index' = Append(index, rec)
          /\ rec.op <= minted'
          /\ (rec.kind = "erase" /\ rec.state = "committed")
               => SweptClean(p)

LEMMA HasMinted ==
  ASSUME Minted, NEW kind, NEW op, NEW state, Has(kind, op, state)
  PROVE  op <= minted
BY DEF Minted, Has

LEMMA AppendGrew ==
  ASSUME TypeOK, NEW p \in Procs, NEW rec \in Lines, NEW out \in Outcomes,
         AppendRecord(rec, out), rec.op <= minted', minted <= minted',
         rec.kind # "erase" \/ rec.state # "committed"
  PROVE  Grew(p)
BY DEF TypeOK, AppendRecord, Outcomes, Grew

LEMMA LineFields ==
  ASSUME NEW kind, NEW op, NEW state
  PROVE  /\ Line(kind, op, state).kind = kind
         /\ Line(kind, op, state).op = op
         /\ Line(kind, op, state).state = state
BY DEF Line

LEMMA IndexGrows ==
  ASSUME TypeOK, HasOp, Minted, NEW p \in Procs,
         Advance(p) \/ Crash(p) \/ \E call \in Calls : Begin(p, call)
  PROVE  Grew(p)
<1> USE DEF vars, records, files, history
<1>1. ASSUME NEW call \in Calls, Begin(p, call)
     PROVE Grew(p)
  <2>1. UNCHANGED <<index, flushed, minted>>
    BY <1>1 DEF Begin
  <2> QED
    BY <2>1 DEF TypeOK, Grew
<1>2. ASSUME Busy(p)
     PROVE Grew(p)
  BY <1>2 DEF Busy, TypeOK, Grew
<1>3. ASSUME RefuseEarly(p)
     PROVE Grew(p)
  BY <1>3 DEF RefuseEarly, TypeOK, Grew
<1>4. ASSUME Acquire(p)
     PROVE Grew(p)
  BY <1>4 DEF Acquire, TypeOK, Grew
<1>5. ASSUME AcquireFails(p)
     PROVE Grew(p)
  BY <1>5 DEF AcquireFails, TypeOK, Grew
<1>6. ASSUME List(p)
     PROVE Grew(p)
  BY <1>6 DEF List, TypeOK, Grew
<1>7. ASSUME Refuse(p)
     PROVE Grew(p)
  BY <1>7 DEF Refuse, TypeOK, Grew
<1>8. ASSUME StageWrite(p)
     PROVE Grew(p)
  BY <1>8 DEF StageWrite, TypeOK, Grew
<1>9. ASSUME Copy(p)
     PROVE Grew(p)
  BY <1>9 DEF Copy, TypeOK, Grew
<1>10. ASSUME Place(p)
     PROVE Grew(p)
  BY <1>10 DEF Place, TypeOK, Grew
<1>11. ASSUME Commit(p)
     PROVE Grew(p)
  BY <1>11 DEF Commit, TypeOK, Grew
<1>12. ASSUME PruneDone(p)
     PROVE Grew(p)
  BY <1>12 DEF PruneDone, TypeOK, Grew
<1>13. ASSUME EraseCommit(p)
     PROVE Grew(p)
  BY <1>13 DEF EraseCommit, TypeOK, Grew
<1>14. ASSUME SweepIncomplete(p)
     PROVE Grew(p)
  BY <1>14 DEF SweepIncomplete, TypeOK, Grew
<1>15. ASSUME NEW e \in Ops, SettleErase(p, e)
     PROVE Grew(p)
  BY <1>15 DEF SettleErase, TypeOK, Grew
<1>16. ASSUME NEW b \in Ops, RestoreCommit(p, b)
     PROVE Grew(p)
  BY <1>16 DEF RestoreCommit, TypeOK, Grew
<1>17. ASSUME NEW f \in Files, SweepStuck(p, f)
     PROVE Grew(p)
  BY <1>17 DEF SweepStuck, TypeOK, Grew
<1>18. ASSUME NEW out \in Outcomes, Name(p, out)
     PROVE Grew(p)
  <2> DEFINE rec == [Line("backup", job[p].op, "pending") EXCEPT !.reason = job[p].call.reason]
  <2>1. rec \in Lines
    BY <1>18, OpTyped, CallTyped DEF TypeOK, OpPhases, Name, Job, Line, Lines
  <2>2. job[p].op <= minted' /\ minted <= minted'
    BY <1>18 DEF Minted, TypeOK, Name
  <2>3. rec.op = job[p].op /\ (rec.kind # "erase" \/ rec.state # "committed")
    BY LineFields DEF Line
  <2>4. AppendRecord(rec, out)
    BY <1>18 DEF Name
  <2> HIDE DEF rec
  <2> QED
    BY <2>1, <2>2, <2>3, <2>4, AppendGrew
<1>19. ASSUME NEW out \in Outcomes, PlaceFails(p, out)
     PROVE Grew(p)
  <2> DEFINE rec == Line("backup", job[p].op, "aborted")
  <2>1. rec \in Lines
    BY <1>19, OpTyped, LineTyped DEF PlaceFails, OpPhases, Kinds, States
  <2>2. job[p].op <= minted' /\ minted <= minted'
    BY <1>19 DEF Minted, TypeOK, PlaceFails
  <2>3. rec.op = job[p].op /\ (rec.kind # "erase" \/ rec.state # "committed")
    BY LineFields DEF Line
  <2>4. AppendRecord(rec, out)
    BY <1>19 DEF PlaceFails
  <2> HIDE DEF rec
  <2> QED
    BY <2>1, <2>2, <2>3, <2>4, AppendGrew
<1>20. ASSUME NEW out \in Outcomes, CommitFails(p, out)
     PROVE Grew(p)
  <2> DEFINE rec == Line("backup", job[p].op, "orphan")
  <2>1. rec \in Lines
    BY <1>20, LineTyped DEF TypeOK, Job, CommitFails, Kinds, States
  <2>2. job[p].op <= minted' /\ minted <= minted'
    BY <1>20 DEF Minted, TypeOK, CommitFails
  <2>3. rec.op = job[p].op /\ (rec.kind # "erase" \/ rec.state # "committed")
    BY LineFields DEF Line
  <2>4. AppendRecord(rec, out)
    BY <1>20 DEF CommitFails
  <2> HIDE DEF rec
  <2> QED
    BY <2>1, <2>2, <2>3, <2>4, AppendGrew
<1>21. ASSUME NEW out \in Outcomes, Close(p, out)
     PROVE Grew(p)
  <2> DEFINE rec == Line("backup", job[p].op, "committed")
  <2>1. rec \in Lines
    BY <1>21, OpTyped, LineTyped DEF Close, OpPhases, Kinds, States
  <2>2. job[p].op <= minted' /\ minted <= minted'
    BY <1>21 DEF Minted, TypeOK, Close
  <2>3. rec.op = job[p].op /\ (rec.kind # "erase" \/ rec.state # "committed")
    BY LineFields DEF Line
  <2>4. AppendRecord(rec, out)
    BY <1>21 DEF Close
  <2> HIDE DEF rec
  <2> QED
    BY <2>1, <2>2, <2>3, <2>4, AppendGrew
<1>22. ASSUME NEW out \in Outcomes, RestoreClose(p, out)
     PROVE Grew(p)
  <2> DEFINE rec == Line("restore", job[p].op, "committed")
  <2>1. rec \in Lines
    BY <1>22, OpTyped, LineTyped DEF RestoreClose, OpPhases, Kinds, States
  <2>2. job[p].op <= minted' /\ minted <= minted'
    BY <1>22 DEF Minted, TypeOK, RestoreClose
  <2>3. rec.op = job[p].op /\ (rec.kind # "erase" \/ rec.state # "committed")
    BY LineFields DEF Line
  <2>4. AppendRecord(rec, out)
    BY <1>22 DEF RestoreClose
  <2> HIDE DEF rec
  <2> QED
    BY <2>1, <2>2, <2>3, <2>4, AppendGrew
<1>23. ASSUME NEW out \in Outcomes, EraseBegin(p, out)
     PROVE Grew(p)
  <2> DEFINE rec == Line("erase", minted + 1, "pending")
  <2>1. rec \in Lines
    BY <1>23, NextOp, LineTyped DEF TypeOK, EraseBegin, Kinds, States
  <2>2. minted + 1 <= minted' /\ minted <= minted'
    BY <1>23 DEF TypeOK, EraseBegin
  <2>3. rec.op = minted + 1 /\ (rec.kind # "erase" \/ rec.state # "committed")
    BY LineFields DEF Line
  <2>4. AppendRecord(rec, out)
    BY <1>23 DEF EraseBegin
  <2> HIDE DEF rec
  <2> QED
    BY <2>1, <2>2, <2>3, <2>4, AppendGrew
<1>24. ASSUME NEW out \in Outcomes, SweepDone(p, out)
     PROVE Grew(p)
  <2> DEFINE rec == Line("erase", job[p].op, "committed")
  <2>1. rec \in Lines
    BY <1>24, OpTyped, LineTyped DEF SweepDone, OpPhases, Kinds, States
  <2>2. rec.op <= minted' /\ minted <= minted'
    BY <1>24, LineFields DEF SweepDone, Minted, TypeOK
  <2>3. Swept(p) /\ onDisk' = [f \in Files |-> {dir[f]}]
    BY <1>24 DEF SweepDone, Swept, FlushDir
  <2>4. AppendRecord(rec, out)
    BY <1>24 DEF SweepDone
  <2> HIDE DEF rec
  <2> QED
    BY <2>1, <2>2, <2>3, <2>4 DEF TypeOK, AppendRecord, Outcomes, Grew, SweptClean
<1>25. ASSUME NEW b \in Ops, NEW out \in Outcomes, SettleBackup(p, b, out)
     PROVE Grew(p)
  <2> DEFINE rec == Line("backup", b, SettledState(b))
  <2>1. rec \in Lines
    BY <1>25, LineTyped DEF SettledState, Kinds, States
  <2>2. b <= minted' /\ minted <= minted'
    BY <1>25, HasMinted DEF TypeOK, SettleBackup, Open
  <2>3. rec.op = b /\ (rec.kind # "erase" \/ rec.state # "committed")
    BY LineFields DEF Line
  <2>4. AppendRecord(rec, out)
    BY <1>25 DEF SettleBackup
  <2> HIDE DEF rec
  <2> QED
    BY <2>1, <2>2, <2>3, <2>4, AppendGrew
<1>26. ASSUME NEW b \in Ops, NEW out \in Outcomes, SettleRestore(p, b, out)
     PROVE Grew(p)
  <2> DEFINE rec == Line("restore", b, RestoreOutcome(b))
  <2>1. rec \in Lines
    BY <1>26, LineTyped DEF RestoreOutcome, Kinds, States
  <2>2. b <= minted' /\ minted <= minted'
    BY <1>26, HasMinted DEF TypeOK, SettleRestore, Open
  <2>3. rec.op = b /\ (rec.kind # "erase" \/ rec.state # "committed")
    BY LineFields DEF Line
  <2>4. AppendRecord(rec, out)
    BY <1>26 DEF SettleRestore
  <2> HIDE DEF rec
  <2> QED
    BY <2>1, <2>2, <2>3, <2>4, AppendGrew
<1>27. ASSUME NEW b \in Ops, NEW out \in Outcomes, Prune(p, b, out)
     PROVE Grew(p)
  <2> DEFINE rec == Line("prune", b, "done")
  <2>1. rec \in Lines
    BY <1>27, LineTyped DEF Kinds, States
  <2>2. b <= minted' /\ minted <= minted'
    <3>1. PICK c : b \in Standing(c)
      BY <1>27 DEF Prune, Prunable, Excess
    <3>2. Has("backup", b, "orphan") \/ Has("backup", b, "committed")
      BY <3>1 DEF Standing, InClass
    <3> QED
      BY <1>27, <3>2, HasMinted DEF TypeOK, Prune
  <2>3. rec.op = b /\ (rec.kind # "erase" \/ rec.state # "committed")
    BY LineFields DEF Line
  <2>4. AppendRecord(rec, out)
    BY <1>27 DEF Prune
  <2> HIDE DEF rec
  <2> QED
    BY <2>1, <2>2, <2>3, <2>4, AppendGrew
<1>28. ASSUME NEW b \in Ops, NEW out \in Outcomes, RestoreBegin(p, b, out)
     PROVE Grew(p)
  <2> DEFINE rec == [Line("restore", minted + 1, "pending") EXCEPT !.of = b]
  <2>1. rec \in Lines
    BY <1>28, NextOp DEF TypeOK, RestoreBegin, Line, Lines
  <2>2. minted + 1 <= minted' /\ minted <= minted'
    BY <1>28 DEF TypeOK, RestoreBegin
  <2>3. rec.op = minted + 1 /\ (rec.kind # "erase" \/ rec.state # "committed")
    BY LineFields DEF Line
  <2>4. AppendRecord(rec, out)
    BY <1>28 DEF RestoreBegin
  <2> HIDE DEF rec
  <2> QED
    BY <2>1, <2>2, <2>3, <2>4, AppendGrew
<1>29. ASSUME NEW b \in Ops, NEW out \in Outcomes, RecordAbsent(p, b, out)
     PROVE Grew(p)
  <2> DEFINE rec == Line("prune", b, "done")
  <2>1. rec \in Lines
    BY <1>29, LineTyped DEF Kinds, States
  <2>2. b <= minted' /\ minted <= minted'
    BY <1>29, HasMinted DEF TypeOK, RecordAbsent, Unaudited
  <2>3. rec.op = b /\ (rec.kind # "erase" \/ rec.state # "committed")
    BY LineFields DEF Line
  <2>4. AppendRecord(rec, out)
    BY <1>29 DEF RecordAbsent
  <2> HIDE DEF rec
  <2> QED
    BY <2>1, <2>2, <2>3, <2>4, AppendGrew
<1>30. ASSUME NEW f \in Files, NEW out \in Outcomes, SweepFile(p, f, out)
     PROVE Grew(p)
  <2>1. CASE UNCHANGED <<records, faults>>
    BY <1>30, <2>1 DEF SweepFile, TypeOK, Grew
  <2>2. CASE /\ Has("backup", f, "pending")
             /\ AppendRecord(Line("prune", f, "done"), out)
    <3> DEFINE rec == Line("prune", f, "done")
    <3>1. f \in Ops
      <4>1. PICK i \in DOMAIN index : index[i].op = f
        BY <2>2 DEF Has
      <4>2. index[i] \in Lines
        BY <4>1 DEF TypeOK
      <4> QED
        BY <4>1, <4>2 DEF Lines
    <3>2. rec \in Lines
      BY <3>1, LineTyped DEF Kinds, States
    <3>3. f <= minted' /\ minted <= minted'
      BY <1>30, <2>2, HasMinted DEF SweepFile, TypeOK
    <3>4. rec.op = f /\ rec.kind # "erase"
      BY LineFields
    <3>5. AppendRecord(rec, out)
      BY <2>2
    <3> HIDE DEF rec
    <3> QED
      BY <3>2, <3>3, <3>4, <3>5, AppendGrew
  <2> QED
    BY <1>30, <2>1, <2>2 DEF SweepFile
<1>31. ASSUME Crash(p)
     PROVE Grew(p)
  BY <1>31 DEF Crash, TypeOK, Grew
<1> QED
  BY <1>1, <1>2, <1>3, <1>4, <1>5, <1>6, <1>7, <1>8, <1>9, <1>10, <1>11,
     <1>12, <1>13, <1>14, <1>15, <1>16, <1>17, <1>18, <1>19, <1>20, <1>21,
     <1>22, <1>23, <1>24, <1>25, <1>26, <1>27, <1>28, <1>29, <1>30, <1>31 DEF
     Advance

LEMMA IndexOps ==
  ASSUME TypeOK, NEW i \in DOMAIN index
  PROVE  index[i] \in Lines /\ index[i].op \in Ops /\ index[i].op \in Int
<1>1. index[i] \in Lines
  BY DEF TypeOK
<1> QED
  BY <1>1 DEF Lines, Ops

\* The next id to mint is in no record.
LEMMA FreshOp ==
  ASSUME TypeOK, Minted, NEW i \in DOMAIN index
  PROVE  index[i].op # minted + 1
<1>1. index[i].op \in Int /\ minted \in Int /\ index[i].op <= minted
  BY IndexOps DEF TypeOK, Minted
<1> QED
  BY <1>1

LEMMA MintedNext ==
  ASSUME TypeOK, HasOp, Minted, [Next]_vars
  PROVE  Minted'
<1>1. TypeOK'
  BY TypeNext
<1>2. ASSUME NEW p \in Procs, Turn(p), Grew(p)
      PROVE  Minted'
  <2>1. minted \in Int /\ minted' \in Int /\ minted <= minted'
    BY <1>1, <1>2 DEF TypeOK, Grew
  <2>2. \A i \in DOMAIN index' : index'[i].op <= minted'
    <3>1. CASE index' = index
      <4>1. \A i \in DOMAIN index : index[i].op \in Int
        BY IndexOps
      <4> QED
        BY <2>1, <3>1, <4>1 DEF Minted
    <3>2. ASSUME NEW rec \in Lines, index' = Append(index, rec), rec.op <= minted'
          PROVE  \A i \in DOMAIN index' : index'[i].op <= minted'
      <4>1. \A i \in DOMAIN index : index[i].op \in Int /\ index'[i] = index[i]
        BY <3>2, IndexOps DEF TypeOK
      <4>2. DOMAIN index' = DOMAIN index \cup {Len(index) + 1}
        BY <3>2 DEF TypeOK
      <4>3. index'[Len(index) + 1] = rec
        BY <3>2 DEF TypeOK
      <4> QED
        BY <2>1, <3>2, <4>1, <4>2, <4>3 DEF Minted
    <3> QED
      BY <1>2, <3>1, <3>2 DEF Grew
  <2>3. job'[p].op <= minted'
    <3>1. job[p].op \in Int /\ job'[p].op \in Int
      BY <1>1 DEF TypeOK, Job, Ops, NoOp
    <3>2. CASE Open("erase", job'[p].op)
      BY <2>1, <3>1, <3>2, HasMinted DEF Open
    <3>3. CASE job'[p].op \in {job[p].op, NoOp, minted'}
      <4>1. job[p].op <= minted /\ minted \in Nat /\ minted' \in Nat
        BY <1>1 DEF Minted, TypeOK
      <4> QED
        BY <2>1, <3>1, <3>3, <4>1 DEF NoOp
    <3> QED
      BY <1>2, <3>2, <3>3 DEF Turn
  <2>4. ASSUME NEW q \in Procs \ {p} PROVE job'[q].op <= minted'
    <3>1. job'[q].op = job[q].op /\ job[q].op \in Int
      BY <1>2 DEF Turn, TypeOK, Job, Ops, NoOp
    <3> QED
      BY <2>1, <3>1 DEF Minted
  <2> QED
    BY <2>2, <2>3, <2>4 DEF Minted
<1>3. CASE PowerLoss
  BY <1>3 DEF PowerLoss, Minted, TypeOK, Idle, NoOp
<1>4. CASE UNCHANGED vars
  BY <1>4 DEF vars, records, Minted
<1> QED
  BY <1>2, <1>3, <1>4, Turns, IndexGrows DEF Next

-----------------------------------------------------------------------------
(* An erasure stays pending, and out of a power loss's reach, until it ends. *)

Recorded(e) == \E i \in 1..flushed : /\ index[i].kind = "erase"
                                     /\ index[i].op = e
                                     /\ index[i].state = "pending"
Pending(e) == Recorded(e) /\ ~Has("erase", e, "committed")

LEMMA PendingKept ==
  ASSUME TypeOK, TypeOK', NEW p \in Procs, Grew(p), ~SweptClean(p), NEW e \in Ops, Pending(e)
  PROVE  Pending(e)'
<1>1. CASE index' = index
  BY <1>1 DEF TypeOK, Grew, Pending, Recorded, Has
<1>2. ASSUME NEW rec \in Lines, index' = Append(index, rec),
             rec.kind # "erase" \/ rec.state # "committed"
      PROVE  Pending(e)'
  <2>1. /\ Len(index') = Len(index) + 1
        /\ \A i \in 1..Len(index) : index'[i] = index[i]
        /\ index'[Len(index) + 1] = rec
    BY <1>2 DEF TypeOK
  <2>2. Recorded(e)'
    <3>1. PICK i \in 1..flushed : /\ index[i].kind = "erase" /\ index[i].op = e
                                 /\ index[i].state = "pending"
      BY DEF Pending, Recorded
    <3>2. i \in 1..flushed' /\ i \in 1..Len(index)
      BY DEF TypeOK, Grew
    <3> QED
      BY <2>1, <3>1, <3>2 DEF Recorded
  <2>3. ~Has("erase", e, "committed")'
    BY <1>2, <2>1 DEF TypeOK, Pending, Has
  <2> QED
    BY <2>2, <2>3 DEF Pending
<1> QED
  BY <1>1, <1>2 DEF Grew

LEMMA PendingSurvives ==
  ASSUME TypeOK, PowerLoss, NEW e \in Ops, Pending(e)
  PROVE  Pending(e)'
<1>1. PICK n \in flushed..Len(index) : index' = SubSeq(index, 1, n) /\ flushed' = n
  BY DEF PowerLoss
<1>2. /\ n \in Nat /\ flushed \in Nat /\ Len(index') = n
      /\ \A i \in 1..n : i \in 1..Len(index) /\ index'[i] = index[i]
  BY <1>1 DEF TypeOK
<1>3. Recorded(e)'
  BY <1>1, <1>2 DEF Pending, Recorded
<1>4. ~Has("erase", e, "committed")'
  <2>1. DOMAIN index' = 1..n /\ DOMAIN index = 1..Len(index)
    BY <1>1, <1>2 DEF TypeOK
  <2> QED
    BY <1>2, <2>1 DEF Pending, Has
<1> QED
  BY <1>3, <1>4 DEF Pending

LEMMA PendingIsOpen ==
  ASSUME TypeOK, NEW e \in Ops, Pending(e)
  PROVE  Open("erase", e)
BY DEF TypeOK, Pending, Recorded, Open, Terminal, Has

-----------------------------------------------------------------------------
(* The copies: who may change them, and how old they may be.               *)

Aged == \A f \in Files : content[f].epoch <= epoch
SameLife == \A f \in Files : content[f].epoch = epoch => content[f].db.life = life
Covered == \A f \in Files :
  onDisk[f] # {"none"} /\ content[f].epoch < epoch => \E e \in Ops : Pending(e)

\* A step that is not the COMMIT of an erasure: only a copy of the ledger as
\* it is joins the directory, and only the holder of the index changes
\* anything.
Kept(p) ==
  /\ UNCHANGED <<epoch, life>>
  /\ \/ content' = content
     \/ \E op \in Ops :
          content' = [content EXCEPT ![op] = [epoch |-> epoch, db |-> db]]
  /\ \A f \in Files :
       onDisk'[f] # {"none"} => onDisk[f] # {"none"} \/ content'[f].epoch = epoch
  /\ db'.life = db.life \/ (\E b \in Ops : RestoreCommit(p, b))
  /\ job[p].pc \notin Locked => UNCHANGED <<db, index, dir, onDisk, content>>

LEMMA UnlinkKeeps ==
  ASSUME TypeOK, NEW f \in Files, Unlink(f)
  PROVE  /\ content' = content
         /\ \A g \in Files : onDisk'[g] # {"none"} => onDisk[g] # {"none"}
BY DEF TypeOK, Unlink

LEMMA FlushKeeps ==
  ASSUME TypeOK, FlushDir, NEW f \in Files, dir'[f] = dir[f], onDisk'[f] # {"none"}
  PROVE  onDisk[f] # {"none"}
BY DEF TypeOK, FlushDir

LEMMA StepKeeps ==
  ASSUME TypeOK, HasOp, NEW p \in Procs,
         job[p].pc \in {"copied", "named"} => content[job[p].op].epoch = epoch,
         Advance(p) \/ Crash(p) \/ \E call \in Calls : Begin(p, call),
         ~EraseCommit(p)
  PROVE  Kept(p)
<1> USE DEF vars, records, files, history
<1>1. ASSUME NEW call \in Calls, Begin(p, call)
     PROVE Kept(p)
  BY <1>1 DEF Begin, Kept, Locked, Phases
<1>2. ASSUME Busy(p)
     PROVE Kept(p)
  BY <1>2 DEF Busy, Kept, Locked, Phases
<1>3. ASSUME RefuseEarly(p)
     PROVE Kept(p)
  BY <1>3 DEF RefuseEarly, Kept, Locked, Phases
<1>4. ASSUME Acquire(p)
     PROVE Kept(p)
  BY <1>4 DEF Acquire, Kept, Locked, Phases
<1>5. ASSUME AcquireFails(p)
     PROVE Kept(p)
  BY <1>5 DEF AcquireFails, Kept, Locked, Phases
<1>6. ASSUME List(p)
     PROVE Kept(p)
  BY <1>6 DEF List, Kept, Locked, Phases, Ready
<1>7. ASSUME Refuse(p)
     PROVE Kept(p)
  BY <1>7 DEF Refuse, Kept, Locked, Phases, Ready
<1>8. ASSUME StageWrite(p)
     PROVE Kept(p)
  BY <1>8 DEF StageWrite, Kept, Locked, Phases, Ready
<1>9. ASSUME Copy(p)
     PROVE Kept(p)
  BY <1>9, NextOp, OpsAreFiles DEF Copy, Kept, Locked, Phases, Ready, TypeOK
<1>10. ASSUME Place(p)
     PROVE Kept(p)
  BY <1>10, OpTyped, OpsAreFiles, FlushKeeps DEF Place, Kept, Locked, Phases,
     OpPhases, TypeOK
<1>11. ASSUME Commit(p)
     PROVE Kept(p)
  BY <1>11 DEF Commit, Kept, Locked, Phases, Staged, TypeOK, Ledgers
<1>12. ASSUME PruneDone(p)
     PROVE Kept(p)
  BY <1>12 DEF PruneDone, Kept, Locked, Phases
<1>13. ASSUME SweepIncomplete(p)
     PROVE Kept(p)
  BY <1>13, FlushKeeps DEF SweepIncomplete, Kept, Locked, Phases
<1>14. ASSUME NEW e \in Ops, SettleErase(p, e)
     PROVE Kept(p)
  BY <1>14 DEF SettleErase, Kept, Locked, Phases
<1>15. ASSUME NEW b \in Ops, RestoreCommit(p, b)
     PROVE Kept(p)
  BY <1>15 DEF RestoreCommit, Kept, Locked, Phases
<1>16. ASSUME NEW f \in Files, SweepStuck(p, f)
     PROVE Kept(p)
  BY <1>16 DEF SweepStuck, Kept, Locked, Phases
<1>17. ASSUME NEW out \in Outcomes, Name(p, out)
     PROVE Kept(p)
  BY <1>17, OpTyped, OpsAreFiles, UnlinkKeeps DEF Name, Kept, Locked, Phases,
     OpPhases
<1>18. ASSUME NEW out \in Outcomes, PlaceFails(p, out)
     PROVE Kept(p)
  BY <1>18, OpTyped, OpsAreFiles, UnlinkKeeps DEF PlaceFails, Kept, Locked,
     Phases, OpPhases
<1>19. ASSUME NEW out \in Outcomes, CommitFails(p, out)
     PROVE Kept(p)
  BY <1>19 DEF CommitFails, Kept, Locked, Phases
<1>20. ASSUME NEW out \in Outcomes, Close(p, out)
     PROVE Kept(p)
  BY <1>20 DEF Close, Kept, Locked, Phases
<1>21. ASSUME NEW out \in Outcomes, RestoreClose(p, out)
     PROVE Kept(p)
  BY <1>21 DEF RestoreClose, Kept, Locked, Phases
<1>22. ASSUME NEW out \in Outcomes, EraseBegin(p, out)
     PROVE Kept(p)
  BY <1>22 DEF EraseBegin, Kept, Locked, Phases, Ready
<1>23. ASSUME NEW out \in Outcomes, SweepDone(p, out)
     PROVE Kept(p)
  BY <1>23, FlushKeeps DEF SweepDone, Kept, Locked, Phases
<1>24. ASSUME NEW b \in Ops, NEW out \in Outcomes, SettleBackup(p, b, out)
     PROVE Kept(p)
  BY <1>24, OpsAreFiles, UnlinkKeeps DEF SettleBackup, Kept, Locked, Phases
<1>25. ASSUME NEW b \in Ops, NEW out \in Outcomes, SettleRestore(p, b, out)
     PROVE Kept(p)
  BY <1>25 DEF SettleRestore, Kept, Locked, Phases
<1>26. ASSUME NEW b \in Ops, NEW out \in Outcomes, Prune(p, b, out)
     PROVE Kept(p)
  BY <1>26, OpsAreFiles, UnlinkKeeps DEF Prune, Kept, Locked, Phases
<1>27. ASSUME NEW b \in Ops, NEW out \in Outcomes, RestoreBegin(p, b, out)
     PROVE Kept(p)
  BY <1>27 DEF RestoreBegin, Kept, Locked, Phases, Ready
<1>28. ASSUME NEW b \in Ops, NEW out \in Outcomes, RecordAbsent(p, b, out)
     PROVE Kept(p)
  BY <1>28 DEF RecordAbsent, Kept, Locked, Phases
<1>29. ASSUME NEW f \in Files, NEW out \in Outcomes, SweepFile(p, f, out)
     PROVE Kept(p)
  BY <1>29, OpsAreFiles, UnlinkKeeps DEF SweepFile, Kept, Locked, Phases
<1>30. ASSUME Crash(p)
     PROVE Kept(p)
  BY <1>30 DEF Crash, Kept, Locked, Phases
<1> QED
  BY <1>1, <1>2, <1>3, <1>4, <1>5, <1>6, <1>7, <1>8, <1>9, <1>10, <1>11,
     <1>12, <1>13, <1>14, <1>15, <1>16, <1>17, <1>18, <1>19, <1>20, <1>21,
     <1>22, <1>23, <1>24, <1>25, <1>26, <1>27, <1>28, <1>29, <1>30 DEF Advance

\* What the call of p relies on, as it goes.
Working(p) ==
  /\ job[p].pc \in {"copied", "named"} => content[job[p].op].epoch = epoch
  /\ job[p].pc = "erasing" => Pending(job[p].op)
  /\ job[p].pc = "sweep" /\ ~job[p].stuck
       => \A f \in Files \ job[p].todo : dir[f] = "none"
  /\ job[p].pc = "restoring"
       => \A b \in Ops : RestoreOf(job[p].op, b) => content[b].epoch = epoch

SafeInv == /\ TypeOK /\ HasOp /\ LockHeld /\ Minted
           /\ Aged /\ SameLife /\ NoResurrection /\ Covered
           /\ \A p \in Procs : Working(p)

\* Whatever another call relies on survives a step of p.
LEMMA OthersUndisturbed ==
  ASSUME SafeInv, TypeOK', NEW p \in Procs, NEW q \in Procs \ {p},
         Turn(p), Grew(p), Kept(p)
  PROVE  Working(q)'
<1>1. job'[q] = job[q]
  BY DEF Turn
<1>2. CASE job[q].pc \notin Locked
  BY <1>1, <1>2 DEF Working, Locked, Phases
<1>3. CASE job[q].pc \in Locked
  <2>1. job[p].pc \notin Locked
    BY <1>3 DEF SafeInv, LockHeld
  <2>2. UNCHANGED <<index, dir, content, epoch>>
    BY <2>1 DEF Kept
  <2>3. job[q].pc = "erasing" => \E e \in Ops : e = job[q].op /\ Pending(e)'
    <3>1. ~SweptClean(p)
      BY <2>1 DEF SweptClean, Swept, Locked, Phases
    <3>2. job[q].pc = "erasing" => job[q].op \in Ops
      BY OpTyped DEF SafeInv, OpPhases
    <3> QED
      BY <3>1, <3>2, PendingKept DEF SafeInv, Working
  <2> QED
    BY <1>1, <2>2, <2>3 DEF SafeInv, Working, RestoreOf
<1> QED
  BY <1>2, <1>3

\* Once everything is settled, every file left belongs to the present epoch.
LEMMA SettledCopies ==
  ASSUME SafeInv, NothingOpen, NEW f \in Files, dir[f] # "none"
  PROVE  content[f].epoch = epoch
<1>1. onDisk[f] # {"none"}
  BY DEF SafeInv, TypeOK
<1>2. \A e \in Ops : ~Pending(e)
  BY PendingIsOpen DEF SafeInv, NothingOpen
<1>3. ~(content[f].epoch < epoch) /\ content[f].epoch <= epoch
  BY <1>1, <1>2 DEF SafeInv, Covered, Aged
<1> QED
  BY <1>3 DEF SafeInv, TypeOK

\* The call's own step leaves it what it relies on.
LEMMA OwnStep ==
  ASSUME SafeInv, TypeOK', NEW p \in Procs,
         Advance(p) \/ Crash(p) \/ \E call \in Calls : Begin(p, call)
  PROVE  Working(p)'
<1> USE DEF vars, records, files, history
<1>1. ASSUME NEW call \in Calls, Begin(p, call)
     PROVE Working(p)'
  <2>1. job'[p].pc = "begin"
    BY <1>1, BeginFacts DEF SafeInv, TypeOK
  <2> QED
    BY <2>1 DEF Working
<1>2. ASSUME Busy(p)
     PROVE Working(p)'
  BY <1>2, LeaveFacts DEF SafeInv, TypeOK, Busy, Working
<1>3. ASSUME RefuseEarly(p)
     PROVE Working(p)'
  BY <1>3, LeaveFacts DEF SafeInv, TypeOK, RefuseEarly, Working
<1>4. ASSUME Acquire(p)
     PROVE Working(p)'
  BY <1>4, GotoFacts DEF SafeInv, TypeOK, Acquire, Working
<1>5. ASSUME AcquireFails(p)
     PROVE Working(p)'
  BY <1>5, LeaveFacts DEF SafeInv, TypeOK, AcquireFails, Working
<1>6. ASSUME List(p)
     PROVE Working(p)'
  BY <1>6, LeaveFacts DEF SafeInv, TypeOK, List, Working
<1>7. ASSUME Refuse(p)
     PROVE Working(p)'
  BY <1>7, LeaveFacts DEF SafeInv, TypeOK, Refuse, Working
<1>8. ASSUME StageWrite(p)
     PROVE Working(p)'
  BY <1>8, GotoFacts DEF SafeInv, TypeOK, StageWrite, Working
<1>9. ASSUME Copy(p)
     PROVE Working(p)'
  BY <1>9, GotoWithFacts, NextOp, OpsAreFiles DEF SafeInv, TypeOK, Copy, Working
<1>10. ASSUME Place(p)
     PROVE Working(p)'
  BY <1>10, GotoFacts, LeaveFacts DEF SafeInv, TypeOK, Place, Working
<1>11. ASSUME Commit(p)
     PROVE Working(p)'
  BY <1>11, GotoFacts, LeaveFacts DEF SafeInv, TypeOK, Commit, Working
<1>12. ASSUME PruneDone(p)
     PROVE Working(p)'
  BY <1>12, LeaveFacts DEF SafeInv, TypeOK, PruneDone, Working
<1>13. ASSUME EraseCommit(p)
     PROVE Working(p)'
  BY <1>13, SweepFacts DEF SafeInv, TypeOK, EraseCommit, Working
<1>14. ASSUME SweepIncomplete(p)
     PROVE Working(p)'
  BY <1>14, LeaveFacts DEF SafeInv, TypeOK, SweepIncomplete, Working
<1>15. ASSUME NEW e \in Ops, SettleErase(p, e)
     PROVE Working(p)'
  BY <1>15, SweepFacts DEF SafeInv, TypeOK, SettleErase, Working
<1>16. ASSUME NEW b \in Ops, RestoreCommit(p, b)
     PROVE Working(p)'
  BY <1>16, GotoFacts DEF SafeInv, TypeOK, RestoreCommit, Working
<1>17. ASSUME NEW f \in Files, SweepStuck(p, f)
     PROVE Working(p)'
  BY <1>17 DEF SafeInv, TypeOK, Job, SweepStuck, Working
<1>18. ASSUME NEW out \in Outcomes, Name(p, out)
     PROVE Working(p)'
  <2>1. CASE out # "ok"
    BY <1>18, <2>1, LeaveFacts DEF SafeInv, TypeOK, Name, Working
  <2>2. CASE out = "ok"
    BY <1>18, <2>2, GotoFacts DEF SafeInv, TypeOK, Name, Working
  <2> QED
    BY <2>1, <2>2
<1>19. ASSUME NEW out \in Outcomes, PlaceFails(p, out)
     PROVE Working(p)'
  BY <1>19, LeaveFacts DEF SafeInv, TypeOK, PlaceFails, Working
<1>20. ASSUME NEW out \in Outcomes, CommitFails(p, out)
     PROVE Working(p)'
  BY <1>20, GotoFacts, LeaveFacts DEF SafeInv, TypeOK, CommitFails, Working
<1>21. ASSUME NEW out \in Outcomes, Close(p, out)
     PROVE Working(p)'
  BY <1>21, GotoFacts, LeaveFacts DEF SafeInv, TypeOK, Close, Working
<1>22. ASSUME NEW out \in Outcomes, RestoreClose(p, out)
     PROVE Working(p)'
  BY <1>22, LeaveFacts DEF SafeInv, TypeOK, RestoreClose, Working
<1>23. ASSUME NEW out \in Outcomes, EraseBegin(p, out)
     PROVE Working(p)'
  <2>1. CASE out # "ok"
    BY <1>23, <2>1, LeaveFacts DEF SafeInv, TypeOK, EraseBegin, Working
  <2>2. CASE out = "ok"
    <3>0. PICK op \in Ops : op = minted + 1
      BY <1>23, NextOp DEF SafeInv, TypeOK, EraseBegin
    <3> DEFINE rec == Line("erase", op, "pending")
    <3>1. rec.kind = "erase" /\ rec.op = op /\ rec.state = "pending"
      BY LineFields
    <3>2. index' = Append(index, rec) /\ flushed' = Len(index) + 1
      BY <1>23, <2>2, <3>0 DEF EraseBegin, AppendRecord
    <3> HIDE DEF rec
    <3>3. /\ Len(index') = Len(index) + 1
          /\ \A i \in 1..Len(index) : index'[i] = index[i]
          /\ index'[Len(index) + 1] = rec
      BY <3>2 DEF SafeInv, TypeOK
    <3>4. Recorded(op)'
      BY <3>1, <3>2, <3>3 DEF SafeInv, TypeOK, Recorded
    <3>5. ~Has("erase", op, "committed")'
      <4>1. \A i \in DOMAIN index : index[i].op # op
        BY <3>0, FreshOp DEF SafeInv
      <4> QED
        BY <3>1, <3>2, <3>3, <4>1 DEF SafeInv, TypeOK, Has
    <3>6. job'[p].pc = "erasing" /\ job'[p].op = op
      BY <1>23, <2>2, <3>0, GotoWithFacts DEF SafeInv, TypeOK, EraseBegin
    <3> QED
      BY <3>4, <3>5, <3>6 DEF Working, Pending
  <2> QED
    BY <2>1, <2>2
<1>24. ASSUME NEW out \in Outcomes, SweepDone(p, out)
     PROVE Working(p)'
  BY <1>24, LeaveFacts, GotoWithFacts DEF SafeInv, TypeOK, SweepDone, Working
<1>25. ASSUME NEW b \in Ops, NEW out \in Outcomes, SettleBackup(p, b, out)
     PROVE Working(p)'
  BY <1>25, LeaveFacts DEF SafeInv, TypeOK, SettleBackup, Working
<1>26. ASSUME NEW b \in Ops, NEW out \in Outcomes, SettleRestore(p, b, out)
     PROVE Working(p)'
  BY <1>26, LeaveFacts DEF SafeInv, TypeOK, SettleRestore, Working
<1>27. ASSUME NEW b \in Ops, NEW out \in Outcomes, Prune(p, b, out)
     PROVE Working(p)'
  BY <1>27, LeaveFacts DEF SafeInv, TypeOK, Prune, Working
<1>28. ASSUME NEW b \in Ops, NEW out \in Outcomes, RestoreBegin(p, b, out)
     PROVE Working(p)'
  <2>1. CASE out # "ok"
    BY <1>28, <2>1, LeaveFacts DEF SafeInv, TypeOK, RestoreBegin, Working
  <2>2. CASE out = "ok"
    <3>0. PICK op \in Ops : op = minted + 1
      BY <1>28, NextOp DEF SafeInv, TypeOK, RestoreBegin
    <3> DEFINE rec == [Line("restore", op, "pending") EXCEPT !.of = b]
    <3>1. rec.op = op /\ rec.of = b
      BY DEF Line
    <3>2. index' = Append(index, rec) /\ UNCHANGED <<content, epoch>>
      BY <1>28, <2>2, <3>0 DEF RestoreBegin, AppendRecord
    <3> HIDE DEF rec
    <3>3. /\ Len(index') = Len(index) + 1
          /\ \A i \in 1..Len(index) : index'[i] = index[i]
          /\ index'[Len(index) + 1] = rec
      BY <3>2 DEF SafeInv, TypeOK
    <3>4. \A i \in DOMAIN index : index[i].op # op
      BY <3>0, FreshOp DEF SafeInv
    <3>5. ASSUME NEW c \in Ops, RestoreOf(op, c)' PROVE c = b
      <4>1. PICK i \in DOMAIN index' : index'[i].op = op /\ index'[i].of = c
        BY <3>5 DEF RestoreOf
      <4>2. DOMAIN index' = 1..Len(index') /\ DOMAIN index = 1..Len(index)
        BY <3>2 DEF SafeInv, TypeOK
      <4>3. i \notin 1..Len(index)
        <5> SUFFICES ASSUME i \in 1..Len(index) PROVE FALSE
          OBVIOUS
        <5>1. index'[i] = index[i] /\ index[i].op # op
          BY <3>3, <3>4, <4>2
        <5> QED
          BY <4>1, <5>1
      <4>4. i = Len(index) + 1
        BY <3>3, <4>1, <4>2, <4>3 DEF SafeInv, TypeOK
      <4> QED
        BY <3>1, <3>3, <4>1, <4>4
    <3>6. content[b].epoch = epoch
      BY <1>28, SettledCopies, OpsAreFiles DEF RestoreBegin, Ready, Restorable
    <3>7. job'[p].pc = "restoring" /\ job'[p].op = op
      BY <1>28, <2>2, <3>0, GotoWithFacts DEF SafeInv, TypeOK, RestoreBegin
    <3> QED
      BY <3>2, <3>5, <3>6, <3>7 DEF Working
  <2> QED
    BY <2>1, <2>2
<1>29. ASSUME NEW b \in Ops, NEW out \in Outcomes, RecordAbsent(p, b, out)
     PROVE Working(p)'
  BY <1>29, LeaveFacts DEF SafeInv, TypeOK, RecordAbsent, Working
<1>30. ASSUME NEW f \in Files, NEW out \in Outcomes, SweepFile(p, f, out)
     PROVE Working(p)'
  <2>1. CASE out # "ok"
    BY <1>30, <2>1, LeaveFacts DEF SafeInv, TypeOK, SweepFile, Working
  <2>2. CASE out = "ok"
    <3>1. /\ job'[p].pc = "sweep" /\ job'[p].stuck = job[p].stuck
          /\ job'[p].todo = job[p].todo \ {f}
      BY <1>30, <2>2 DEF SafeInv, TypeOK, Job, SweepFile
    <3>2. dir' = [dir EXCEPT ![f] = "none"]
      BY <1>30 DEF SweepFile, Unlink
    <3> QED
      BY <1>30, <3>1, <3>2 DEF SafeInv, TypeOK, SweepFile, Working
  <2> QED
    BY <2>1, <2>2
<1>31. ASSUME Crash(p)
     PROVE Working(p)'
  BY <1>31, LeaveFacts DEF SafeInv, TypeOK, Crash, Working
<1> QED
  BY <1>1, <1>2, <1>3, <1>4, <1>5, <1>6, <1>7, <1>8, <1>9, <1>10, <1>11,
     <1>12, <1>13, <1>14, <1>15, <1>16, <1>17, <1>18, <1>19, <1>20, <1>21,
     <1>22, <1>23, <1>24, <1>25, <1>26, <1>27, <1>28, <1>29, <1>30, <1>31 DEF
     Advance

-----------------------------------------------------------------------------
(* The invariant is inductive.                                             *)

LEMMA SafeInit == Init => SafeInv
<1> SUFFICES ASSUME Init PROVE SafeInv
  OBVIOUS
<1>1. TypeOK
  BY TypeInit
<1>2. \A p \in Procs : job[p].pc = "idle" /\ job[p].op = NoOp
  BY DEF Init, Idle
<1>3. HasOp /\ LockHeld /\ Minted
  BY <1>2 DEF Init, HasOp, OpPhases, LockHeld, Locked, Minted, NoOp
<1>4. Aged /\ SameLife /\ NoResurrection /\ Covered
  BY DEF Init, Aged, SameLife, NoResurrection, Covered, EmptyLedger
<1>5. \A p \in Procs : Working(p)
  BY <1>2 DEF Working
<1> QED
  BY <1>1, <1>3, <1>4, <1>5 DEF SafeInv

\* The COMMIT of an erasure makes every copy old at once, and its pending
\* record already covers them all.
LEMMA EraseCommitSafe ==
  ASSUME SafeInv, TypeOK', NEW p \in Procs, EraseCommit(p)
  PROVE  Aged' /\ SameLife' /\ NoResurrection' /\ Covered'
<1>1. /\ epoch' = epoch + 1 /\ epoch \in Nat
      /\ UNCHANGED <<content, index, flushed>>
  BY DEF EraseCommit, SafeInv, TypeOK, records, files
<1>2. \A f \in Files : content[f].epoch <= epoch /\ content[f].epoch \in Nat
  BY DEF SafeInv, Aged, TypeOK
<1>3. Aged' /\ SameLife'
  BY <1>1, <1>2 DEF Aged, SameLife
<1>4. NoResurrection'
  <2>1. CASE job[p].call.tool = "erase"
    BY <2>1 DEF EraseCommit, NoResurrection, EmptyLedger
  <2>2. CASE job[p].call.tool # "erase"
    BY <2>2 DEF EraseCommit, SafeInv, NoResurrection
  <2> QED
    BY <2>1, <2>2
<1>5. PICK e \in Ops : Pending(e)
  BY OpTyped DEF SafeInv, Working, EraseCommit, OpPhases
<1>6. Covered'
  BY <1>1, <1>5 DEF Covered, Pending, Recorded, Has
<1> QED
  BY <1>3, <1>4, <1>6

\* No other step does: it adds no old copy, and a sweep that closes an
\* erasure leaves no file.
LEMMA KeptSafe ==
  ASSUME SafeInv, TypeOK', NEW p \in Procs, Grew(p), Kept(p)
  PROVE  Aged' /\ SameLife' /\ NoResurrection' /\ Covered'
<1>1. UNCHANGED <<epoch, life>>
  BY DEF Kept
<1>2. db.life = life
  BY DEF SafeInv, NoResurrection
<1>3. \A f \in Files : \/ content'[f] = content[f]
                       \/ content'[f].epoch = epoch /\ content'[f].db = db
  <2>1. content \in [Files -> [epoch : Nat, db : Ledgers]]
    BY DEF SafeInv, TypeOK
  <2>2. CASE content' = content
    BY <2>2
  <2>3. ASSUME NEW op \in Ops,
               content' = [content EXCEPT ![op] = [epoch |-> epoch, db |-> db]]
        PROVE  \A f \in Files :
                 \/ content'[f] = content[f]
                 \/ content'[f].epoch = epoch /\ content'[f].db = db
    <3>1. ASSUME NEW f \in Files, f # op PROVE content'[f] = content[f]
      BY <2>3, <3>1
    <3>2. op \in Files
      BY OpsAreFiles
    <3>3. content'[op] = [epoch |-> epoch, db |-> db]
      BY <2>1, <2>3, <3>2
    <3>4. content'[op].epoch = epoch /\ content'[op].db = db
      BY <3>3
    <3> TAKE f \in Files
    <3>5. CASE f = op
      BY <3>4, <3>5
    <3>6. CASE f # op
      BY <3>1, <3>6
    <3> QED
      BY <3>5, <3>6
  <2> QED
    BY <2>2, <2>3 DEF Kept
<1>4. Aged' /\ SameLife'
  <2>1. epoch \in Nat
    BY DEF SafeInv, TypeOK
  <2>2. ASSUME NEW f \in Files
        PROVE  /\ content'[f].epoch <= epoch
               /\ content'[f].epoch = epoch => content'[f].db.life = life
    <3>1. CASE content'[f] = content[f]
      BY <3>1 DEF SafeInv, Aged, SameLife
    <3>2. CASE content'[f].epoch = epoch /\ content'[f].db = db
      BY <1>2, <2>1, <3>2
    <3> QED
      BY <1>3, <3>1, <3>2
  <2> QED
    BY <1>1, <2>2 DEF Aged, SameLife
<1>5. NoResurrection'
  <2>1. CASE db'.life = db.life
    BY <1>1, <1>2, <2>1 DEF NoResurrection
  <2>2. ASSUME NEW b \in Ops, RestoreCommit(p, b) PROVE NoResurrection'
    <3>1. content[b].epoch = epoch
      BY <2>2 DEF RestoreCommit, SafeInv, Working
    <3>2. content[b].db.life = life
      BY <3>1, OpsAreFiles DEF SafeInv, SameLife
    <3> QED
      BY <1>1, <2>2, <3>2 DEF RestoreCommit, NoResurrection
  <2> QED
    BY <2>1, <2>2 DEF Kept
<1>6. Covered'
  <2>1. CASE SweptClean(p)
    <3>1. \A f \in Files : dir[f] = "none"
      BY <2>1 DEF SweptClean, Swept, SafeInv, Working
    <3> QED
      BY <2>1, <3>1 DEF SweptClean, Covered
  <2>2. CASE ~SweptClean(p)
    <3>1. \A e \in Ops : Pending(e) => Pending(e)'
      BY <2>2, PendingKept DEF SafeInv
    <3>2. ASSUME NEW f \in Files, onDisk'[f] # {"none"}, content'[f].epoch < epoch
          PROVE  \E e \in Ops : Pending(e)'
      <4>1. epoch \in Nat
        BY DEF SafeInv, TypeOK
      <4>2. content'[f] = content[f]
        BY <1>3, <3>2, <4>1
      <4>3. onDisk[f] # {"none"}
        BY <3>2, <4>1 DEF Kept
      <4> QED
        BY <3>1, <3>2, <4>2, <4>3 DEF SafeInv, Covered
    <3> QED
      BY <1>1, <3>2 DEF Covered
  <2> QED
    BY <2>1, <2>2
<1> QED
  BY <1>4, <1>5, <1>6

LEMMA PowerLossSafe ==
  ASSUME SafeInv, TypeOK', PowerLoss
  PROVE  /\ Aged' /\ SameLife' /\ NoResurrection' /\ Covered'
         /\ \A p \in Procs : Working(p)'
<1>1. UNCHANGED <<db, content, history>>
  BY DEF PowerLoss
<1>2. Aged' /\ SameLife' /\ NoResurrection'
  BY <1>1 DEF SafeInv, Aged, SameLife, NoResurrection, history
<1>3. ASSUME NEW f \in Files, onDisk'[f] # {"none"}
      PROVE  onDisk[f] # {"none"}
  BY <1>3 DEF PowerLoss
<1>4. \A e \in Ops : Pending(e) => Pending(e)'
  BY PendingSurvives DEF SafeInv
<1>5. Covered'
  BY <1>1, <1>3, <1>4 DEF SafeInv, Covered, history
<1>6. \A p \in Procs : Working(p)'
  BY DEF PowerLoss, Idle, Working
<1> QED
  BY <1>2, <1>5, <1>6

LEMMA SafeNext == SafeInv /\ [Next]_vars => SafeInv'
<1> SUFFICES ASSUME SafeInv, [Next]_vars PROVE SafeInv'
  OBVIOUS
<1>1. TypeOK' /\ HasOp' /\ LockHeld' /\ Minted'
  BY TypeNext, Control, MintedNext DEF SafeInv
<1>2. ASSUME NEW p \in Procs,
             Advance(p) \/ Crash(p) \/ \E call \in Calls : Begin(p, call)
      PROVE  SafeInv'
  <2>1. Turn(p) /\ Grew(p)
    BY <1>2, Turns, IndexGrows DEF SafeInv
  <2>2. Working(p)'
    BY <1>1, <1>2, OwnStep
  <2>3. CASE EraseCommit(p)
    <3>1. Aged' /\ SameLife' /\ NoResurrection' /\ Covered'
      BY <1>1, <2>3, EraseCommitSafe
    <3>2. ASSUME NEW q \in Procs \ {p} PROVE Working(q)'
      <4>1. lock = p /\ job'[q] = job[q]
        BY <2>1, <2>3 DEF EraseCommit, SafeInv, LockHeld, Locked, Phases, Turn
      <4>2. job[q].pc \notin Locked
        BY <4>1 DEF SafeInv, LockHeld
      <4> QED
        BY <4>1, <4>2 DEF Working, Locked, Phases
    <3> QED
      BY <1>1, <2>2, <3>1, <3>2 DEF SafeInv
  <2>4. CASE ~EraseCommit(p)
    <3>1. Kept(p)
      BY <1>2, <2>4, StepKeeps DEF SafeInv, Working
    <3>2. Aged' /\ SameLife' /\ NoResurrection' /\ Covered'
      BY <1>1, <2>1, <3>1, KeptSafe
    <3>3. \A q \in Procs \ {p} : Working(q)'
      BY <1>1, <2>1, <3>1, OthersUndisturbed
    <3> QED
      BY <1>1, <2>2, <3>2, <3>3 DEF SafeInv
  <2> QED
    BY <2>3, <2>4
<1>3. CASE PowerLoss
  BY <1>1, <1>3, PowerLossSafe DEF SafeInv
<1>4. CASE UNCHANGED vars
  <2>1. Aged' /\ SameLife' /\ NoResurrection' /\ Covered'
    BY <1>4 DEF vars, records, files, history, SafeInv, Aged, SameLife,
       NoResurrection, Covered, Pending, Recorded, Has
  <2>2. \A p \in Procs : Working(p)'
    BY <1>4 DEF vars, records, files, history, SafeInv, Working, Pending,
       Recorded, Has, RestoreOf
  <2> QED
    BY <1>1, <2>1, <2>2 DEF SafeInv
<1> QED
  BY <1>2, <1>3, <1>4 DEF Next

\* The strengthened invariant: types, the lock discipline, what each phase of a
\* call has already made true, and that an erased copy is always covered.
THEOREM Safe == Spec => []SafeInv
BY SafeInit, SafeNext, PTL DEF Spec

-----------------------------------------------------------------------------
(* What a reader should know.                                              *)

\* Every variable keeps the values the code can give it.
THEOREM TypeCorrect == Spec => []TypeOK
<1>1. SafeInv => TypeOK
  BY DEF SafeInv
<1> QED
  BY Safe, <1>1, PTL

\* No restore brings back rows of a ledger that was erased, whatever
\* processes crash and whatever a power loss takes back (NoResurrection).
THEOREM ErasedStaysErased == Spec => []NoResurrection
<1>1. SafeInv => NoResurrection
  BY DEF SafeInv
<1> QED
  BY Safe, <1>1, PTL

\* While a file that holds what an erasure destroyed is there, or can come
\* back, a durable pending erasure is there to complete (ErasedCopiesGone).
THEOREM ErasedCopiesCovered == Spec => []ErasedCopiesGone
<1>1. SafeInv => ErasedCopiesGone
  <2> SUFFICES ASSUME SafeInv, NEW f \in Files,
                      onDisk[f] # {"none"}, content[f].epoch < epoch
               PROVE  \E e \in Ops :
                        /\ Open("erase", e)
                        /\ \E i \in 1..flushed : index[i].kind = "erase"
                                                /\ index[i].op = e
    BY DEF ErasedCopiesGone
  <2>1. PICK e \in Ops : Pending(e)
    BY DEF SafeInv, Covered
  <2>2. Open("erase", e)
    BY <2>1, PendingIsOpen DEF SafeInv
  <2> QED
    BY <2>1, <2>2 DEF Pending, Recorded
<1> QED
  BY Safe, <1>1, PTL

-----------------------------------------------------------------------------
(* The index as a log.                                                     *)

OpKinds == {"backup", "restore", "erase"}

Opening(i) == index[i].state = "pending"
SameOp(i, j) == index[i].kind = index[j].kind /\ index[i].op = index[j].op

\* A record has a state of its kind.
Shaped == \A i \in DOMAIN index :
  \/ index[i].kind = "prune" /\ index[i].state = "done"
  \/ /\ index[i].kind \in OpKinds
     /\ Opening(i) \/ index[i].state \in Terminal(index[i].kind)

\* What has ended had begun.
Begun == \A j \in DOMAIN index :
  index[j].kind # "prune" /\ ~Opening(j) =>
    \E i \in DOMAIN index : i < j /\ SameOp(i, j) /\ Opening(i)

\* An operation begins after those begun before it have ended.
OneByOne == \A i, j \in DOMAIN index :
  i < j /\ Opening(i) /\ Opening(j) =>
    /\ index[i].op < index[j].op
    /\ \E k \in DOMAIN index : i < k /\ k < j /\ SameOp(i, k) /\ ~Opening(k)

IsCopy(i) == /\ index[i].kind = "backup"
             /\ index[i].state \in {"committed", "orphan"}

\* A copy recorded before the end of an erasure has its audit record by then.
Audited == \A i, j \in DOMAIN index :
  i < j /\ IsCopy(i) /\ index[j].kind = "erase" /\ index[j].state = "committed" =>
    \E k \in DOMAIN index : /\ k < j
                            /\ index[k].kind = "prune"
                            /\ index[k].op = index[i].op

IndexInv == Shaped /\ IndexParses /\ Begun /\ OneByOne /\ Audited

\* What is true when a record is appended.
Begins(rec) == /\ rec.kind \in OpKinds /\ rec.state = "pending"
               /\ NothingOpen
               /\ \A i \in DOMAIN index : index[i].op < rec.op
Ends(rec) ==
  /\ rec.kind \in OpKinds /\ rec.state \in Terminal(rec.kind)
  /\ Open(rec.kind, rec.op)
  /\ rec.kind = "restore" => (rec.state = "committed" <=> rec.op \in restored)
  /\ rec.kind = "erase" =>
       \A b \in Ops : Has("backup", b, "committed") \/ Has("backup", b, "orphan")
                        => Pruned(b)
Audits(rec) == rec.kind = "prune" /\ rec.state = "done" /\ ~Pruned(rec.op)

Fits(rec) == Begins(rec) \/ Ends(rec) \/ Audits(rec)

LEMMA TerminalStates ==
  ASSUME NEW kind \in OpKinds, NEW state \in Terminal(kind)
  PROVE  state \in States \ {"pending"}
BY DEF OpKinds, Terminal, States

LEMMA Appended ==
  ASSUME TypeOK, NEW rec \in Lines, index' = Append(index, rec)
  PROVE  /\ Len(index) \in Nat /\ Len(index') = Len(index) + 1
         /\ DOMAIN index = 1..Len(index) /\ DOMAIN index' = 1..(Len(index) + 1)
         /\ \A i \in DOMAIN index : i \in DOMAIN index' /\ index'[i] = index[i]
         /\ index'[Len(index) + 1] = rec
         /\ \A i \in DOMAIN index' : i \in DOMAIN index \/ i = Len(index) + 1
BY DEF TypeOK

LEMMA HasAppended ==
  ASSUME TypeOK, NEW rec \in Lines, index' = Append(index, rec),
         NEW kind, NEW op, NEW state
  PROVE  Has(kind, op, state)' <=>
           \/ Has(kind, op, state)
           \/ rec.kind = kind /\ rec.op = op /\ rec.state = state
BY Appended DEF Has

\* A power loss keeps a prefix.
LEMMA Prefix ==
  ASSUME TypeOK, PowerLoss
  PROVE  /\ DOMAIN index' \subseteq DOMAIN index
         /\ DOMAIN index' \subseteq Nat
         /\ \A i \in DOMAIN index' : index'[i] = index[i]
         /\ \A j \in DOMAIN index' : \A i \in DOMAIN index : i < j => i \in DOMAIN index'
         /\ \A i \in 1..flushed : i \in 1..flushed'
         /\ \A i \in 1..flushed : i \in DOMAIN index'
<1>1. PICK n \in flushed..Len(index) : index' = SubSeq(index, 1, n) /\ flushed' = n
  BY DEF PowerLoss
<1>2. /\ n \in Nat /\ flushed \in Nat /\ n <= Len(index) /\ flushed <= n
      /\ Len(index) \in Nat /\ DOMAIN index = 1..Len(index)
  BY DEF TypeOK
<1>3. DOMAIN index' = 1..n /\ \A i \in 1..n : index'[i] = index[i]
  BY <1>1, <1>2 DEF TypeOK
<1> QED
  BY <1>1, <1>2, <1>3

LEMMA IndexCut ==
  ASSUME TypeOK, PowerLoss, IndexInv
  PROVE  IndexInv'
<1>1. /\ DOMAIN index' \subseteq DOMAIN index
      /\ \A i \in DOMAIN index' : index'[i] = index[i]
      /\ \A j \in DOMAIN index' : \A i \in DOMAIN index : i < j => i \in DOMAIN index'
  BY Prefix
<1>2. Shaped' /\ IndexParses'
  BY <1>1 DEF IndexInv, Shaped, IndexParses, Opening
<1>3. Begun'
  BY <1>1 DEF IndexInv, Begun, Opening, SameOp
<1>4. OneByOne'
  BY <1>1 DEF IndexInv, OneByOne, Opening, SameOp
<1>5. Audited'
  BY <1>1 DEF IndexInv, Audited, IsCopy
<1> QED
  BY <1>2, <1>3, <1>4, <1>5 DEF IndexInv

\* An operation that is not open and has begun has a record of its end, later.
LEMMA EndedAfter ==
  ASSUME TypeOK, IndexInv, NEW i \in DOMAIN index, Opening(i),
         ~Open(index[i].kind, index[i].op)
  PROVE  \E k \in DOMAIN index : /\ i < k /\ SameOp(i, k) /\ ~Opening(k)
                                 /\ index[k].state \in Terminal(index[i].kind)
<1>1. index[i].kind \in OpKinds
  BY DEF IndexInv, Shaped, Opening
<1>2. Has(index[i].kind, index[i].op, "pending")
  BY DEF Has, Opening
<1>3. PICK s \in Terminal(index[i].kind) : Has(index[i].kind, index[i].op, s)
  BY <1>2 DEF Open
<1>4. PICK k \in DOMAIN index : /\ index[k].kind = index[i].kind
                                /\ index[k].op = index[i].op /\ index[k].state = s
  BY <1>3 DEF Has
<1>5. s # "pending"
  BY <1>1, TerminalStates
<1>6. ~(k < i) /\ k # i
  BY <1>4, <1>5 DEF IndexInv, IndexParses, Opening
<1>7. i \in Int /\ k \in Int
  BY DEF TypeOK
<1> QED
  BY <1>3, <1>4, <1>5, <1>6, <1>7 DEF SameOp, Opening

LEMMA IndexAppend ==
  ASSUME TypeOK, IndexInv, NEW rec \in Lines, index' = Append(index, rec), Fits(rec)
  PROVE  IndexInv'
<1> DEFINE n == Len(index) + 1
<1>1. /\ \A i \in DOMAIN index : /\ i \in DOMAIN index' /\ index'[i] = index[i]
                                 /\ i \in Int /\ i < n
      /\ index'[n] = rec /\ n \in Int /\ n \in DOMAIN index'
      /\ \A i \in DOMAIN index' : i \in DOMAIN index \/ i = n
  BY Appended
<1> HIDE DEF n
<1>2. rec.state = "pending" => Begins(rec)
  BY TerminalStates DEF Fits, Ends, Audits
<1>3. Shaped'
  <2>1. \/ rec.kind = "prune" /\ rec.state = "done"
        \/ rec.kind \in OpKinds /\ (rec.state = "pending" \/ rec.state \in Terminal(rec.kind))
    BY DEF Fits, Begins, Ends, Audits
  <2> QED
    BY <1>1, <2>1 DEF IndexInv, Shaped, Opening
<1>4. IndexParses'
  <2> SUFFICES ASSUME NEW i \in DOMAIN index', NEW j \in DOMAIN index', i < j,
                      index'[i].kind = index'[j].kind, index'[i].op = index'[j].op
               PROVE  index'[i].state = "pending" /\ index'[j].state # "pending"
    BY DEF IndexParses
  <2>1. i \in DOMAIN index
    BY <1>1
  <2>2. CASE j \in DOMAIN index
    BY <1>1, <2>1, <2>2 DEF IndexInv, IndexParses
  <2>3. CASE j = n
    <3>1. index[i].kind = rec.kind /\ index[i].op = rec.op
      BY <1>1, <2>1, <2>3
    <3>2. ~Begins(rec)
      BY <2>1, <3>1, IndexOps DEF Begins
    <3>3. index[i].state = "pending"
      <4>1. CASE Ends(rec)
        <5>1. index[i].state \notin Terminal(rec.kind)
          BY <2>1, <3>1, <4>1 DEF Ends, Open, Has
        <5> QED
          BY <2>1, <3>1, <4>1, <5>1 DEF IndexInv, Shaped, Opening, Ends, OpKinds
      <4>2. CASE Audits(rec)
        BY <2>1, <3>1, <4>2 DEF IndexInv, Shaped, Audits, Pruned, Has, OpKinds
      <4> QED
        BY <3>2, <4>1, <4>2 DEF Fits
    <3> QED
      BY <1>1, <1>2, <2>1, <2>3, <3>2, <3>3
  <2> QED
    BY <1>1, <2>2, <2>3
<1>5. Begun'
  <2> SUFFICES ASSUME NEW j \in DOMAIN index', index'[j].kind # "prune",
                      index'[j].state # "pending"
               PROVE  \E i \in DOMAIN index' : i < j /\ SameOp(i, j)' /\ Opening(i)'
    BY DEF Begun, Opening
  <2>1. CASE j \in DOMAIN index
    BY <1>1, <2>1 DEF IndexInv, Begun, Opening, SameOp
  <2>2. CASE j = n
    <3>1. Ends(rec)
      BY <1>1, <2>2 DEF Fits, Begins, Audits
    <3>2. PICK i \in DOMAIN index : /\ index[i].kind = rec.kind
                                    /\ index[i].op = rec.op
                                    /\ index[i].state = "pending"
      BY <3>1 DEF Ends, Open, Has
    <3> QED
      BY <1>1, <2>2, <3>2 DEF SameOp, Opening
  <2> QED
    BY <1>1, <2>1, <2>2
<1>6. OneByOne'
  <2> SUFFICES ASSUME NEW i \in DOMAIN index', NEW j \in DOMAIN index', i < j,
                      Opening(i)', Opening(j)'
               PROVE  /\ index'[i].op < index'[j].op
                      /\ \E k \in DOMAIN index' :
                           i < k /\ k < j /\ SameOp(i, k)' /\ ~Opening(k)'
    BY DEF OneByOne
  <2>1. i \in DOMAIN index
    BY <1>1
  <2>2. CASE j \in DOMAIN index
    BY <1>1, <2>1, <2>2 DEF IndexInv, OneByOne, Opening, SameOp
  <2>3. CASE j = n
    <3>1. Begins(rec)
      BY <1>1, <1>2, <2>3 DEF Opening
    <3>2. Opening(i) /\ index[i].op \in Ops /\ index[i].kind \in OpKinds
      BY <1>1, <2>1, IndexOps DEF Opening, IndexInv, Shaped
    <3>3. ~Open(index[i].kind, index[i].op)
      BY <3>1, <3>2 DEF Begins, NothingOpen, OpKinds
    <3>4. PICK k \in DOMAIN index : i < k /\ SameOp(i, k) /\ ~Opening(k)
      BY <2>1, <3>2, <3>3, EndedAfter
    <3> QED
      BY <1>1, <2>1, <2>3, <3>1, <3>4 DEF Begins, SameOp, Opening
  <2> QED
    BY <1>1, <2>2, <2>3
<1>7. Audited'
  <2> SUFFICES ASSUME NEW i \in DOMAIN index', NEW j \in DOMAIN index', i < j,
                      IsCopy(i)', index'[j].kind = "erase",
                      index'[j].state = "committed"
               PROVE  \E k \in DOMAIN index' : /\ k < j
                                               /\ index'[k].kind = "prune"
                                               /\ index'[k].op = index'[i].op
    BY DEF Audited
  <2>1. i \in DOMAIN index /\ IsCopy(i)
    BY <1>1 DEF IsCopy
  <2>2. CASE j \in DOMAIN index
    BY <1>1, <2>1, <2>2 DEF IndexInv, Audited
  <2>3. CASE j = n
    <3>1. Ends(rec) /\ rec.kind = "erase"
      BY <1>1, <2>3 DEF Fits, Begins, Audits
    <3>2. Has("backup", index[i].op, "committed") \/ Has("backup", index[i].op, "orphan")
      BY <2>1 DEF IsCopy, Has
    <3>3. Pruned(index[i].op)
      BY <2>1, <3>1, <3>2, IndexOps DEF Ends
    <3> QED
      BY <1>1, <2>1, <2>3, <3>3 DEF Pruned, Has
  <2> QED
    BY <1>1, <2>2, <2>3
<1> QED
  BY <1>3, <1>4, <1>5, <1>6, <1>7 DEF IndexInv

-----------------------------------------------------------------------------
(* One operation is open at a time.                                        *)

LEMMA OneIsOpen ==
  ASSUME TypeOK, IndexInv
  PROVE  OneOpen
<1>1. ASSUME NEW i \in DOMAIN index, NEW j \in DOMAIN index, Opening(i), Opening(j),
             Open(index[i].kind, index[i].op), i < j
      PROVE  FALSE
  <2>1. PICK k \in DOMAIN index : SameOp(i, k) /\ ~Opening(k)
    BY <1>1 DEF IndexInv, OneByOne
  <2>2. index[i].kind \in OpKinds
    BY <1>1 DEF IndexInv, Shaped, Opening
  <2>3. index[k].state \in Terminal(index[i].kind)
    BY <2>1, <2>2 DEF IndexInv, Shaped, Opening, SameOp, OpKinds
  <2> QED
    BY <1>1, <2>1, <2>3 DEF Open, Has, SameOp
<1> SUFFICES ASSUME NEW k, NEW l, NEW o, NEW q, Open(k, o), Open(l, q)
             PROVE  k = l /\ o = q
  BY DEF OneOpen
<1>2. PICK i \in DOMAIN index : index[i].kind = k /\ index[i].op = o /\ Opening(i)
  BY DEF Open, Has, Opening
<1>3. PICK j \in DOMAIN index : index[j].kind = l /\ index[j].op = q /\ Opening(j)
  BY DEF Open, Has, Opening
<1>4. i \in Int /\ j \in Int
  BY DEF TypeOK
<1> QED
  BY <1>1, <1>2, <1>3, <1>4

\* A record whose operation began before a fence of records is closed before it.
LEMMA CopyBeforeErase ==
  ASSUME TypeOK, IndexInv, NEW i \in DOMAIN index, NEW j \in DOMAIN index,
         IsCopy(i), index[j].kind = "erase", index[j].state = "committed",
         index[i].op < index[j].op
  PROVE  i < j
<1>1. PICK a \in DOMAIN index : a < i /\ SameOp(a, i) /\ Opening(a)
  BY DEF IndexInv, Begun, IsCopy, Opening
<1>2. PICK b \in DOMAIN index : b < j /\ SameOp(b, j) /\ Opening(b)
  BY DEF IndexInv, Begun, IsCopy, Opening
<1>3. index[a].op < index[b].op /\ index[b].op \in Int /\ index[a].op \in Int
  BY <1>1, <1>2, IndexOps DEF SameOp
<1>4. a \in Int /\ b \in Int /\ i \in Int /\ j \in Int
  BY DEF TypeOK
<1>5. ~(b < a)
  BY <1>1, <1>2, <1>3 DEF IndexInv, OneByOne
<1>6. a < b
  BY <1>3, <1>4, <1>5
<1>7. PICK k \in DOMAIN index : k < b /\ SameOp(a, k) /\ ~Opening(k)
  BY <1>1, <1>2, <1>6 DEF IndexInv, OneByOne
<1>8. k = i
  <2>1. SameOp(k, i) /\ ~Opening(i) /\ k \in Int
    BY <1>1, <1>7 DEF SameOp, IsCopy, Opening, TypeOK
  <2> QED
    BY <1>4, <1>7, <2>1 DEF IndexInv, IndexParses, SameOp, Opening
<1> QED
  BY <1>2, <1>4, <1>7, <1>8

LEMMA AuditedHolds ==
  ASSUME TypeOK, IndexInv
  PROVE  ErasureAudited
<1> SUFFICES ASSUME NEW e \in Ops, NEW b \in Ops, b < e,
                    Has("erase", e, "committed"),
                    Has("backup", b, "committed") \/ Has("backup", b, "orphan")
             PROVE  Pruned(b)
  BY DEF ErasureAudited
<1>1. PICK i \in DOMAIN index : index[i].op = b /\ IsCopy(i)
  BY DEF Has, IsCopy
<1>2. PICK j \in DOMAIN index : /\ index[j].kind = "erase" /\ index[j].op = e
                                /\ index[j].state = "committed"
  BY DEF Has
<1>3. i < j
  BY <1>1, <1>2, CopyBeforeErase
<1>4. PICK k \in DOMAIN index : index[k].kind = "prune" /\ index[k].op = b
  BY <1>1, <1>2, <1>3 DEF IndexInv, Audited
<1> QED
  BY <1>4 DEF IndexInv, Shaped, OpKinds, Pruned, Has

-----------------------------------------------------------------------------
(* The restores, in the ledger and in the index.                           *)

Durable(kind, op, state) ==
  \E i \in 1..flushed : /\ index[i].kind = kind /\ index[i].op = op
                        /\ index[i].state = state

\* A restore that happened began on disk and is not called aborted; the marker
\* tells of it until its own end is on disk too.
Counted ==
  /\ db.marker \in restored \cup {NoOp}
  /\ \A r \in Ops : Has("restore", r, "committed") => r \in restored
  /\ \A r \in restored :
       /\ Durable("restore", r, "pending")
       /\ ~Has("restore", r, "aborted")
       /\ Durable("restore", r, "committed") \/ db.marker = r

\* What the place a call is at says of the index and the restores.
InPhase(p) ==
  /\ job[p].pc \in {"idle", "begin", "settle"} => job[p].op = NoOp
  /\ job[p].pc = "copied" =>
       NothingOpen /\ (\A i \in DOMAIN index : index[i].op < job[p].op)
  /\ job[p].pc \in {"named", "staged", "closing"} /\ job[p].op # NoOp =>
       Open("backup", job[p].op)
  /\ job[p].pc \in {"restoring", "restored"} => Open("restore", job[p].op)
  /\ job[p].pc = "restoring" =>
       /\ job[p].op \notin restored
       /\ Durable("restore", job[p].op, "pending")
       /\ \A r \in restored : Durable("restore", r, "committed")
  /\ job[p].pc = "restored" => job[p].op \in restored
  /\ job[p].pc \in {"erasing", "sweep"} => Open("erase", job[p].op)
  /\ job[p].pc \in {"copied", "named", "staged"} /\ job[p].call.tool = "write" =>
       seen[job[p].call.reason] = Cardinality(restored)

LEMMA DurableIsThere ==
  ASSUME TypeOK, NEW kind, NEW op, NEW state, Durable(kind, op, state)
  PROVE  Has(kind, op, state)
BY DEF TypeOK, Durable, Has

\* With no restore open, the index tells the restores as they happened.
LEMMA CountedExactly ==
  ASSUME TypeOK, Counted, \A r \in Ops : ~Open("restore", r)
  PROVE  CommittedRestores = restored
<1>1. \A r \in restored : r \in Ops /\ Has("restore", r, "pending")
  BY DurableIsThere DEF TypeOK, Counted
<1>2. \A r \in restored : Has("restore", r, "committed")
  BY <1>1 DEF Counted, Open, Terminal
<1> QED
  BY <1>1, <1>2 DEF Counted, CommittedRestores

-----------------------------------------------------------------------------
(* What a step appends fits.                                               *)

Wrote == \/ index' = index
         \/ \E rec \in Lines : index' = Append(index, rec) /\ Fits(rec)

LEMMA AppendFits ==
  ASSUME TypeOK, TypeOK', NEW rec, NEW out \in Outcomes,
         AppendRecord(rec, out), Fits(rec)
  PROVE  Wrote
<1>1. CASE index' = index
  BY <1>1 DEF Wrote
<1>2. CASE index' = Append(index, rec)
  <2>1. Len(index) \in Nat /\ Len(index') = Len(index) + 1
        /\ index'[Len(index) + 1] = rec
    BY <1>2 DEF TypeOK
  <2>2. rec \in Lines
    BY <2>1 DEF TypeOK
  <2> QED
    BY <1>2, <2>2 DEF Wrote
<1> QED
  BY <1>1, <1>2 DEF AppendRecord

\* The steps that append nothing.
Silent(p) ==
  \/ \E call \in Calls : Begin(p, call)
  \/ Busy(p) \/ RefuseEarly(p) \/ Acquire(p) \/ AcquireFails(p) \/ List(p)
  \/ Refuse(p) \/ StageWrite(p) \/ Copy(p) \/ Place(p) \/ Commit(p)
  \/ PruneDone(p) \/ EraseCommit(p) \/ SweepIncomplete(p) \/ Crash(p)
  \/ \E e \in Ops : SettleErase(p, e)
  \/ \E b \in Ops : RestoreCommit(p, b)
  \/ \E f \in Files : SweepStuck(p, f)

LEMMA SilentWrites ==
  ASSUME NEW p \in Procs, Silent(p)
  PROVE  UNCHANGED index
BY DEF Silent, Begin, Busy, RefuseEarly, Acquire, AcquireFails, List, Refuse,
   StageWrite, Copy, Place, Commit, PruneDone, EraseCommit, SweepIncomplete,
   Crash, SettleErase, RestoreCommit, SweepStuck, records

\* The steps that append a record.
Speaks(p, out) ==
  \/ Name(p, out) \/ PlaceFails(p, out) \/ CommitFails(p, out) \/ Close(p, out)
  \/ RestoreClose(p, out) \/ EraseBegin(p, out) \/ SweepDone(p, out)
  \/ \E b \in Ops : \/ SettleBackup(p, b, out) \/ SettleRestore(p, b, out)
                    \/ Prune(p, b, out) \/ RestoreBegin(p, b, out)
                    \/ RecordAbsent(p, b, out)
  \/ \E f \in Files : SweepFile(p, f, out)

LEMMA SilentOrSpeaks ==
  ASSUME NEW p \in Procs,
         Advance(p) \/ Crash(p) \/ \E call \in Calls : Begin(p, call)
  PROVE  Silent(p) \/ \E out \in Outcomes : Speaks(p, out)
BY DEF Advance, Silent, Speaks

\* A new id is above every record.
LEMMA FreshBegins ==
  ASSUME TypeOK, Minted, NEW p \in Procs, Ready(p), NEW rec,
         rec.kind \in OpKinds, rec.state = "pending", rec.op = minted + 1
  PROVE  Fits(rec)
<1>1. \A i \in DOMAIN index : index[i].op < rec.op
  BY IndexOps DEF TypeOK, Minted
<1> QED
  BY <1>1 DEF Ready, Fits, Begins

LEMMA StepWrites ==
  ASSUME SafeInv, TypeOK', IndexInv, Counted, NEW p \in Procs, InPhase(p),
         NEW out \in Outcomes, Speaks(p, out)
  PROVE  Wrote
<1> USE DEF SafeInv
<1>1. ASSUME Name(p, out) PROVE Wrote
  <2> DEFINE rec == [Line("backup", job[p].op, "pending")
                       EXCEPT !.reason = job[p].call.reason]
  <2>1. rec.kind = "backup" /\ rec.state = "pending" /\ rec.op = job[p].op
    BY DEF Line
  <2>2. AppendRecord(rec, out)
    BY <1>1 DEF Name
  <2> HIDE DEF rec
  <2>3. Fits(rec)
    BY <1>1, <2>1 DEF Name, InPhase, Fits, Begins, OpKinds
  <2> QED
    BY <2>2, <2>3, AppendFits
<1>2. ASSUME PlaceFails(p, out) PROVE Wrote
  <2> DEFINE rec == Line("backup", job[p].op, "aborted")
  <2>1. rec.kind = "backup" /\ rec.op = job[p].op /\ rec.state = "aborted"
    BY LineFields
  <2>2. AppendRecord(rec, out)
    BY <1>2 DEF PlaceFails
  <2> HIDE DEF rec
  <2>3. Fits(rec)
    BY <1>2, <2>1 DEF PlaceFails, InPhase, Fits, Ends, OpKinds, Terminal, HasOp, OpPhases
  <2> QED
    BY <2>2, <2>3, AppendFits
<1>3. ASSUME CommitFails(p, out) PROVE Wrote
  <2> DEFINE rec == Line("backup", job[p].op, "orphan")
  <2>1. rec.kind = "backup" /\ rec.op = job[p].op /\ rec.state = "orphan"
    BY LineFields
  <2>2. AppendRecord(rec, out)
    BY <1>3 DEF CommitFails
  <2> HIDE DEF rec
  <2>3. Fits(rec)
    BY <1>3, <2>1 DEF CommitFails, InPhase, Fits, Ends, OpKinds, Terminal
  <2> QED
    BY <2>2, <2>3, AppendFits
<1>4. ASSUME Close(p, out) PROVE Wrote
  <2> DEFINE rec == Line("backup", job[p].op, "committed")
  <2>1. rec.kind = "backup" /\ rec.op = job[p].op /\ rec.state = "committed"
    BY LineFields
  <2>2. AppendRecord(rec, out)
    BY <1>4 DEF Close
  <2> HIDE DEF rec
  <2>3. Fits(rec)
    BY <1>4, <2>1 DEF Close, InPhase, Fits, Ends, OpKinds, Terminal, HasOp, OpPhases
  <2> QED
    BY <2>2, <2>3, AppendFits
<1>5. ASSUME RestoreClose(p, out) PROVE Wrote
  <2> DEFINE rec == Line("restore", job[p].op, "committed")
  <2>1. rec.kind = "restore" /\ rec.op = job[p].op /\ rec.state = "committed"
    BY LineFields
  <2>2. AppendRecord(rec, out)
    BY <1>5 DEF RestoreClose
  <2> HIDE DEF rec
  <2>3. Fits(rec)
    BY <1>5, <2>1 DEF RestoreClose, InPhase, Fits, Ends, OpKinds, Terminal
  <2> QED
    BY <2>2, <2>3, AppendFits
<1>6. ASSUME EraseBegin(p, out) PROVE Wrote
  <2> DEFINE rec == Line("erase", minted + 1, "pending")
  <2>1. rec.kind = "erase" /\ rec.op = minted + 1 /\ rec.state = "pending"
    BY LineFields
  <2>2. AppendRecord(rec, out) /\ Ready(p)
    BY <1>6 DEF EraseBegin
  <2> HIDE DEF rec
  <2>3. Fits(rec)
    BY <2>1, <2>2, FreshBegins DEF OpKinds
  <2> QED
    BY <2>2, <2>3, AppendFits
<1>7. ASSUME SweepDone(p, out) PROVE Wrote
  <2> DEFINE rec == Line("erase", job[p].op, "committed")
  <2>1. rec.kind = "erase" /\ rec.op = job[p].op /\ rec.state = "committed"
    BY LineFields
  <2>2. AppendRecord(rec, out)
    BY <1>7 DEF SweepDone
  <2> HIDE DEF rec
  <2>3. \A b \in Ops : dir[b] = "none"
    BY <1>7, OpsAreFiles DEF SweepDone, Working
  <2>4. \A b \in Ops : Has("backup", b, "committed") \/ Has("backup", b, "orphan")
                       => Pruned(b)
    BY <1>7, <2>3 DEF SweepDone, Unaudited
  <2>5. Open("erase", job[p].op)
    BY <1>7 DEF SweepDone, InPhase
  <2>6. Fits(rec)
    BY <2>1, <2>4, <2>5 DEF Fits, Ends, OpKinds, Terminal
  <2> QED
    BY <2>2, <2>6, AppendFits
<1>8. ASSUME NEW b \in Ops, SettleBackup(p, b, out) PROVE Wrote
  <2> DEFINE rec == Line("backup", b, SettledState(b))
  <2>1. rec.kind = "backup" /\ rec.op = b /\ rec.state = SettledState(b)
    BY LineFields
  <2>2. AppendRecord(rec, out) /\ Open("backup", b)
    BY <1>8 DEF SettleBackup
  <2>3. SettledState(b) \in {"aborted", "orphan", "committed"}
    BY DEF SettledState
  <2> HIDE DEF rec
  <2>4. Fits(rec)
    BY <2>1, <2>2, <2>3 DEF Fits, Ends, OpKinds, Terminal
  <2> QED
    BY <2>2, <2>4, AppendFits
<1>9. ASSUME NEW b \in Ops, SettleRestore(p, b, out) PROVE Wrote
  <2> DEFINE rec == Line("restore", b, RestoreOutcome(b))
  <2>1. rec.kind = "restore" /\ rec.op = b /\ rec.state = RestoreOutcome(b)
    BY LineFields
  <2>2. AppendRecord(rec, out) /\ Open("restore", b)
    BY <1>9 DEF SettleRestore
  <2> HIDE DEF rec
  <2>3. ~Has("restore", b, "committed")
    BY <2>2 DEF Open, Terminal
  <2>4. b \in restored <=> db.marker = b
    BY <2>3, DurableIsThere DEF Counted, Ops, NoOp
  <2>5. /\ rec.state \in {"committed", "aborted"}
        /\ rec.state = "committed" <=> b \in restored
    BY <2>1, <2>4 DEF RestoreOutcome
  <2>6. Fits(rec)
    BY <2>1, <2>2, <2>5 DEF Fits, Ends, OpKinds, Terminal
  <2> QED
    BY <2>2, <2>6, AppendFits
<1>10. ASSUME NEW b \in Ops, Prune(p, b, out) PROVE Wrote
  <2>1. ~Pruned(b)
    BY <1>10 DEF Prune, Prunable, Excess, Standing
  <2>2. Fits(Line("prune", b, "done"))
    BY <2>1, LineFields DEF Fits, Audits
  <2> QED
    BY <1>10, <2>2, AppendFits DEF Prune
<1>11. ASSUME NEW b \in Ops, RestoreBegin(p, b, out) PROVE Wrote
  <2> DEFINE rec == [Line("restore", minted + 1, "pending") EXCEPT !.of = b]
  <2>1. rec.kind = "restore" /\ rec.op = minted + 1 /\ rec.state = "pending"
    BY DEF Line
  <2>2. AppendRecord(rec, out) /\ Ready(p)
    BY <1>11 DEF RestoreBegin
  <2> HIDE DEF rec
  <2>3. Fits(rec)
    BY <2>1, <2>2, FreshBegins DEF OpKinds
  <2> QED
    BY <2>2, <2>3, AppendFits
<1>12. ASSUME NEW b \in Ops, RecordAbsent(p, b, out) PROVE Wrote
  <2>1. ~Pruned(b)
    BY <1>12 DEF RecordAbsent, Unaudited
  <2>2. Fits(Line("prune", b, "done"))
    BY <2>1, LineFields DEF Fits, Audits
  <2> QED
    BY <1>12, <2>2, AppendFits DEF RecordAbsent
<1>13. ASSUME NEW f \in Files, SweepFile(p, f, out) PROVE Wrote
  <2>1. CASE UNCHANGED <<records, faults>>
    BY <2>1 DEF records, Wrote
  <2>2. CASE ~Pruned(f) /\ AppendRecord(Line("prune", f, "done"), out)
    <3>1. Fits(Line("prune", f, "done"))
      BY <2>2, LineFields DEF Fits, Audits
    <3> QED
      BY <2>2, <3>1, AppendFits
  <2> QED
    BY <1>13, <2>1, <2>2 DEF SweepFile
<1> QED
  BY <1>1, <1>2, <1>3, <1>4, <1>5, <1>6, <1>7, <1>8, <1>9, <1>10, <1>11, <1>12,
     <1>13 DEF Speaks

-----------------------------------------------------------------------------
(* What a step leaves.                                                     *)

\* Outside the lock a call changes nothing another may rely on.
LEMMA Outside ==
  ASSUME TypeOK, NEW p \in Procs, job[p].pc \notin Locked,
         Advance(p) \/ Crash(p) \/ \E call \in Calls : Begin(p, call)
  PROVE  UNCHANGED <<db, index, dir, onDisk, content, seen, epoch, restored,
                     swept, minted>>
<1>1. ASSUME Silent(p)
      PROVE  UNCHANGED <<db, index, dir, onDisk, content, seen, epoch, restored,
                         swept, minted>>
  BY <1>1 DEF Silent, Begin, Busy, RefuseEarly, Acquire, AcquireFails, List, Refuse,
     StageWrite, Copy, Place, Commit, PruneDone, EraseCommit, SweepIncomplete,
     Crash, SettleErase, RestoreCommit, SweepStuck, records, files, history,
     Locked, Phases, Ready
<1>2. ASSUME NEW out \in Outcomes, Speaks(p, out) PROVE FALSE
  BY <1>2 DEF Speaks, Name, PlaceFails, CommitFails, Close, RestoreClose,
     EraseBegin, SweepDone, SettleBackup, SettleRestore, Prune, RestoreBegin,
     RecordAbsent, SweepFile, Locked, Phases, Ready
<1> QED
  BY <1>1, <1>2, SilentOrSpeaks

\* Only the COMMIT of a restore is counted as one.
LEMMA CountsRestores ==
  ASSUME TypeOK, NEW p \in Procs,
         Advance(p) \/ Crash(p) \/ \E call \in Calls : Begin(p, call)
  PROVE  \/ \E b \in Ops : RestoreCommit(p, b)
         \/ restored' = restored /\ db'.marker = db.marker
<1>1. ASSUME Commit(p) PROVE restored' = restored /\ db'.marker = db.marker
  BY <1>1 DEF Commit, Staged, history, TypeOK, Ledgers
<1>2. ASSUME EraseCommit(p) PROVE restored' = restored /\ db'.marker = db.marker
  BY <1>2 DEF EraseCommit, EmptyLedger
<1>3. ASSUME Silent(p), ~Commit(p), ~EraseCommit(p), ~\E b \in Ops : RestoreCommit(p, b)
      PROVE  UNCHANGED <<db, restored>>
  BY <1>3 DEF Silent, Begin, Busy, RefuseEarly, Acquire, AcquireFails, List, Refuse,
     StageWrite, Copy, Place, PruneDone, SweepIncomplete, Crash, SettleErase,
     SweepStuck, records, files, history
<1>4. ASSUME NEW out \in Outcomes, Speaks(p, out) PROVE UNCHANGED <<db, restored>>
  BY <1>4 DEF Speaks, Name, PlaceFails, CommitFails, Close, RestoreClose,
     EraseBegin, SweepDone, SettleBackup, SettleRestore, Prune, RestoreBegin,
     RecordAbsent, SweepFile, history
<1> QED
  BY <1>1, <1>2, <1>3, <1>4, SilentOrSpeaks

LEMMA DurableKept ==
  ASSUME TypeOK, Wrote, flushed <= flushed', flushed' \in Nat,
         NEW kind, NEW op, NEW state, Durable(kind, op, state)
  PROVE  Durable(kind, op, state)'
<1>1. PICK i \in 1..flushed : /\ index[i].kind = kind /\ index[i].op = op
                              /\ index[i].state = state
  BY DEF Durable
<1>2. i \in DOMAIN index /\ i \in 1..flushed'
  BY DEF TypeOK
<1>3. index'[i] = index[i]
  BY <1>2, Appended DEF Wrote
<1> QED
  BY <1>1, <1>2, <1>3 DEF Durable

LEMMA DurableSurvives ==
  ASSUME TypeOK, PowerLoss, NEW kind, NEW op, NEW state, Durable(kind, op, state)
  PROVE  Durable(kind, op, state)'
BY Prefix DEF Durable

\* An open operation stays open when another one is written of.
LEMMA OpenKept ==
  ASSUME TypeOK, NEW rec \in Lines, index' = Append(index, rec),
         NEW kind, NEW op, Open(kind, op), rec.kind # kind \/ rec.op # op
  PROVE  Open(kind, op)'
BY HasAppended DEF Open

LEMMA OpenBegun ==
  ASSUME TypeOK, NEW rec, index' = Append(index, rec), TypeOK',
         rec.state = "pending", rec.kind \in OpKinds,
         NEW op, rec.op = op, \A i \in DOMAIN index : index[i].op # op
  PROVE  Open(rec.kind, op)'
<1>1. Len(index) \in Nat /\ index'[Len(index) + 1] = rec
      /\ DOMAIN index' = 1..(Len(index) + 1) /\ DOMAIN index = 1..Len(index)
      /\ \A i \in DOMAIN index : index'[i] = index[i]
  BY DEF TypeOK
<1>2. \A i \in DOMAIN index' : index'[i].op = op => index'[i].state = "pending"
  BY <1>1
<1>3. Has(rec.kind, op, "pending")'
  BY <1>1 DEF Has
<1>4. \A s \in Terminal(rec.kind) : ~Has(rec.kind, op, s)'
  BY <1>2, TerminalStates DEF Has
<1> QED
  BY <1>3, <1>4 DEF Open

LEMMA CountedStep ==
  ASSUME TypeOK, TypeOK', Counted, Wrote, flushed <= flushed',
         restored' = restored, db'.marker = db.marker
  PROVE  Counted'
<1>1. \A k, o, s : Durable(k, o, s) => Durable(k, o, s)'
  BY DurableKept DEF TypeOK
<1>2. ASSUME NEW rec \in Lines, index' = Append(index, rec), Fits(rec),
             rec.kind = "restore", rec.state \in {"committed", "aborted"}
      PROVE  rec.state = "committed" <=> rec.op \in restored
  BY <1>2 DEF Fits, Begins, Ends, Audits
<1>3. /\ \A r \in Ops : Has("restore", r, "committed")' => r \in restored
      /\ \A r \in restored : ~Has("restore", r, "aborted")'
  <2>1. CASE index' = index
    <3>1. \A k, o, s : Has(k, o, s)' <=> Has(k, o, s)
      BY <2>1 DEF Has
    <3> QED
      BY <3>1 DEF Counted
  <2>2. ASSUME NEW rec \in Lines, index' = Append(index, rec), Fits(rec)
        PROVE  /\ \A r \in Ops : Has("restore", r, "committed")' => r \in restored
               /\ \A r \in restored : ~Has("restore", r, "aborted")'
    <3>1. \A k, o, s : Has(k, o, s)' <=>
            Has(k, o, s) \/ (rec.kind = k /\ rec.op = o /\ rec.state = s)
      BY <2>2, HasAppended
    <3> QED
      BY <1>2, <2>2, <3>1 DEF Counted
  <2> QED
    BY <2>1, <2>2 DEF Wrote
<1> QED
  BY <1>1, <1>3 DEF Counted

LEMMA CountedRestore ==
  ASSUME TypeOK, TypeOK', Counted, NEW p \in Procs, InPhase(p), NEW b \in Ops,
         RestoreCommit(p, b)
  PROVE  Counted'
<1>1. PICK o : o = job[p].op
  OBVIOUS
<1>2. /\ restored' = restored \cup {o} /\ db'.marker = o
      /\ UNCHANGED <<index, flushed>>
  BY <1>1 DEF RestoreCommit, records
<1>3. /\ Open("restore", o) /\ Durable("restore", o, "pending")
      /\ \A r \in restored : Durable("restore", r, "committed")
  BY <1>1 DEF InPhase, RestoreCommit
<1>4. ~Has("restore", o, "aborted")
  BY <1>3 DEF Open, Terminal
<1>5. ASSUME NEW r \in restored'
      PROVE  /\ Durable("restore", r, "pending")
             /\ ~Has("restore", r, "aborted")
             /\ Durable("restore", r, "committed") \/ o = r
  BY <1>2, <1>3, <1>4, <1>5 DEF Counted
<1>6. ASSUME NEW r \in restored'
      PROVE  /\ Durable("restore", r, "pending")'
             /\ ~Has("restore", r, "aborted")'
             /\ Durable("restore", r, "committed")' \/ db'.marker = r
  BY <1>2, <1>5, <1>6 DEF Durable, Has
<1>7. \A r \in Ops : Has("restore", r, "committed")' => r \in restored'
  BY <1>2 DEF Counted, Has
<1> QED
  BY <1>2, <1>6, <1>7 DEF Counted

LEMMA CountedCut ==
  ASSUME TypeOK, PowerLoss, Counted
  PROVE  Counted'
<1>1. UNCHANGED <<db, restored>>
  BY DEF PowerLoss, history
<1>2. \A k, o, s : Durable(k, o, s) => Durable(k, o, s)'
  BY DurableSurvives
<1>3. \A k, o, s : Has(k, o, s)' => Has(k, o, s)
  BY Prefix DEF Has
<1> QED
  BY <1>1, <1>2, <1>3 DEF Counted

-----------------------------------------------------------------------------
(* The calls: what each relies on, as it goes.                             *)

LEMMA CallKept ==
  ASSUME job \in [Procs -> Job], NEW p \in Procs, NEW pc, NEW op,
         Goto(p, pc) \/ GotoWith(p, pc, op)
  PROVE  job'[p].pc = pc /\ job'[p].call = job[p].call
BY DEF Goto, GotoWith, Job

LEMMA AtRest ==
  ASSUME NEW p \in Procs, job'[p].pc \in {"idle", "begin", "settle"},
         job'[p].op = NoOp
  PROVE  InPhase(p)'
BY DEF InPhase

LEMMA AppendOk ==
  ASSUME TypeOK, NEW rec, AppendRecord(rec, "ok")
  PROVE  index' = Append(index, rec) /\ flushed' = Len(index) + 1
BY DEF AppendRecord

\* What was in the index when a record was flushed is as durable as it.
LEMMA FlushedWith ==
  ASSUME TypeOK, NEW rec, AppendRecord(rec, "ok"), NEW kind, NEW op, NEW state,
         \/ Has(kind, op, state)
         \/ rec.kind = kind /\ rec.op = op /\ rec.state = state
  PROVE  Durable(kind, op, state)'
<1>1. /\ Len(index) \in Nat /\ flushed' = Len(index) + 1
      /\ DOMAIN index = 1..Len(index)
      /\ \A i \in DOMAIN index : index'[i] = index[i]
      /\ index'[Len(index) + 1] = rec
  BY AppendOk DEF TypeOK
<1>2. CASE Has(kind, op, state)
  <2>1. PICK i \in DOMAIN index : /\ index[i].kind = kind /\ index[i].op = op
                                  /\ index[i].state = state
    BY <1>2 DEF Has
  <2>2. i \in 1..flushed' /\ index'[i] = index[i]
    BY <1>1
  <2> QED
    BY <2>1, <2>2 DEF Durable
<1>3. CASE rec.kind = kind /\ rec.op = op /\ rec.state = state
  <2>1. PICK n : n = Len(index) + 1
    OBVIOUS
  <2>2. n \in 1..flushed' /\ index'[n] = rec
    BY <1>1, <2>1
  <2> QED
    BY <1>3, <2>2 DEF Durable
<1> QED
  BY <1>2, <1>3

LEMMA RestoreBegun ==
  ASSUME SafeInv, TypeOK', Counted, NEW p \in Procs, NEW b \in Ops,
         RestoreBegin(p, b, "ok")
  PROVE  InPhase(p)'
<1> USE DEF SafeInv
<1> DEFINE rec == [Line("restore", minted + 1, "pending") EXCEPT !.of = b]
<1>1. rec.kind = "restore" /\ rec.op = minted + 1 /\ rec.state = "pending"
  BY DEF Line
<1>2. AppendRecord(rec, "ok") /\ Ready(p) /\ GotoWith(p, "restoring", minted + 1)
      /\ restored' = restored
  BY DEF RestoreBegin, history
<1> HIDE DEF rec
<1>3. PICK o : o = minted + 1
  OBVIOUS
<1>4. job'[p].pc = "restoring" /\ job'[p].op = o
  BY <1>2, <1>3, GotoWithFacts DEF TypeOK
<1>5. \A i \in DOMAIN index : index[i].op # o
  BY <1>3, FreshOp
<1>6. Open("restore", o)'
  BY <1>1, <1>2, <1>3, <1>5, AppendOk, OpenBegun DEF OpKinds
<1>7. CommittedRestores = restored
  BY <1>2, CountedExactly DEF Ready, NothingOpen
<1>8. \A r \in restored : Has("restore", r, "committed")
  BY <1>7 DEF CommittedRestores
<1>9. o \notin restored
  BY <1>5, <1>8 DEF Has
<1>10. Durable("restore", o, "pending")'
  BY <1>1, <1>2, <1>3, FlushedWith
<1>11. \A r \in restored : Durable("restore", r, "committed")'
  BY <1>2, <1>8, FlushedWith
<1> QED
  BY <1>2, <1>4, <1>6, <1>9, <1>10, <1>11 DEF InPhase

LEMMA PhaseSilent ==
  ASSUME SafeInv, TypeOK', Counted, NEW p \in Procs, InPhase(p), Silent(p)
  PROVE  InPhase(p)'
<1> USE DEF SafeInv
<1> PICK o : o = job[p].op
  OBVIOUS
<1>1. index' = index
  BY SilentWrites
<1>2. \A k : Open(k, o)' <=> Open(k, o)
  BY <1>1 DEF Open, Has
<1>3. ASSUME NEW call \in Calls, Begin(p, call) PROVE InPhase(p)'
  BY <1>3, BeginFacts, AtRest DEF Begin, InPhase, TypeOK
<1>4. ASSUME Leave(p) PROVE InPhase(p)'
  BY <1>4, LeaveFacts, AtRest DEF TypeOK
<1>5. ASSUME Acquire(p) PROVE InPhase(p)'
  BY <1>5, GotoFacts, AtRest DEF Acquire, InPhase, TypeOK
<1>6. ASSUME StageWrite(p) PROVE InPhase(p)'
  <2>1. /\ job'[p].pc = "staged" /\ job'[p].op = NoOp
        /\ job'[p].call = job[p].call
    BY <1>6, GotoFacts, CallKept DEF StageWrite, Ready, InPhase, TypeOK
  <2>2. seen'[job[p].call.reason] = Cardinality(restored')
    BY <1>6, CountedExactly DEF StageWrite, Fenced, Generation, Ready, NothingOpen, history
  <2> QED
    BY <2>1, <2>2 DEF InPhase
<1>7. ASSUME Copy(p) PROVE InPhase(p)'
  <2>1. PICK n : n = minted + 1
    OBVIOUS
  <2>2. /\ job'[p].pc = "copied" /\ job'[p].op = n
        /\ job'[p].call = job[p].call
    BY <1>7, <2>1, GotoWithFacts, CallKept DEF Copy, TypeOK
  <2>3. \A i \in DOMAIN index : index[i].op < n
    <3>1. minted \in Int
      BY DEF TypeOK
    <3>2. ASSUME NEW i \in DOMAIN index PROVE index[i].op < n
      <4>1. index[i].op \in Int /\ index[i].op <= minted
        BY IndexOps DEF Minted
      <4> QED
        BY <2>1, <3>1, <4>1
    <3> QED
      BY <3>2
  <2>4. NothingOpen'
    BY <1>1, <1>7 DEF Copy, Ready, NothingOpen, Open, Has
  <2>5. job[p].call.tool = "write" =>
          seen'[job[p].call.reason] = Cardinality(restored')
    BY <1>7, CountedExactly DEF Copy, Fenced, Generation, Ready, NothingOpen, history
  <2> QED
    BY <1>1, <2>2, <2>3, <2>4, <2>5 DEF InPhase
<1>8. ASSUME Place(p) PROVE InPhase(p)'
  <2>1. CASE Goto(p, "staged")
    <3>1. /\ job'[p].pc = "staged" /\ job'[p].op = o /\ job'[p].call = job[p].call
      BY <2>1, GotoFacts, CallKept DEF TypeOK
    <3> QED
      BY <1>2, <1>8, <3>1 DEF Place, InPhase, history
  <2> QED
    BY <1>4, <1>8, <2>1 DEF Place
<1>9. ASSUME Commit(p) PROVE InPhase(p)'
  <2>1. CASE Goto(p, "closing") /\ o # NoOp
    <3>1. job'[p].pc = "closing" /\ job'[p].op = o
      BY <2>1, GotoFacts DEF TypeOK
    <3> QED
      BY <1>2, <1>9, <2>1, <3>1 DEF Commit, InPhase
  <2> QED
    BY <1>4, <1>9, <2>1 DEF Commit
<1>10. ASSUME EraseCommit(p) PROVE InPhase(p)'
  <2>1. job'[p].pc = "sweep" /\ job'[p].op = o
    BY <1>10, SweepFacts DEF EraseCommit, TypeOK
  <2> QED
    BY <1>2, <1>10, <2>1 DEF EraseCommit, InPhase
<1>11. ASSUME NEW e \in Ops, SettleErase(p, e) PROVE InPhase(p)'
  <2>1. job'[p].pc = "sweep" /\ job'[p].op = e
    BY <1>11, SweepFacts DEF SettleErase, TypeOK
  <2>2. Open("erase", e)'
    BY <1>1, <1>11 DEF SettleErase, Open, Has
  <2> QED
    BY <2>1, <2>2 DEF InPhase
<1>12. ASSUME NEW b \in Ops, RestoreCommit(p, b) PROVE InPhase(p)'
  <2>1. job'[p].pc = "restored" /\ job'[p].op = o /\ o \in restored'
    BY <1>12, GotoFacts DEF RestoreCommit, TypeOK
  <2>2. Open("restore", o)'
    BY <1>2, <1>12 DEF RestoreCommit, InPhase
  <2> QED
    BY <2>1, <2>2 DEF InPhase
<1>13. ASSUME NEW f \in Files, SweepStuck(p, f) PROVE InPhase(p)'
  <2>1. job'[p].pc = "sweep" /\ job'[p].op = o
    BY <1>13 DEF SweepStuck, TypeOK, Job
  <2> QED
    BY <1>2, <1>13, <2>1 DEF SweepStuck, InPhase
<1> QED
  BY <1>3, <1>4, <1>5, <1>6, <1>7, <1>8, <1>9, <1>10, <1>11, <1>12, <1>13
     DEF Silent, Busy, RefuseEarly, AcquireFails, List, Refuse, PruneDone,
     SweepIncomplete, Crash

LEMMA PhaseSpeaks ==
  ASSUME SafeInv, TypeOK', Counted, NEW p \in Procs, InPhase(p),
         NEW out \in Outcomes, Speaks(p, out)
  PROVE  InPhase(p)'
<1> USE DEF SafeInv
<1> PICK o : o = job[p].op
  OBVIOUS
<1>1. ASSUME Leave(p) PROVE InPhase(p)'
  BY <1>1, LeaveFacts, AtRest DEF TypeOK
<1>2. ASSUME Goto(p, "prune") PROVE InPhase(p)'
  BY <1>2, GotoFacts DEF InPhase, TypeOK
<1>3. ASSUME UNCHANGED job, job[p].pc \in {"prune", "settle"} PROVE InPhase(p)'
  BY <1>3 DEF InPhase
<1>4. ASSUME job'[p].pc = "sweep", job'[p].op = o, job[p].pc = "sweep",
             \/ index' = index
             \/ \E rec : /\ index' = Append(index, rec) /\ rec \in Lines
                         /\ rec.kind = "prune"
      PROVE InPhase(p)'
  <2>1. Open("erase", o)
    BY <1>4 DEF InPhase
  <2>2. Open("erase", o)'
    <3>1. CASE index' = index
      BY <2>1, <3>1 DEF Open, Has
    <3>2. ASSUME NEW rec \in Lines, index' = Append(index, rec), rec.kind = "prune"
          PROVE  Open("erase", o)'
      BY <2>1, <3>2, OpenKept
    <3> QED
      BY <1>4, <3>1, <3>2
  <2> QED
    BY <1>4, <2>2 DEF InPhase
<1>5. ASSUME Name(p, out), out = "ok" PROVE InPhase(p)'
  <2> DEFINE rec == [Line("backup", job[p].op, "pending")
                       EXCEPT !.reason = job[p].call.reason]
  <2>1. rec.kind = "backup" /\ rec.state = "pending" /\ rec.op = o
    BY DEF Line
  <2>2. AppendRecord(rec, "ok") /\ Goto(p, "named")
    BY <1>5 DEF Name
  <2> HIDE DEF rec
  <2>3. job'[p].pc = "named" /\ job'[p].op = o /\ job'[p].call = job[p].call
    BY <2>2, GotoFacts, CallKept DEF TypeOK
  <2>4. \A i \in DOMAIN index : index[i].op # o
    <3>1. \A i \in DOMAIN index : index[i].op < o
      BY <1>5 DEF Name, InPhase
    <3> QED
      BY <3>1, IndexOps
  <2>5. Open("backup", o)'
    BY <2>1, <2>2, <2>4, AppendOk, OpenBegun DEF OpKinds
  <2> QED
    BY <1>5, <2>3, <2>5 DEF Name, InPhase, history
<1>6. ASSUME EraseBegin(p, out), out = "ok" PROVE InPhase(p)'
  <2> DEFINE rec == Line("erase", minted + 1, "pending")
  <2>1. rec.kind = "erase" /\ rec.state = "pending" /\ rec.op = minted + 1
    BY LineFields
  <2>2. AppendRecord(rec, "ok") /\ GotoWith(p, "erasing", minted + 1)
    BY <1>6 DEF EraseBegin
  <2> HIDE DEF rec
  <2>3. PICK n : n = minted + 1
    OBVIOUS
  <2>4. job'[p].pc = "erasing" /\ job'[p].op = n
    BY <2>2, <2>3, GotoWithFacts DEF TypeOK
  <2>5. Open("erase", n)'
    BY <2>1, <2>2, <2>3, AppendOk, FreshOp, OpenBegun DEF OpKinds
  <2> QED
    BY <2>4, <2>5 DEF InPhase
<1>7. ASSUME SweepDone(p, out) PROVE InPhase(p)'
  <2>1. CASE GotoWith(p, "settle", NoOp)
    BY <2>1, GotoWithFacts, AtRest DEF TypeOK
  <2> QED
    BY <1>1, <1>7, <2>1 DEF SweepDone
<1>8. ASSUME NEW b \in Ops, RecordAbsent(p, b, out), out = "ok" PROVE InPhase(p)'
  <2>1. job'[p].pc = "sweep" /\ job'[p].op = o /\ job[p].pc = "sweep"
    BY <1>8 DEF RecordAbsent
  <2>2. Line("prune", b, "done").kind = "prune" /\ Line("prune", b, "done") \in Lines
    BY LineFields, LineTyped DEF Kinds, States
  <2>3. index' = Append(index, Line("prune", b, "done"))
    BY <1>8, AppendOk DEF RecordAbsent
  <2> QED
    BY <1>4, <2>1, <2>2, <2>3
<1>9. ASSUME NEW f \in Files, SweepFile(p, f, out), out = "ok" PROVE InPhase(p)'
  <2>1. job'[p].pc = "sweep" /\ job'[p].op = o /\ job[p].pc = "sweep"
    BY <1>9 DEF SweepFile, TypeOK, Job
  <2>2. CASE UNCHANGED records
    BY <1>4, <2>1, <2>2 DEF records
  <2>3. CASE AppendRecord(Line("prune", f, "done"), out) /\ Has("backup", f, "pending")
    <3>1. f \in Ops
      BY <2>3, IndexOps DEF Has
    <3>2. Line("prune", f, "done").kind = "prune" /\ Line("prune", f, "done") \in Lines
      BY <3>1, LineFields, LineTyped DEF Kinds, States
    <3>3. index' = Append(index, Line("prune", f, "done"))
      BY <1>9, <2>3, AppendOk
    <3> QED
      BY <1>4, <2>1, <3>2, <3>3
  <2> QED
    BY <1>9, <2>2, <2>3 DEF SweepFile
<1>10. ASSUME NEW b \in Ops, RestoreBegin(p, b, out) PROVE InPhase(p)'
  BY <1>1, <1>10, RestoreBegun DEF RestoreBegin
<1> QED
  BY <1>1, <1>2, <1>3, <1>5, <1>6, <1>7, <1>8, <1>9, <1>10
     DEF Speaks, Name, PlaceFails, CommitFails, Close, RestoreClose, EraseBegin,
     SettleBackup, SettleRestore, Prune, RecordAbsent, SweepFile

\* What another call relies on survives a step of p.
LEMMA PhaseOfOthers ==
  ASSUME SafeInv, TypeOK', NEW p \in Procs, NEW q \in Procs \ {p}, InPhase(q),
         Advance(p) \/ Crash(p) \/ \E call \in Calls : Begin(p, call)
  PROVE  InPhase(q)'
<1>1. Turn(p) /\ Grew(p)
  BY Turns, IndexGrows DEF SafeInv
<1>2. job'[q] = job[q]
  BY <1>1 DEF Turn
<1>3. CASE job[q].pc \notin Locked
  BY <1>2, <1>3 DEF InPhase, Locked, Phases
<1>4. CASE job[q].pc \in Locked
  <2>1. job[p].pc \notin Locked
    BY <1>4 DEF SafeInv, LockHeld
  <2>2. UNCHANGED <<index, seen, restored>>
    BY <2>1, Outside DEF SafeInv
  <2>3. \A k, o, s : Durable(k, o, s) => Durable(k, o, s)'
    BY <1>1, <2>2, DurableKept DEF SafeInv, Grew, Wrote, TypeOK
  <2>4. PICK o : o = job[q].op
    OBVIOUS
  <2>5. /\ \A k : Open(k, o)' <=> Open(k, o)
        /\ NothingOpen' <=> NothingOpen
    BY <2>2 DEF Open, Has, NothingOpen
  <2> QED
    BY <1>2, <2>2, <2>3, <2>4, <2>5 DEF InPhase
<1> QED
  BY <1>3, <1>4

BookInv == SafeInv /\ IndexInv /\ Counted /\ \A p \in Procs : InPhase(p)

LEMMA BookInit == Init => BookInv
<1> SUFFICES ASSUME Init PROVE BookInv
  OBVIOUS
<1>1. index = <<>> /\ DOMAIN index = {}
  BY DEF Init
<1>2. IndexInv
  BY <1>1 DEF IndexInv, Shaped, IndexParses, Begun, OneByOne, Audited
<1>3. Counted
  BY <1>1 DEF Init, Counted, EmptyLedger, Has
<1>4. \A p \in Procs : InPhase(p)
  BY DEF Init, Idle, InPhase
<1> QED
  BY <1>2, <1>3, <1>4, SafeInit DEF BookInv

LEMMA WroteKeepsIndex ==
  ASSUME TypeOK, IndexInv, Wrote
  PROVE  IndexInv'
<1>1. CASE index' = index
  BY <1>1 DEF IndexInv, Shaped, IndexParses, Begun, OneByOne, Audited, IsCopy,
     Opening, SameOp
<1> QED
  BY <1>1, IndexAppend DEF Wrote

LEMMA BookNext == BookInv /\ [Next]_vars => BookInv'
<1> SUFFICES ASSUME BookInv, [Next]_vars PROVE BookInv'
  OBVIOUS
<1> USE DEF BookInv
<1>1. SafeInv' /\ TypeOK' /\ TypeOK
  BY SafeNext DEF SafeInv
<1>2. ASSUME NEW p \in Procs,
             Advance(p) \/ Crash(p) \/ \E call \in Calls : Begin(p, call)
      PROVE  BookInv'
  <2>1. Wrote
    BY <1>1, <1>2, SilentOrSpeaks, SilentWrites, StepWrites DEF Wrote
  <2>2. IndexInv'
    BY <1>1, <2>1, WroteKeepsIndex
  <2>3. flushed <= flushed'
    BY <1>2, IndexGrows DEF SafeInv, Grew
  <2>4. Counted'
    BY <1>1, <1>2, <2>1, <2>3, CountsRestores, CountedStep, CountedRestore
  <2>5. InPhase(p)'
    BY <1>1, <1>2, SilentOrSpeaks, PhaseSilent, PhaseSpeaks
  <2>6. \A q \in Procs \ {p} : InPhase(q)'
    BY <1>1, <1>2, PhaseOfOthers
  <2> QED
    BY <1>1, <2>2, <2>4, <2>5, <2>6
<1>3. CASE PowerLoss
  <2>1. \A p \in Procs : InPhase(p)'
    BY <1>3 DEF PowerLoss, Idle, InPhase
  <2> QED
    BY <1>1, <1>3, <2>1, IndexCut, CountedCut
<1>4. CASE UNCHANGED vars
  <2>1. UNCHANGED <<db, index, flushed, job, seen, restored>>
    BY <1>4 DEF vars, records, history
  <2>2. IndexInv'
    BY <1>1, <2>1, WroteKeepsIndex DEF Wrote
  <2>3. Counted'
    BY <2>1 DEF Counted, Durable, Has
  <2>4. \A p \in Procs : InPhase(p)'
    BY <2>1 DEF InPhase, Durable, NothingOpen, Open, Has
  <2> QED
    BY <1>1, <2>2, <2>3, <2>4
<1> QED
  BY <1>2, <1>3, <1>4 DEF Next

\* The strengthened invariant: the index is a log of operations one after the
\* other, it and the ledger's marker tell every restore, and each phase of a
\* call has its operation open.
THEOREM Book == Spec => []BookInv
BY BookInit, BookNext, PTL DEF Spec

-----------------------------------------------------------------------------
(* What the index says.                                                    *)

\* Whatever crashes, fails or is cut by a power loss, the code never refuses
\* an index it wrote itself (IndexParses).
THEOREM IndexAlwaysParses == Spec => []IndexParses
<1>1. BookInv => IndexParses
  BY DEF BookInv, IndexInv
<1> QED
  BY Book, <1>1, PTL

\* Two operations are never open at once (OneOpen): settlement closes what an
\* earlier call left before the next one begins.
THEOREM OneOpenAlways == Spec => []OneOpen
<1>1. BookInv => OneOpen
  BY OneIsOpen DEF BookInv, SafeInv
<1> QED
  BY Book, <1>1, PTL

\* A settled index names exactly the restores the ledger committed, so the
\* generation a listing prints is their number (GenerationIsExact).
THEOREM GenerationAlwaysExact == Spec => []GenerationIsExact
<1>1. BookInv => GenerationIsExact
  BY CountedExactly DEF BookInv, SafeInv, GenerationIsExact, Ready, NothingOpen
<1> QED
  BY Book, <1>1, PTL

\* A workflow's write reaches its COMMIT only if no restore was committed
\* since its pass read the generation (FenceHolds).
THEOREM FenceAlwaysHolds == Spec => []FenceHolds
<1>1. BookInv => FenceHolds
  BY DEF BookInv, InPhase, FenceHolds
<1> QED
  BY Book, <1>1, PTL

\* Every indexed copy older than a completed erasure has the audit record of
\* its destruction (ErasureAudited).
THEOREM ErasureAlwaysAudited == Spec => []ErasureAudited
<1>1. BookInv => ErasureAudited
  BY AuditedHolds DEF BookInv, SafeInv
<1> QED
  BY Book, <1>1, PTL

-----------------------------------------------------------------------------
(* The registered copies of a ledger.                                      *)

Taken(i, b, w) == /\ index[i].kind = "backup" /\ index[i].op = b
                  /\ index[i].state = "pending" /\ index[i].reason = w

Noted(b, w) == \E i \in 1..flushed : Taken(i, b, w)

SweptAfter(b) == \E e \in swept : e > b

Stood(b) == \/ ~Has("backup", b, "aborted") /\ onDisk[b] = {"final"}
            \/ SweptAfter(b)

\* A copy from before the workflow's first write, or taken after a sweep took
\* an earlier one.
Before(b, w) == \/ w \notin content[b].db.wrote
                \/ \E c \in Ops, e \in swept : c < e /\ e < b /\ Noted(c, w)

Sound(ledger) == \A w \in Workflows :
  /\ w \in ledger.wrote => ledger.regs[w] # NoOp
  /\ ledger.regs[w] # NoOp => /\ ~Has("backup", ledger.regs[w], "orphan")
                              /\ Stood(ledger.regs[w])
                              /\ Before(ledger.regs[w], w)

Registrations ==
  /\ Sound(db)
  /\ \A w \in Workflows : db.regs[w] # NoOp => Noted(db.regs[w], w)

\* The registrations in a ledger copied by the time of record j were settled
\* by then.
FiledAt(ledger, j) ==
  /\ Sound(ledger)
  /\ \A w \in Workflows : ledger.regs[w] # NoOp =>
       /\ \E i \in DOMAIN index : i < j /\ Taken(i, ledger.regs[w], w)
       /\ \E i \in DOMAIN index :
            /\ i < j
            /\ index[i].kind = "backup" /\ index[i].op = ledger.regs[w]
            /\ index[i].state \in {"committed", "aborted"}

Filed == \A j \in DOMAIN index :
  index[j].kind = "backup" /\ Opening(j) => FiledAt(content[index[j].op].db, j)

SweptMinted == \A e \in swept : e <= minted

\* What a call relies on while it takes a copy, restores one or sweeps them.
Taking(p) == job[p].pc \in {"copied", "named", "staged"} /\ job[p].op # NoOp
Placing(p) ==
  /\ Taking(p) => content[job[p].op] = [epoch |-> epoch, db |-> db]
  /\ Taking(p) /\ job[p].call.tool = "write" => Before(job[p].op, job[p].call.reason)
  /\ Taking(p) /\ job[p].pc # "copied" => Noted(job[p].op, job[p].call.reason)
  /\ job[p].pc = "staged" =>
       IF job[p].op = NoOp
       THEN job[p].call.tool = "write" /\ db.regs[job[p].call.reason] # NoOp
       ELSE onDisk[job[p].op] = {"final"}
  /\ job[p].pc = "restoring" =>
       \A b \in Ops : RestoreOf(job[p].op, b) =>
         dir[b] = "final" /\ Durable("backup", b, "pending")
  /\ job[p].pc = "sweep" => job[p].op \in swept

CopyInv == /\ BookInv /\ Registrations /\ Filed /\ SweptMinted
           /\ \A p \in Procs : Placing(p)

Step(p) == Advance(p) \/ Crash(p) \/ \E call \in Calls : Begin(p, call)

LEMMA TakenOnce ==
  ASSUME TypeOK, IndexInv, NEW i \in DOMAIN index, NEW j \in DOMAIN index,
         NEW b, NEW v, NEW w, Taken(i, b, v), index[j].kind = "backup",
         index[j].op = b, index[j].state = "pending"
  PROVE  i = j
<1>1. i \in Int /\ j \in Int
  BY DEF TypeOK
<1> QED
  BY <1>1 DEF IndexInv, IndexParses, Taken

LEMMA NotedThere ==
  ASSUME TypeOK, NEW b, NEW w, Noted(b, w)
  PROVE  TakenFor(b, w)
BY DEF TypeOK, Noted, Taken, TakenFor

LEMMA OneReason ==
  ASSUME TypeOK, IndexInv, NEW b, NEW v, NEW w, TakenFor(b, v), TakenFor(b, w)
  PROVE  v = w
<1>1. PICK i \in DOMAIN index : Taken(i, b, v)
  BY DEF TakenFor, Taken
<1>2. PICK j \in DOMAIN index : Taken(j, b, w)
  BY DEF TakenFor, Taken
<1>3. i = j
  BY <1>1, <1>2, TakenOnce DEF Taken
<1> QED
  BY <1>1, <1>2, <1>3 DEF Taken

\* What is open began last.
LEMMA OpenIsLast ==
  ASSUME TypeOK, IndexInv, NEW e, Open("erase", e), NEW b, NEW w, TakenFor(b, w)
  PROVE  e > b
<1>1. PICK i \in DOMAIN index : Taken(i, b, w)
  BY DEF TakenFor, Taken
<1>2. PICK j \in DOMAIN index : /\ index[j].kind = "erase" /\ index[j].op = e
                                /\ Opening(j)
  BY DEF Open, Has, Opening
<1>3. ~(j < i)
  <2> SUFFICES ASSUME j < i PROVE FALSE
    OBVIOUS
  <2>1. PICK k \in DOMAIN index : SameOp(j, k) /\ ~Opening(k)
    BY <1>1, <1>2 DEF IndexInv, OneByOne, Taken, Opening
  <2>2. index[k].state = "committed"
    BY <1>2, <2>1 DEF IndexInv, Shaped, SameOp, Opening, Terminal
  <2> QED
    BY <1>2, <2>1, <2>2 DEF Open, Terminal, Has, SameOp
<1>4. i \in Int /\ j \in Int /\ i # j
  BY <1>1, <1>2 DEF TypeOK, Taken
<1>5. index[i].op < index[j].op
  BY <1>1, <1>2, <1>3, <1>4 DEF IndexInv, OneByOne, Taken, Opening
<1>6. index[i].op \in Int /\ index[j].op \in Int
  BY IndexOps
<1> QED
  BY <1>1, <1>2, <1>5, <1>6 DEF Taken

LEMMA NotedKept ==
  ASSUME TypeOK, Wrote, flushed <= flushed', flushed' \in Nat,
         NEW b, NEW w, Noted(b, w)
  PROVE  Noted(b, w)'
<1>1. PICK i \in 1..flushed : Taken(i, b, w)
  BY DEF Noted
<1>2. i \in DOMAIN index /\ i \in 1..flushed'
  BY DEF TypeOK
<1>3. index'[i] = index[i]
  BY <1>2, Appended DEF Wrote
<1> QED
  BY <1>1, <1>2, <1>3 DEF Noted, Taken

LEMMA NotedSurvives ==
  ASSUME TypeOK, PowerLoss, NEW b, NEW w, Noted(b, w)
  PROVE  Noted(b, w)'
BY Prefix DEF Noted, Taken

-----------------------------------------------------------------------------
(* A registered copy stands.                                               *)

\* The copy a call is taking is registered by nobody.
LEMMA NotYet ==
  ASSUME BookInv, Filed, NEW p \in Procs, InPhase(p), Placing(p), Taking(p),
         NEW b, NEW w \in Workflows, TakenFor(b, w),
         Open("backup", b) => db.regs[w] = b
  PROVE  job[p].op # b
<1> USE DEF BookInv, SafeInv
<1> SUFFICES ASSUME job[p].op = b PROVE FALSE
  OBVIOUS
<1>1. PICK i \in DOMAIN index : Taken(i, b, w)
  BY DEF TakenFor, Taken
<1>2. CASE job[p].pc = "copied"
  <2>1. index[i].op < b
    BY <1>2 DEF InPhase
  <2> QED
    BY <1>1, <2>1, IndexOps DEF Taken
<1>3. CASE job[p].pc # "copied"
  <2>1. Open("backup", b)
    BY <1>3 DEF InPhase, Taking
  <2>2. content[index[i].op].db = db /\ db.regs[w] = b /\ b # NoOp
    BY <1>1, <2>1 DEF Placing, Taking, Taken
  <2>3. PICK k \in DOMAIN index : /\ index[k].kind = "backup" /\ index[k].op = b
                                  /\ index[k].state \in {"committed", "aborted"}
    BY <1>1, <2>2 DEF Filed, FiledAt, Taken, Opening
  <2> QED
    BY <2>1, <2>3 DEF Open, Terminal, Has
<1> QED
  BY <1>2, <1>3

\* What a step may not do to a registered copy.
Steady(b) ==
  /\ \/ index' = index
     \/ \E rec : /\ index' = Append(index, rec) /\ rec \in Lines
                 /\ rec.kind = "backup" /\ rec.op = b =>
                      rec.state # "orphan" /\ (rec.state = "aborted" => SweptAfter(b))
  /\ onDisk[b] = {"final"} => onDisk'[b] = {"final"} \/ SweptAfter(b)

LEMMA SteadyRecord ==
  ASSUME TypeOK, TypeOK', NEW b, NEW rec, NEW out \in Outcomes,
         AppendRecord(rec, out),
         rec.kind = "backup" /\ rec.op = b =>
           rec.state # "orphan" /\ (rec.state = "aborted" => SweptAfter(b))
  PROVE  \/ index' = index
         \/ \E r : /\ index' = Append(index, r) /\ r \in Lines
                   /\ r.kind = "backup" /\ r.op = b =>
                        r.state # "orphan" /\ (r.state = "aborted" => SweptAfter(b))
<1>1. CASE index' = index
  BY <1>1
<1>2. CASE index' = Append(index, rec)
  <2>1. Len(index) \in Nat /\ Len(index') = Len(index) + 1
        /\ index'[Len(index) + 1] = rec
    BY <1>2 DEF TypeOK
  <2>2. rec \in Lines
    BY <2>1 DEF TypeOK
  <2> QED
    BY <1>2, <2>2
<1> QED
  BY <1>1, <1>2 DEF AppendRecord

\* Retention takes no copy a workflow took.
LEMMA NotPrunable ==
  ASSUME TypeOK, IndexInv, NEW p \in Procs, NEW b \in Prunable(p),
         NEW w \in Workflows, TakenFor(b, w), ~Has("backup", b, "orphan")
  PROVE  FALSE
<1>1. PICK c \in Classes : InClass(b, c)
  BY DEF Prunable, Excess, Standing, Classes
<1>2. TakenFor(b, c)
  BY <1>1 DEF InClass
<1>3. c = w
  BY <1>2, OneReason
<1> QED
  BY <1>3, BackupsAssumption

LEMMA SteadySilent ==
  ASSUME CopyInv, TypeOK', NEW p \in Procs, Silent(p),
         NEW b \in Ops, NEW w \in Workflows, TakenFor(b, w),
         Open("backup", b) => db.regs[w] = b
  PROVE  Steady(b)
<1> USE DEF CopyInv, BookInv, SafeInv
<1>1. index' = index
  BY SilentWrites
<1>2. b \in Files
  BY OpsAreFiles
<1>3. ASSUME Copy(p) PROVE onDisk'[b] = onDisk[b]
  <2>1. b # minted + 1
    BY FreshOp DEF TakenFor
  <2> QED
    BY <1>2, <1>3, <2>1 DEF Copy, TypeOK
<1>4. ASSUME Place(p), onDisk[b] = {"final"} PROVE onDisk'[b] = {"final"}
  <2>1. job[p].op # b
    BY <1>4, NotYet DEF Place, Taking, HasOp, OpPhases
  <2>2. dir[b] = "final"
    BY <1>2, <1>4 DEF TypeOK
  <2> QED
    BY <1>2, <1>4, <2>1, <2>2 DEF Place, FlushDir, TypeOK
<1>5. ASSUME SweepIncomplete(p), onDisk[b] = {"final"} PROVE onDisk'[b] = {"final"}
  <2>1. dir[b] = "final"
    BY <1>2, <1>5 DEF TypeOK
  <2> QED
    BY <1>2, <1>5, <2>1 DEF SweepIncomplete, FlushDir
<1>6. Copy(p) \/ Place(p) \/ SweepIncomplete(p) \/ UNCHANGED onDisk
  BY DEF Silent, Begin, Busy, RefuseEarly, Acquire, AcquireFails, List, Refuse,
     StageWrite, Commit, PruneDone, EraseCommit, Crash, SettleErase,
     RestoreCommit, SweepStuck, files
<1> QED
  BY <1>1, <1>3, <1>4, <1>5, <1>6 DEF Steady

LEMMA SteadySpeaks ==
  ASSUME CopyInv, TypeOK', NEW p \in Procs, NEW out \in Outcomes, Speaks(p, out),
         NEW b \in Ops, NEW w \in Workflows, TakenFor(b, w),
         Open("backup", b) => db.regs[w] = b,
         ~Has("backup", b, "orphan"), Stood(b)
  PROVE  Steady(b)
<1> USE DEF CopyInv, BookInv, SafeInv
<1>1. b \in Files
  BY OpsAreFiles
<1>2. onDisk[b] = {"final"} => dir[b] = "final"
  BY <1>1 DEF TypeOK
<1>3. ASSUME NEW f \in Files, Unlink(f), f # b
      PROVE  onDisk'[b] = onDisk[b]
  BY <1>1, <1>3 DEF Unlink, TypeOK
<1>4. ASSUME NEW kind, NEW op, NEW state, NEW rec,
             rec.kind = kind, rec.op = op, rec.state = state,
             kind # "backup" \/ op # b \/ state \in {"pending", "committed"},
             AppendRecord(rec, out),
             onDisk[b] = {"final"} => onDisk'[b] = {"final"} \/ SweptAfter(b)
      PROVE  Steady(b)
  BY <1>4, SteadyRecord DEF Steady
<1>5. ASSUME Name(p, out) PROVE Steady(b)
  <2> DEFINE rec == [Line("backup", job[p].op, "pending")
                       EXCEPT !.reason = job[p].call.reason]
  <2>1. rec.kind = "backup" /\ rec.state = "pending" /\ rec.op = job[p].op
    BY DEF Line
  <2>2. AppendRecord(rec, out)
    BY <1>5 DEF Name
  <2> HIDE DEF rec
  <2>3. job[p].op # b /\ job[p].op \in Files
    BY <1>5, NotYet, OpTyped, OpsAreFiles DEF Name, Taking, HasOp, OpPhases
  <2>4. onDisk'[b] = onDisk[b]
    BY <1>3, <1>5, <2>3 DEF Name, files
  <2> QED
    BY <1>4, <2>1, <2>2, <2>4
<1>6. ASSUME PlaceFails(p, out) PROVE Steady(b)
  <2>1. job[p].op # b /\ job[p].op \in Files
    BY <1>6, NotYet, OpTyped, OpsAreFiles DEF PlaceFails, Taking, HasOp, OpPhases
  <2>2. onDisk'[b] = onDisk[b]
    BY <1>3, <1>6, <2>1 DEF PlaceFails
  <2> QED
    BY <1>4, <1>6, <2>1, <2>2, LineFields DEF PlaceFails
<1>7. ASSUME CommitFails(p, out) PROVE Steady(b)
  <2>1. job[p].op # b
    BY <1>7, NotYet DEF CommitFails, Taking
  <2> QED
    BY <1>4, <1>7, <2>1, LineFields DEF CommitFails, files
<1>8. ASSUME Close(p, out) PROVE Steady(b)
  BY <1>4, <1>8, LineFields DEF Close, files
<1>9. ASSUME RestoreClose(p, out) PROVE Steady(b)
  BY <1>4, <1>9, LineFields DEF RestoreClose, files
<1>10. ASSUME EraseBegin(p, out) PROVE Steady(b)
  BY <1>4, <1>10, LineFields DEF EraseBegin, files
<1>11. ASSUME SweepDone(p, out) PROVE Steady(b)
  <2>1. onDisk[b] = {"final"} => onDisk'[b] = {"final"}
    BY <1>1, <1>2, <1>11 DEF SweepDone, FlushDir
  <2> QED
    BY <1>4, <1>11, <2>1, LineFields DEF SweepDone
<1>12. ASSUME NEW c \in Ops, SettleBackup(p, c, out) PROVE Steady(b)
  <2>1. CASE c # b
    <3>1. onDisk'[b] = onDisk[b]
      BY <1>3, <1>12, <2>1, OpsAreFiles DEF SettleBackup, files
    <3> QED
      BY <1>4, <1>12, <2>1, <3>1, LineFields DEF SettleBackup
  <2>2. CASE c = b
    <3>1. db.regs[w] = b /\ \A v \in Workflows : TakenFor(b, v) => v = w
      BY <1>12, <2>2, OneReason DEF SettleBackup
    <3>2. SettledState(b) # "orphan"
      BY <3>1 DEF SettledState
    <3>3. SettledState(b) = "aborted" => SweptAfter(b)
      BY <1>2 DEF SettledState, Stood
    <3>4. onDisk[b] = {"final"} => onDisk'[b] = {"final"}
      BY <1>2, <1>12, <2>2 DEF SettleBackup, files
    <3>5. PICK rec : rec = Line("backup", b, SettledState(b))
      OBVIOUS
    <3>6. rec.state = SettledState(b) /\ AppendRecord(rec, out)
      BY <1>12, <2>2, <3>5, LineFields DEF SettleBackup
    <3> QED
      BY <3>2, <3>3, <3>4, <3>6, SteadyRecord DEF Steady
  <2> QED
    BY <2>1, <2>2
<1>13. ASSUME NEW c \in Ops, SettleRestore(p, c, out) PROVE Steady(b)
  BY <1>4, <1>13, LineFields DEF SettleRestore, files
<1>14. ASSUME NEW c \in Ops, Prune(p, c, out) PROVE Steady(b)
  <2>1. c # b
    BY <1>14, NotPrunable DEF Prune
  <2>2. onDisk'[b] = onDisk[b]
    BY <1>3, <1>14, <2>1, OpsAreFiles DEF Prune
  <2> QED
    BY <1>4, <1>14, <2>2, LineFields DEF Prune
<1>15. ASSUME NEW c \in Ops, RestoreBegin(p, c, out) PROVE Steady(b)
  <2> DEFINE rec == [Line("restore", minted + 1, "pending") EXCEPT !.of = c]
  <2>1. rec.kind = "restore" /\ rec.op = minted + 1 /\ rec.state = "pending"
    BY DEF Line
  <2>2. AppendRecord(rec, out)
    BY <1>15 DEF RestoreBegin
  <2> HIDE DEF rec
  <2> QED
    BY <1>4, <1>15, <2>1, <2>2 DEF RestoreBegin, files
<1>16. ASSUME NEW c \in Ops, RecordAbsent(p, c, out) PROVE Steady(b)
  BY <1>4, <1>16, LineFields DEF RecordAbsent, files
<1>17. ASSUME NEW f \in Files, SweepFile(p, f, out) PROVE Steady(b)
  <2>1. Open("erase", job[p].op) /\ job[p].op \in swept
    BY <1>17 DEF SweepFile, InPhase, Placing
  <2>2. SweptAfter(b)
    BY <2>1, OpenIsLast DEF SweptAfter
  <2>3. CASE UNCHANGED records
    BY <2>2, <2>3 DEF Steady, records
  <2>4. CASE AppendRecord(Line("prune", f, "done"), out)
    BY <1>4, <2>2, <2>4, LineFields
  <2> QED
    BY <1>17, <2>3, <2>4 DEF SweepFile
<1> QED
  BY <1>5, <1>6, <1>7, <1>8, <1>9, <1>10, <1>11, <1>12, <1>13, <1>14, <1>15,
     <1>16, <1>17 DEF Speaks

LEMMA SweptGrows ==
  ASSUME NEW p \in Procs, Step(p)
  PROVE  swept \subseteq swept'
<1>1. ASSUME Silent(p) PROVE swept \subseteq swept'
  BY <1>1 DEF Silent, Begin, Busy, RefuseEarly, Acquire, AcquireFails, List, Refuse,
     StageWrite, Copy, Place, Commit, PruneDone, EraseCommit, SweepIncomplete,
     Crash, SettleErase, RestoreCommit, SweepStuck, StartSweep, history
<1>2. ASSUME NEW out \in Outcomes, Speaks(p, out) PROVE swept' = swept
  BY <1>2 DEF Speaks, Name, PlaceFails, CommitFails, Close, RestoreClose,
     EraseBegin, SweepDone, SettleBackup, SettleRestore, Prune, RestoreBegin,
     RecordAbsent, SweepFile, history
<1> QED
  BY <1>1, <1>2, SilentOrSpeaks DEF Step

\* Only a new copy has a new content.
LEMMA ContentKept ==
  ASSUME TypeOK, Minted, NEW p \in Procs, Step(p), NEW i \in DOMAIN index
  PROVE  content'[index[i].op] = content[index[i].op]
<1>1. ASSUME Silent(p) PROVE UNCHANGED content \/ Copy(p)
  BY <1>1 DEF Silent, Begin, Busy, RefuseEarly, Acquire, AcquireFails, List, Refuse,
     StageWrite, Place, Commit, PruneDone, EraseCommit, SweepIncomplete,
     Crash, SettleErase, RestoreCommit, SweepStuck, files
<1>2. ASSUME NEW out \in Outcomes, Speaks(p, out) PROVE content' = content
  BY <1>2 DEF Speaks, Name, PlaceFails, CommitFails, Close, RestoreClose,
     EraseBegin, SweepDone, SettleBackup, SettleRestore, Prune, RestoreBegin,
     RecordAbsent, SweepFile, files, Unlink
<1>3. ASSUME Copy(p) PROVE content'[index[i].op] = content[index[i].op]
  BY <1>3, FreshOp, IndexOps, OpsAreFiles DEF Copy, TypeOK
<1> QED
  BY <1>1, <1>2, <1>3, SilentOrSpeaks DEF Step

LEMMA StepWrote ==
  ASSUME BookInv, TypeOK', NEW p \in Procs, Step(p)
  PROVE  Wrote /\ flushed <= flushed' /\ flushed' \in Nat
<1>1. Silent(p) => Wrote
  BY SilentWrites DEF Wrote
<1>2. ASSUME NEW out \in Outcomes, Speaks(p, out) PROVE Wrote
  BY <1>2, StepWrites DEF BookInv
<1>3. flushed <= flushed'
  BY IndexGrows DEF BookInv, SafeInv, Grew, Step
<1> QED
  BY <1>1, <1>2, <1>3, SilentOrSpeaks DEF Step, TypeOK

LEMMA StoodKept ==
  ASSUME CopyInv, TypeOK', NEW p \in Procs, Step(p),
         NEW b \in Ops, NEW w \in Workflows, TakenFor(b, w),
         Open("backup", b) => db.regs[w] = b,
         ~Has("backup", b, "orphan"), Stood(b)
  PROVE  ~Has("backup", b, "orphan")' /\ Stood(b)'
<1>1. Steady(b)
  BY SilentOrSpeaks, SteadySilent, SteadySpeaks DEF Step
<1>2. SweptAfter(b) => SweptAfter(b)'
  BY SweptGrows DEF SweptAfter
<1>3. CASE index' = index
  BY <1>1, <1>2, <1>3 DEF Steady, Stood, Has
<1>4. ASSUME NEW rec \in Lines, index' = Append(index, rec),
             rec.kind = "backup" /\ rec.op = b =>
               rec.state # "orphan" /\ (rec.state = "aborted" => SweptAfter(b))
      PROVE  ~Has("backup", b, "orphan")' /\ Stood(b)'
  <2>1. \A s : Has("backup", b, s)' <=>
          Has("backup", b, s) \/ (rec.kind = "backup" /\ rec.op = b /\ rec.state = s)
    BY <1>4, HasAppended DEF CopyInv, BookInv, SafeInv
  <2>2. Has("backup", b, "orphan")' <=>
          Has("backup", b, "orphan") \/ (rec.kind = "backup" /\ rec.op = b /\ rec.state = "orphan")
    BY <2>1
  <2>3. Has("backup", b, "aborted")' <=>
          Has("backup", b, "aborted") \/ (rec.kind = "backup" /\ rec.op = b /\ rec.state = "aborted")
    BY <2>1
  <2> QED
    BY <1>1, <1>2, <1>4, <2>2, <2>3 DEF Steady, Stood
<1> QED
  BY <1>1, <1>3, <1>4 DEF Steady

LEMMA BeforeKept ==
  ASSUME CopyInv, TypeOK', NEW p \in Procs, Step(p),
         NEW b, NEW w, content'[b] = content[b], Before(b, w)
  PROVE  Before(b, w)'
<1>1. \A c : Noted(c, w) => Noted(c, w)'
  BY StepWrote, NotedKept DEF CopyInv, BookInv, SafeInv
<1>2. swept \subseteq swept'
  BY SweptGrows
<1> QED
  BY <1>1, <1>2 DEF Before

\* The registrations of a ledger whose copies are all settled, or its own.
LEMMA SoundKept ==
  ASSUME CopyInv, TypeOK', NEW p \in Procs, Step(p), NEW ledger, Sound(ledger),
         \A w \in Workflows : ledger.regs[w] # NoOp =>
           /\ ledger.regs[w] \in Ops
           /\ TakenFor(ledger.regs[w], w)
           /\ Open("backup", ledger.regs[w]) => db.regs[w] = ledger.regs[w]
  PROVE  Sound(ledger)'
<1> SUFFICES ASSUME NEW w \in Workflows
             PROVE  /\ w \in ledger.wrote => ledger.regs[w] # NoOp
                    /\ ledger.regs[w] # NoOp =>
                         /\ ~Has("backup", ledger.regs[w], "orphan")'
                         /\ Stood(ledger.regs[w])'
                         /\ Before(ledger.regs[w], w)'
  BY DEF Sound
<1>1. w \in ledger.wrote => ledger.regs[w] # NoOp
  BY DEF Sound
<1>2. ASSUME ledger.regs[w] # NoOp
      PROVE  /\ ~Has("backup", ledger.regs[w], "orphan")'
             /\ Stood(ledger.regs[w])'
             /\ Before(ledger.regs[w], w)'
  <2>1. PICK b \in Ops : b = ledger.regs[w]
    BY <1>2
  <2>2. /\ TakenFor(b, w)
        /\ Open("backup", b) => db.regs[w] = b
        /\ ~Has("backup", b, "orphan") /\ Stood(b) /\ Before(b, w)
    BY <1>2, <2>1 DEF Sound
  <2>3. ~Has("backup", b, "orphan")' /\ Stood(b)'
    BY <2>2, StoodKept
  <2>4. content'[b] = content[b]
    <3>1. PICK i \in DOMAIN index : index[i].op = b
      BY <2>2 DEF TakenFor
    <3>2. content'[index[i].op] = content[index[i].op]
      BY ContentKept DEF CopyInv, BookInv, SafeInv
    <3> QED
      BY <3>1, <3>2
  <2>5. Before(b, w)'
    BY <2>2, <2>4, BeforeKept
  <2> QED
    BY <2>1, <2>3, <2>5
<1> QED
  BY <1>1, <1>2

\* Only `take_backup` appends the pending record of a copy.
LEMMA NewCopy ==
  ASSUME TypeOK, NEW p \in Procs, Step(p), NEW rec, index' = Append(index, rec),
         rec.kind = "backup", rec.state = "pending"
  PROVE  \E out \in Outcomes : Name(p, out) /\ rec.op = job[p].op
<1>1. /\ Len(index) \in Nat /\ index'[Len(index) + 1] = rec
      /\ index' # index
  <2>1. Len(index) \in Nat /\ Len(index') = Len(index) + 1
    BY DEF TypeOK
  <2> QED
    BY <2>1 DEF TypeOK
<1>2. PICK out \in Outcomes : Speaks(p, out)
  BY <1>1, SilentOrSpeaks, SilentWrites DEF Step
<1>3. ASSUME NEW r, AppendRecord(r, out) PROVE r = rec
  <2>1. index' = Append(index, r)
    BY <1>1, <1>3 DEF AppendRecord
  <2>2. index'[Len(index) + 1] = r
    BY <2>1 DEF TypeOK
  <2> QED
    BY <1>1, <2>2
<1>4. ASSUME NEW kind, NEW op, NEW state, AppendRecord(Line(kind, op, state), out)
      PROVE  kind = "backup" /\ state = "pending"
  <2>1. Line(kind, op, state) = rec
    BY <1>3, <1>4
  <2> QED
    BY <2>1, LineFields
<1>5. ASSUME NEW b \in Ops PROVE ~RestoreBegin(p, b, out)
  <2> DEFINE r == [Line("restore", minted + 1, "pending") EXCEPT !.of = b]
  <2>1. r.kind = "restore"
    BY DEF Line
  <2>2. RestoreBegin(p, b, out) => AppendRecord(r, out)
    BY DEF RestoreBegin
  <2> QED
    BY <1>3, <2>1, <2>2
<1>6. \A b : SettledState(b) # "pending"
  BY DEF SettledState
<1>7. Name(p, out)
  BY <1>1, <1>2, <1>4, <1>5, <1>6 DEF Speaks, PlaceFails, CommitFails, Close,
     RestoreClose, EraseBegin, SweepDone, SettleBackup, SettleRestore, Prune,
     RecordAbsent, SweepFile, records
<1>8. rec.op = job[p].op
  <2> DEFINE r == [Line("backup", job[p].op, "pending")
                     EXCEPT !.reason = job[p].call.reason]
  <2>1. r.op = job[p].op
    BY DEF Line
  <2>2. AppendRecord(r, out)
    BY <1>7 DEF Name
  <2> QED
    BY <1>3, <2>1, <2>2
<1> QED
  BY <1>7, <1>8

LEMMA CopyDb ==
  ASSUME TypeOK, NEW i \in DOMAIN index, NEW w \in Workflows
  PROVE  content[index[i].op].db.regs[w] \in Ops \cup {NoOp}
BY IndexOps, OpsAreFiles DEF TypeOK, Ledgers

LEMMA FiledKept ==
  ASSUME CopyInv, TypeOK', NEW p \in Procs, Step(p)
  PROVE  Filed'
<1> USE DEF CopyInv, BookInv, SafeInv
<1>1. Wrote
  BY StepWrote
<1>2. /\ Len(index) \in Nat
      /\ \A i \in DOMAIN index : /\ i \in DOMAIN index' /\ index'[i] = index[i]
                                 /\ i \in Int /\ i < Len(index) + 1
      /\ \A i \in DOMAIN index' : i \in DOMAIN index \/ i = Len(index) + 1
      /\ \A rec : index' = Append(index, rec) => index'[Len(index) + 1] = rec
  <2>1. index \in Seq(Lines) /\ Len(index) \in Nat /\ DOMAIN index = 1 .. Len(index)
    BY DEF TypeOK
  <2>2. ASSUME NEW rec, index' = Append(index, rec) PROVE index'[Len(index) + 1] = rec
    BY <2>1, <2>2
  <2>3. \A i \in DOMAIN index : i \in Int /\ i < Len(index) + 1
    BY <2>1
  <2>4. CASE index' = index
    BY <2>1, <2>2, <2>3, <2>4
  <2>5. ASSUME NEW rec \in Lines, index' = Append(index, rec)
        PROVE  /\ \A i \in DOMAIN index : i \in DOMAIN index' /\ index'[i] = index[i]
               /\ \A i \in DOMAIN index' : i \in DOMAIN index \/ i = Len(index) + 1
    BY <2>5, Appended
  <2> QED
    BY <1>1, <2>1, <2>2, <2>3, <2>4, <2>5 DEF Wrote
<1> SUFFICES ASSUME NEW j \in DOMAIN index', index'[j].kind = "backup",
                    index'[j].state = "pending",
                    NEW ledger, ledger = content'[index'[j].op].db
             PROVE  FiledAt(ledger, j)'
  BY DEF Filed, FiledAt, Sound, Opening
<1>3. CASE j \in DOMAIN index
  <2>1. ledger = content[index[j].op].db
    BY <1>2, <1>3, ContentKept
  <2>2. FiledAt(ledger, j)
    BY <1>2, <1>3, <2>1 DEF Filed, Opening
  <2>3. /\ Sound(ledger)
        /\ \A w \in Workflows : ledger.regs[w] # NoOp =>
             /\ \E i \in DOMAIN index : i < j /\ Taken(i, ledger.regs[w], w)
             /\ \E i \in DOMAIN index :
                  /\ i < j /\ index[i].kind = "backup"
                  /\ index[i].op = ledger.regs[w]
                  /\ index[i].state \in {"committed", "aborted"}
    BY <2>2 DEF FiledAt
  <2>4. ASSUME NEW w \in Workflows, ledger.regs[w] # NoOp
        PROVE  /\ ledger.regs[w] \in Ops
               /\ TakenFor(ledger.regs[w], w)
               /\ ~Open("backup", ledger.regs[w])
    BY <1>3, <2>1, <2>3, <2>4, CopyDb DEF TakenFor, Taken, Open, Has, Terminal
  <2>5. Sound(ledger)'
    BY <2>3, <2>4, SoundKept
  <2> QED
    BY <1>2, <2>3, <2>5 DEF FiledAt, Taken
<1>4. CASE j \notin DOMAIN index
  <2>1. PICK rec \in Lines : index' = Append(index, rec)
    BY <1>1, <1>4 DEF Wrote
  <2>2. index'[j] = rec /\ j = Len(index) + 1
    BY <1>2, <1>4, <2>1
  <2>3. PICK out \in Outcomes : Name(p, out) /\ rec.op = job[p].op
    BY <2>1, <2>2, NewCopy
  <2>4. ledger = db
    <3>1. content' = content /\ Taking(p)
      BY <2>3 DEF Name, files, Unlink, Taking, HasOp, OpPhases
    <3> QED
      BY <2>2, <2>3, <3>1 DEF Placing
  <2>6. ASSUME NEW w \in Workflows, ledger.regs[w] # NoOp
        PROVE  /\ ledger.regs[w] \in Ops
               /\ TakenFor(ledger.regs[w], w)
               /\ Has("backup", ledger.regs[w], "committed")
                  \/ Has("backup", ledger.regs[w], "aborted")
    <3>1. PICK b \in Ops : b = ledger.regs[w]
      BY <2>4, <2>6 DEF TypeOK, Ledgers
    <3>2. TakenFor(b, w) /\ ~Has("backup", b, "orphan")
      BY <2>4, <2>6, <3>1, NotedThere DEF Registrations, Sound
    <3>3. Has("backup", b, "pending") /\ ~Open("backup", b)
      BY <2>3, <3>2 DEF TakenFor, Has, Name, InPhase, NothingOpen
    <3> QED
      BY <3>1, <3>2, <3>3 DEF Open, Terminal
  <2>7. Sound(ledger)'
    BY <2>4, <2>6, SoundKept DEF Registrations
  <2>8. ASSUME NEW w \in Workflows, ledger.regs[w] # NoOp
        PROVE  /\ \E i \in DOMAIN index' : i < j /\ Taken(i, ledger.regs[w], w)'
               /\ \E i \in DOMAIN index' :
                    /\ i < j /\ index'[i].kind = "backup"
                    /\ index'[i].op = ledger.regs[w]
                    /\ index'[i].state \in {"committed", "aborted"}
    BY <1>2, <2>2, <2>6, <2>8 DEF TakenFor, Taken, Has
  <2> QED
    BY <2>7, <2>8 DEF FiledAt
<1> QED
  BY <1>3, <1>4

-----------------------------------------------------------------------------
(* The registrations in the ledger.                                        *)

LEMMA DbSteps ==
  ASSUME NEW p \in Procs, Step(p)
  PROVE  \/ db' = db \/ Commit(p) \/ EraseCommit(p)
         \/ \E b \in Ops : RestoreCommit(p, b)
<1>1. ASSUME Silent(p), ~Commit(p), ~EraseCommit(p), ~\E b \in Ops : RestoreCommit(p, b)
      PROVE  db' = db
  BY <1>1 DEF Silent, Begin, Busy, RefuseEarly, Acquire, AcquireFails, List, Refuse,
     StageWrite, Copy, Place, PruneDone, SweepIncomplete, Crash, SettleErase,
     SweepStuck
<1>2. ASSUME NEW out \in Outcomes, Speaks(p, out) PROVE db' = db
  BY <1>2 DEF Speaks, Name, PlaceFails, CommitFails, Close, RestoreClose,
     EraseBegin, SweepDone, SettleBackup, SettleRestore, Prune, RestoreBegin,
     RecordAbsent, SweepFile
<1> QED
  BY <1>1, <1>2, SilentOrSpeaks DEF Step

\* A COMMIT changes neither the index nor the copies.
LEMMA Quiet ==
  ASSUME UNCHANGED <<index, flushed, onDisk, content>>, swept \subseteq swept',
         NEW ledger, Sound(ledger),
         \A w \in Workflows : ledger.regs[w] # NoOp => Noted(ledger.regs[w], w),
         db' = ledger
  PROVE  Registrations'
<1>1. ASSUME NEW b PROVE /\ Has("backup", b, "orphan")' <=> Has("backup", b, "orphan")
                         /\ Stood(b) => Stood(b)'
  BY DEF Has, Stood, SweptAfter
<1>2. ASSUME NEW b, NEW w PROVE Noted(b, w)' <=> Noted(b, w)
  BY DEF Noted, Taken
<1>3. ASSUME NEW b, NEW w, Before(b, w) PROVE Before(b, w)'
  BY <1>2, <1>3 DEF Before
<1>4. Sound(ledger)'
  BY <1>1, <1>3 DEF Sound
<1> QED
  BY <1>2, <1>4 DEF Registrations, Sound

LEMMA WriteCall ==
  ASSUME TypeOK, NEW p \in Procs, job[p].call.tool = "write"
  PROVE  job[p].call.reason \in Workflows
BY CallTyped DEF TypeOK, Job

LEMMA CommitRegisters ==
  ASSUME CopyInv, TypeOK', NEW p \in Procs, Commit(p)
  PROVE  Registrations'
<1> USE DEF CopyInv, BookInv, SafeInv
<1>1. UNCHANGED <<index, flushed, onDisk, content, swept>>
  BY DEF Commit, records, files, history
<1>2. db \in Ledgers /\ db' = Staged(p)
  BY DEF TypeOK, Commit
<1>3. PICK w0 : w0 = job[p].call.reason
  OBVIOUS
<1>4. PICK o : o = job[p].op
  OBVIOUS
<1>5. CASE job[p].call.tool = "write" /\ o # NoOp
  <2>1. db' = [db EXCEPT !.regs[w0] = o, !.wrote = @ \cup {w0}]
    BY <1>2, <1>3, <1>4, <1>5 DEF Staged
  <2>2. w0 \in Workflows
    BY <1>3, <1>5, WriteCall
  <2>3. /\ db'.wrote = db.wrote \cup {w0} /\ db'.regs[w0] = o
        /\ \A w \in Workflows \ {w0} : db'.regs[w] = db.regs[w]
    BY <1>2, <2>1, <2>2 DEF Ledgers
  <2>4. Taking(p) /\ job[p].pc = "staged"
    BY <1>4, <1>5 DEF Taking, Commit
  <2>5. Open("backup", o)
    BY <1>4, <1>5, <2>4 DEF InPhase
  <2>6. ~Has("backup", o, "orphan") /\ ~Has("backup", o, "aborted")
    BY <2>5 DEF Open, Terminal
  <2>7. Stood(o) /\ Before(o, w0) /\ Noted(o, w0)
    BY <1>3, <1>4, <1>5, <2>4, <2>6 DEF Placing, Stood
  <2>8. PICK ledger : ledger = db'
    OBVIOUS
  <2>9. Sound(ledger) /\ \A w \in Workflows :
          ledger.regs[w] # NoOp => Noted(ledger.regs[w], w)
    BY <1>5, <2>2, <2>3, <2>6, <2>7, <2>8 DEF Registrations, Sound
  <2> QED
    BY <1>1, <2>8, <2>9, Quiet
<1>6. CASE ~(job[p].call.tool = "write" /\ o # NoOp)
  <2>1. /\ db'.regs = db.regs
        /\ \/ db'.wrote \subseteq db.wrote
           \/ db'.wrote = db.wrote \cup {w0} /\ db.regs[w0] # NoOp
    <3>1. CASE job[p].call.tool = "write"
      <4>1. db' = [db EXCEPT !.wrote = @ \cup {w0}]
        BY <1>2, <1>3, <1>4, <1>6, <3>1 DEF Staged
      <4>2. db.regs[w0] # NoOp
        BY <1>3, <1>4, <1>6, <3>1 DEF Placing, Commit
      <4> QED
        BY <1>2, <4>1, <4>2 DEF Ledgers
    <3>2. CASE job[p].call.tool = "scoped"
      <4>1. db' = [db EXCEPT !.wrote = {}]
        BY <1>2, <3>2 DEF Staged
      <4> QED
        BY <1>2, <4>1 DEF Ledgers
    <3>3. CASE job[p].call.tool \notin {"write", "scoped"}
      BY <1>2, <3>3 DEF Staged
    <3> QED
      BY <3>1, <3>2, <3>3
  <2>2. PICK ledger : ledger = db'
    OBVIOUS
  <2>3. Sound(ledger) /\ \A w \in Workflows :
          ledger.regs[w] # NoOp => Noted(ledger.regs[w], w)
    BY <2>1, <2>2 DEF Registrations, Sound
  <2> QED
    BY <1>1, <2>2, <2>3, Quiet
<1> QED
  BY <1>5, <1>6

LEMMA EraseRegisters ==
  ASSUME CopyInv, TypeOK', NEW p \in Procs, EraseCommit(p)
  PROVE  Registrations'
<1>1. UNCHANGED <<index, flushed, onDisk, content>> /\ swept \subseteq swept'
  BY DEF EraseCommit, records, files, StartSweep
<1>2. PICK ledger : ledger = db'
  OBVIOUS
<1>3. db' = db \/ (db'.wrote = {} /\ \A w \in Workflows : db'.regs[w] = NoOp)
  BY DEF EraseCommit, EmptyLedger
<1>4. Sound(ledger) /\ \A w \in Workflows :
        ledger.regs[w] # NoOp => Noted(ledger.regs[w], w)
  BY <1>2, <1>3 DEF CopyInv, Registrations, Sound
<1> QED
  BY <1>1, <1>2, <1>4, Quiet

LEMMA RestoreRegisters ==
  ASSUME CopyInv, TypeOK', NEW p \in Procs, NEW b \in Ops, RestoreCommit(p, b)
  PROVE  Registrations'
<1> USE DEF CopyInv, BookInv, SafeInv
<1>1. UNCHANGED <<index, flushed, onDisk, content, swept>>
  BY DEF RestoreCommit, records, files
<1>2. Durable("backup", b, "pending")
  BY DEF RestoreCommit, Placing
<1>3. PICK j \in 1..flushed : /\ index[j].kind = "backup" /\ index[j].op = b
                              /\ index[j].state = "pending"
  BY <1>2 DEF Durable
<1>4. j \in DOMAIN index
  BY DEF TypeOK
<1>5. PICK past : past = content[b].db
  OBVIOUS
<1>6. FiledAt(past, j)
  BY <1>3, <1>4, <1>5 DEF Filed, Opening
<1>7. ASSUME NEW w \in Workflows, past.regs[w] # NoOp
      PROVE  Noted(past.regs[w], w) /\ ~(past.regs[w] >= b)
  <2>1. PICK i \in DOMAIN index : i < j /\ Taken(i, past.regs[w], w)
    BY <1>6, <1>7 DEF FiledAt
  <2>2. i \in 1..flushed
    BY <1>4, <2>1 DEF TypeOK
  <2>3. index[i].op < index[j].op
    BY <1>3, <1>4, <2>1 DEF IndexInv, OneByOne, Taken, Opening
  <2>4. index[i].op \in Int /\ index[j].op \in Int
    BY <1>4, <2>1, IndexOps
  <2> QED
    BY <1>3, <2>1, <2>2, <2>3, <2>4 DEF Noted, Taken
<1>8. PICK ledger : ledger = db'
  OBVIOUS
<1>9. /\ ledger.wrote = past.wrote
      /\ \A w \in Workflows : past.regs[w] # NoOp => ledger.regs[w] = past.regs[w]
      /\ \A w \in Workflows : ledger.regs[w] # NoOp => ledger.regs[w] = past.regs[w]
  BY <1>5, <1>7, <1>8 DEF RestoreCommit, RegsFrom
<1>10. Sound(ledger) /\ \A w \in Workflows :
         ledger.regs[w] # NoOp => Noted(ledger.regs[w], w)
  BY <1>6, <1>7, <1>9 DEF FiledAt, Sound
<1> QED
  BY <1>1, <1>8, <1>10, Quiet

LEMMA RegistrationsKept ==
  ASSUME CopyInv, TypeOK', NEW p \in Procs, Step(p)
  PROVE  Registrations'
<1> USE DEF CopyInv, BookInv, SafeInv
<1>1. CASE db' = db
  <2>1. PICK ledger : ledger = db
    OBVIOUS
  <2>2. \A w \in Workflows : ledger.regs[w] # NoOp =>
          ledger.regs[w] \in Ops /\ TakenFor(ledger.regs[w], w)
    BY <2>1, NotedThere DEF Registrations, TypeOK, Ledgers
  <2>3. Sound(ledger)'
    BY <2>1, <2>2, SoundKept DEF Registrations
  <2>4. \A w \in Workflows : ledger.regs[w] # NoOp => Noted(ledger.regs[w], w)'
    BY <2>1, StepWrote, NotedKept DEF Registrations
  <2> QED
    BY <1>1, <2>1, <2>3, <2>4 DEF Registrations, Sound
<1> QED
  BY <1>1, DbSteps, CommitRegisters, EraseRegisters, RestoreRegisters

-----------------------------------------------------------------------------
(* The calls: the copy each is taking, restoring or sweeping.              *)

LEMMA SweptMintedKept ==
  ASSUME CopyInv, TypeOK', NEW p \in Procs, Step(p)
  PROVE  SweptMinted'
<1> USE DEF CopyInv, BookInv, SafeInv
<1>1. minted <= minted' /\ minted \in Int /\ minted' \in Int
  BY IndexGrows DEF Grew, Step, TypeOK
<1>2. \A e \in swept' : e \in swept \/ e <= minted
  <2>1. ASSUME EraseCommit(p) PROVE swept' \subseteq swept \cup {job[p].op}
    BY <2>1 DEF EraseCommit, StartSweep
  <2>2. ASSUME NEW e \in Ops, SettleErase(p, e)
        PROVE  swept' \subseteq swept \cup {e} /\ e <= minted
    BY <2>2, HasMinted DEF SettleErase, StartSweep, Open
  <2>3. ASSUME Silent(p), ~EraseCommit(p), ~\E e \in Ops : SettleErase(p, e)
        PROVE  swept' = swept
    BY <2>3 DEF Silent, Begin, Busy, RefuseEarly, Acquire, AcquireFails, List, Refuse,
       StageWrite, Copy, Place, Commit, PruneDone, SweepIncomplete, Crash,
       RestoreCommit, SweepStuck, history
  <2>4. ASSUME NEW out \in Outcomes, Speaks(p, out) PROVE swept' = swept
    BY <2>4 DEF Speaks, Name, PlaceFails, CommitFails, Close, RestoreClose,
       EraseBegin, SweepDone, SettleBackup, SettleRestore, Prune, RestoreBegin,
       RecordAbsent, SweepFile, history
  <2>5. job[p].op <= minted
    BY DEF Minted
  <2> QED
    BY <2>1, <2>2, <2>3, <2>4, <2>5, SilentOrSpeaks DEF Step
<1>3. \A e \in swept' : e \in Int
  BY DEF TypeOK, Ops
<1> QED
  BY <1>1, <1>2, <1>3 DEF SweptMinted

LEMMA NotPlacing ==
  ASSUME NEW p \in Procs,
         job'[p].pc \notin {"copied", "named", "staged", "restoring", "sweep"}
  PROVE  Placing(p)'
BY DEF Placing, Taking

LEMMA GoneOn ==
  ASSUME job \in [Procs -> Job], NEW p \in Procs, NEW pc, Goto(p, pc),
         pc \notin {"copied", "named", "staged", "restoring", "sweep"}
  PROVE  Placing(p)'
<1>1. job'[p].pc = pc
  BY GotoFacts
<1> QED
  BY <1>1, NotPlacing

\* A copy that replaces one a sweep took is younger than the sweep.
LEMMA CopyPlaced ==
  ASSUME CopyInv, TypeOK', NEW p \in Procs, Copy(p)
  PROVE  Placing(p)'
<1> USE DEF CopyInv, BookInv, SafeInv
<1>1. PICK n : n = minted + 1
  OBVIOUS
<1>2. PICK w : w = job[p].call.reason
  OBVIOUS
<1>3. /\ job'[p].pc = "copied" /\ job'[p].op = n
      /\ job'[p].call = job[p].call
  BY <1>1, GotoWithFacts, CallKept DEF Copy, TypeOK
<1>4. n \in Ops /\ n \in Files /\ n \in Int
  BY <1>1, NextOp, OpsAreFiles DEF Copy, TypeOK, Ops
<1>5. content'[n] = [epoch |-> epoch, db |-> db]
  BY <1>1, <1>4 DEF Copy, TypeOK
<1>6. UNCHANGED <<db, epoch, index, flushed, swept>>
  BY DEF Copy, records, history
<1>7. ASSUME job[p].call.tool = "write"
      PROVE  \/ w \notin db.wrote
             \/ \E c \in Ops, e \in swept : c < e /\ e < n /\ Noted(c, w)
  <2>1. w \in Workflows /\ ~Registered(w)
    BY <1>2, <1>7, WriteCall DEF Copy
  <2>2. CASE db.regs[w] = NoOp
    BY <2>1, <2>2 DEF Registrations, Sound
  <2>3. CASE db.regs[w] # NoOp
    <3>1. PICK c \in Ops : c = db.regs[w]
      BY <2>1, <2>3 DEF TypeOK, Ledgers
    <3>2. Noted(c, w) /\ Stood(c) /\ dir[c] # "final"
      BY <2>1, <2>3, <3>1 DEF Registrations, Sound, Registered
    <3>3. onDisk[c] # {"final"}
      BY <3>2, OpsAreFiles DEF TypeOK
    <3>4. PICK e \in swept : e > c
      BY <3>2, <3>3 DEF Stood, SweptAfter
    <3>5. e <= minted /\ e \in Int /\ c \in Int /\ minted \in Int
      BY DEF SweptMinted, TypeOK, Ops
    <3>6. c < e /\ e < n
      BY <1>1, <3>4, <3>5
    <3> QED
      BY <3>2, <3>6
  <2> QED
    BY <2>2, <2>3
<1>8. \A c : Noted(c, w)' <=> Noted(c, w)
  BY <1>6 DEF Noted, Taken
<1>9. job[p].call.tool = "write" => Before(n, w)'
  BY <1>5, <1>6, <1>7, <1>8 DEF Before
<1> QED
  BY <1>2, <1>3, <1>5, <1>6, <1>9 DEF Placing, Taking

LEMMA PlacingSilent ==
  ASSUME CopyInv, TypeOK', NEW p \in Procs, Silent(p)
  PROVE  Placing(p)'
<1> USE DEF CopyInv, BookInv, SafeInv
<1> PICK o : o = job[p].op
  OBVIOUS
<1>1. ASSUME Leave(p) PROVE Placing(p)'
  BY <1>1, LeaveFacts, NotPlacing DEF TypeOK
<1>2. ASSUME NEW call \in Calls, Begin(p, call) PROVE Placing(p)'
  BY <1>2, BeginFacts, NotPlacing DEF TypeOK
<1>3. ASSUME Acquire(p) PROVE Placing(p)'
  BY <1>3, GoneOn DEF Acquire, TypeOK
<1>4. ASSUME StageWrite(p) PROVE Placing(p)'
  <2>1. /\ job'[p].pc = "staged" /\ job'[p].op = NoOp
        /\ job'[p].call = job[p].call /\ db' = db
    BY <1>4, GotoFacts, CallKept DEF StageWrite, Ready, InPhase, TypeOK
  <2>2. job[p].call.tool = "write" /\ db.regs[job[p].call.reason] # NoOp
    BY <1>4 DEF StageWrite, Registered
  <2> QED
    BY <2>1, <2>2 DEF Placing, Taking
<1>5. ASSUME Place(p) PROVE Placing(p)'
  <2>1. CASE Goto(p, "staged") /\ FlushDir
    <3>1. job'[p].pc = "staged" /\ job'[p].op = o /\ job'[p].call = job[p].call
      BY <2>1, GotoFacts, CallKept DEF TypeOK
    <3>2. Taking(p) /\ job[p].pc = "named" /\ o \in Files /\ o # NoOp
      BY <1>5, OpTyped, OpsAreFiles DEF Place, Taking, HasOp, OpPhases
    <3>3. UNCHANGED <<db, epoch, index, flushed, swept, content>>
      BY <1>5 DEF Place, records, history
    <3>4. onDisk'[o] = {"final"}
      BY <1>5, <2>1, <3>2 DEF Place, FlushDir, TypeOK
    <3>5. \A b, w : Noted(b, w)' <=> Noted(b, w)
      BY <3>3 DEF Noted, Taken
    <3>6. \A w : Before(o, w) => Before(o, w)'
      BY <3>3, <3>5 DEF Before
    <3> QED
      BY <3>1, <3>2, <3>3, <3>4, <3>5, <3>6 DEF Placing, Taking
  <2> QED
    BY <1>1, <1>5, <2>1 DEF Place
<1>6. ASSUME Commit(p) PROVE Placing(p)'
  <2>1. CASE Goto(p, "closing")
    BY <2>1, GoneOn DEF TypeOK
  <2> QED
    BY <1>1, <1>6, <2>1 DEF Commit
<1>7. ASSUME NEW e, StartSweep(p, e) PROVE Placing(p)'
  <2>1. job'[p].pc = "sweep" /\ job'[p].op = e /\ e \in swept'
    BY <1>7, SweepFacts DEF StartSweep, TypeOK
  <2> QED
    BY <2>1 DEF Placing, Taking
<1>8. ASSUME NEW b \in Ops, RestoreCommit(p, b) PROVE Placing(p)'
  BY <1>8, GoneOn DEF RestoreCommit, TypeOK
<1>9. ASSUME NEW f \in Files, SweepStuck(p, f) PROVE Placing(p)'
  <2>1. job'[p].pc = "sweep" /\ job'[p].op = o /\ swept' = swept
    BY <1>9 DEF SweepStuck, TypeOK, Job, history
  <2>2. o \in swept
    BY <1>9 DEF SweepStuck, Placing
  <2> QED
    BY <2>1, <2>2 DEF Placing, Taking
<1> QED
  BY <1>1, <1>2, <1>3, <1>4, <1>5, <1>6, <1>7, <1>8, <1>9, CopyPlaced
     DEF Silent, Busy, RefuseEarly, AcquireFails, List, Refuse, PruneDone,
     SweepIncomplete, Crash, EraseCommit, SettleErase

LEMMA NamePlaced ==
  ASSUME CopyInv, TypeOK', NEW p \in Procs, Name(p, "ok")
  PROVE  Placing(p)'
<1> USE DEF CopyInv, BookInv, SafeInv
<1> DEFINE rec == [Line("backup", job[p].op, "pending")
                     EXCEPT !.reason = job[p].call.reason]
<1>1. PICK o : o = job[p].op
  OBVIOUS
<1>2. PICK w : w = job[p].call.reason
  OBVIOUS
<1>3. /\ rec.kind = "backup" /\ rec.state = "pending" /\ rec.op = o
      /\ rec.reason = w
  BY <1>1, <1>2 DEF Line
<1>4. AppendRecord(rec, "ok") /\ Goto(p, "named")
  BY DEF Name
<1> HIDE DEF rec
<1>5. job'[p].pc = "named" /\ job'[p].op = o /\ job'[p].call = job[p].call
  BY <1>1, <1>4, GotoFacts, CallKept DEF TypeOK
<1>6. Taking(p)
  BY DEF Name, Taking, HasOp, OpPhases
<1>7. UNCHANGED <<db, epoch, swept, content>>
  BY DEF Name, files, history
<1>8. Noted(o, w)'
  <2>1. PICK n : n = Len(index) + 1
    OBVIOUS
  <2>2. index'[n] = rec /\ n \in 1..flushed'
    BY <1>4, <2>1, AppendOk DEF TypeOK
  <2> QED
    BY <1>3, <2>2 DEF Noted, Taken
<1>9. job[p].call.tool = "write" => Before(o, w)'
  <2>1. Step(p) /\ content'[o] = content[o]
    BY <1>7 DEF Step, Advance, Outcomes
  <2>2. job[p].call.tool = "write" => Before(o, w)
    BY <1>1, <1>2, <1>6 DEF Placing
  <2> QED
    BY <2>1, <2>2, BeforeKept
<1>10. content[o] = [epoch |-> epoch, db |-> db]
  BY <1>1, <1>6 DEF Placing
<1> QED
  BY <1>2, <1>5, <1>7, <1>8, <1>9, <1>10 DEF Placing, Taking

LEMMA RestorePlaced ==
  ASSUME CopyInv, TypeOK', NEW p \in Procs, NEW b \in Ops, RestoreBegin(p, b, "ok")
  PROVE  Placing(p)'
<1> USE DEF CopyInv, BookInv, SafeInv
<1> DEFINE rec == [Line("restore", minted + 1, "pending") EXCEPT !.of = b]
<1>1. PICK o : o = minted + 1
  OBVIOUS
<1>2. rec.kind = "restore" /\ rec.op = o /\ rec.state = "pending" /\ rec.of = b
  BY <1>1 DEF Line
<1>3. AppendRecord(rec, "ok") /\ GotoWith(p, "restoring", o)
  BY <1>1 DEF RestoreBegin
<1> HIDE DEF rec
<1>4. job'[p].pc = "restoring" /\ job'[p].op = o
  BY <1>3, GotoWithFacts DEF TypeOK
<1>5. /\ \A i \in DOMAIN index' : i \in DOMAIN index \/ i = Len(index) + 1
      /\ \A i \in DOMAIN index : index'[i] = index[i] /\ index[i].op # o
      /\ index'[Len(index) + 1] = rec
  <2>1. index' = Append(index, rec)
    BY <1>3, AppendOk
  <2>2. \A i \in DOMAIN index : index[i].op # o
    BY <1>1, FreshOp
  <2>3. \A i \in DOMAIN index : index'[i] = index[i]
    BY <2>1 DEF TypeOK
  <2>4. index'[Len(index) + 1] = rec
    BY <2>1 DEF TypeOK
  <2>5. \A i \in DOMAIN index' : i \in DOMAIN index \/ i = Len(index) + 1
    BY <2>1 DEF TypeOK
  <2> QED
    BY <2>2, <2>3, <2>4, <2>5
<1>6. ASSUME NEW c, RestoreOf(o, c)' PROVE c = b
  <2>1. PICK i \in DOMAIN index' : index'[i].op = o /\ index'[i].of = c
    BY <1>6 DEF RestoreOf
  <2>2. index'[i] = rec
    BY <1>5, <2>1
  <2> QED
    BY <1>2, <2>1, <2>2
<1>7. dir'[b] = "final"
  BY DEF RestoreBegin, Restorable, files
<1>8. Durable("backup", b, "pending")'
  <2>1. PICK j \in DOMAIN index : index[j].op = b /\ IsCopy(j)
    BY DEF RestoreBegin, Restorable, Has, IsCopy
  <2>2. Has("backup", b, "pending")
    BY <2>1 DEF IndexInv, Begun, IsCopy, Opening, SameOp, Has
  <2> QED
    BY <1>3, <2>2, FlushedWith
<1> QED
  BY <1>4, <1>6, <1>7, <1>8 DEF Placing, Taking

LEMMA PlacingSpeaks ==
  ASSUME CopyInv, TypeOK', NEW p \in Procs, NEW out \in Outcomes, Speaks(p, out)
  PROVE  Placing(p)'
<1> USE DEF CopyInv, BookInv, SafeInv
<1> PICK o : o = job[p].op
  OBVIOUS
<1>1. ASSUME Leave(p) PROVE Placing(p)'
  BY <1>1, LeaveFacts, NotPlacing DEF TypeOK
<1>2. ASSUME Goto(p, "prune") PROVE Placing(p)'
  BY <1>2, GoneOn DEF TypeOK
<1>3. ASSUME UNCHANGED job, job[p].pc \in {"prune", "settle"} PROVE Placing(p)'
  BY <1>3, NotPlacing
<1>4. ASSUME job'[p].pc = "sweep", job'[p].op = o, job[p].pc = "sweep", swept' = swept
      PROVE Placing(p)'
  <2>1. o \in swept
    BY <1>4 DEF Placing
  <2> QED
    BY <1>4, <2>1 DEF Placing, Taking
<1>5. ASSUME Name(p, out) PROVE Placing(p)'
  BY <1>1, <1>5, NamePlaced DEF Name
<1>6. ASSUME NEW n, GotoWith(p, "erasing", n) \/ GotoWith(p, "settle", n)
      PROVE Placing(p)'
  <2>1. job'[p].pc \in {"erasing", "settle"}
    BY <1>6, CallKept DEF TypeOK
  <2> QED
    BY <2>1, NotPlacing
<1>7. ASSUME NEW b \in Ops, RecordAbsent(p, b, out), out = "ok" PROVE Placing(p)'
  BY <1>4, <1>7 DEF RecordAbsent, history
<1>8. ASSUME NEW f \in Files, SweepFile(p, f, out), out = "ok" PROVE Placing(p)'
  <2>1. job'[p].pc = "sweep" /\ job'[p].op = o /\ job[p].pc = "sweep"
    BY <1>8 DEF SweepFile, TypeOK, Job
  <2> QED
    BY <1>4, <1>8, <2>1 DEF SweepFile, history
<1>9. ASSUME NEW b \in Ops, RestoreBegin(p, b, out) PROVE Placing(p)'
  BY <1>1, <1>9, RestorePlaced DEF RestoreBegin
<1>10. ASSUME EraseBegin(p, out) \/ SweepDone(p, out) PROVE Placing(p)'
  BY <1>1, <1>6, <1>10 DEF EraseBegin, SweepDone
<1> QED
  BY <1>1, <1>2, <1>3, <1>5, <1>7, <1>8, <1>9, <1>10
     DEF Speaks, PlaceFails, CommitFails, Close, RestoreClose, SettleBackup,
     SettleRestore, Prune, RecordAbsent, SweepFile

LEMMA PlacingOfOthers ==
  ASSUME CopyInv, TypeOK', NEW p \in Procs, NEW q \in Procs \ {p}, Step(p)
  PROVE  Placing(q)'
<1> USE DEF CopyInv, BookInv, SafeInv
<1>1. job'[q] = job[q]
  BY Turns DEF Turn, Step
<1>2. CASE job[q].pc \notin Locked
  BY <1>1, <1>2, NotPlacing DEF Locked, Phases
<1>3. CASE job[q].pc \in Locked
  <2>1. job[p].pc \notin Locked
    BY <1>3 DEF LockHeld
  <2>2. UNCHANGED <<db, index, dir, onDisk, content, epoch, swept>>
    BY <2>1, Outside DEF Step
  <2>3. PICK o : o = job[q].op
    OBVIOUS
  <2>4. PICK w : w = job[q].call.reason
    OBVIOUS
  <2>5. Noted(o, w) => Noted(o, w)'
    BY StepWrote, NotedKept
  <2>6. Before(o, w) => Before(o, w)'
    BY <2>2, BeforeKept
  <2>7. \A b : Durable("backup", b, "pending") => Durable("backup", b, "pending")'
    BY StepWrote, DurableKept
  <2>8. \A b : RestoreOf(o, b)' <=> RestoreOf(o, b)
    BY <2>2 DEF RestoreOf
  <2> QED
    BY <1>1, <2>2, <2>3, <2>4, <2>5, <2>6, <2>7, <2>8 DEF Placing, Taking
<1> QED
  BY <1>2, <1>3

-----------------------------------------------------------------------------
(* The invariant.                                                          *)

LEMMA CopiesCut ==
  ASSUME CopyInv, TypeOK', PowerLoss
  PROVE  /\ Registrations' /\ Filed' /\ SweptMinted'
         /\ \A p \in Procs : Placing(p)'
<1> USE DEF CopyInv, BookInv, SafeInv
<1>1. UNCHANGED <<db, content, minted, swept>>
  BY DEF PowerLoss, history
<1>2. ASSUME NEW b, NEW w, Noted(b, w) PROVE Noted(b, w)'
  BY <1>2, NotedSurvives
<1>3. ASSUME NEW b \in Ops
      PROVE  /\ Has("backup", b, "orphan")' => Has("backup", b, "orphan")
             /\ Stood(b) => Stood(b)'
  <2>1. \A s : Has("backup", b, s)' => Has("backup", b, s)
    BY Prefix DEF Has
  <2>2. onDisk[b] = {"final"} => onDisk'[b] = {"final"}
    BY OpsAreFiles DEF PowerLoss
  <2> QED
    BY <1>1, <2>1, <2>2 DEF Stood, SweptAfter
<1>4. ASSUME NEW b, NEW w, Before(b, w) PROVE Before(b, w)'
  BY <1>1, <1>2, <1>4 DEF Before
<1>5. ASSUME NEW ledger, Sound(ledger),
             \A w \in Workflows : ledger.regs[w] \in Ops \cup {NoOp}
      PROVE  Sound(ledger)'
  BY <1>3, <1>4, <1>5 DEF Sound
<1>6. Registrations'
  <2>1. PICK ledger : ledger = db
    OBVIOUS
  <2>2. Sound(ledger)'
    BY <1>5, <2>1 DEF Registrations, TypeOK, Ledgers
  <2>3. \A w \in Workflows : ledger.regs[w] # NoOp => Noted(ledger.regs[w], w)'
    BY <1>2, <2>1 DEF Registrations
  <2> QED
    BY <1>1, <2>1, <2>2, <2>3 DEF Registrations, Sound
<1>7. Filed'
  <2> SUFFICES ASSUME NEW j \in DOMAIN index', index'[j].kind = "backup",
                      index'[j].state = "pending",
                      NEW ledger, ledger = content'[index'[j].op].db
               PROVE  FiledAt(ledger, j)'
    BY DEF Filed, FiledAt, Sound, Opening
  <2>1. /\ j \in DOMAIN index /\ index'[j] = index[j]
        /\ \A i \in DOMAIN index : i < j => i \in DOMAIN index' /\ index'[i] = index[i]
    BY Prefix
  <2>2. ledger = content[index[j].op].db /\ FiledAt(ledger, j)
    BY <1>1, <2>1 DEF Filed, Opening
  <2>3. Sound(ledger)'
    BY <1>5, <2>1, <2>2, CopyDb DEF FiledAt
  <2> QED
    BY <2>1, <2>2, <2>3 DEF FiledAt, Taken
<1>8. SweptMinted'
  BY <1>1 DEF SweptMinted
<1>9. \A p \in Procs : Placing(p)'
  BY DEF PowerLoss, Idle, Placing, Taking
<1> QED
  BY <1>6, <1>7, <1>8, <1>9

LEMMA CopyInit == Init => CopyInv
<1> SUFFICES ASSUME Init PROVE CopyInv
  OBVIOUS
<1>1. Registrations
  BY DEF Init, EmptyLedger, Registrations, Sound
<1>2. Filed
  BY DEF Init, Filed
<1>3. SweptMinted
  BY DEF Init, SweptMinted
<1>4. \A p \in Procs : Placing(p)
  BY DEF Init, Idle, Placing, Taking
<1> QED
  BY <1>1, <1>2, <1>3, <1>4, BookInit DEF CopyInv

LEMMA CopyNext == CopyInv /\ [Next]_vars => CopyInv'
<1> SUFFICES ASSUME CopyInv, [Next]_vars PROVE CopyInv'
  OBVIOUS
<1>1. BookInv' /\ TypeOK'
  BY BookNext DEF CopyInv, BookInv, SafeInv
<1>2. ASSUME NEW p \in Procs, Step(p) PROVE CopyInv'
  <2>1. Registrations' /\ Filed' /\ SweptMinted'
    BY <1>1, <1>2, RegistrationsKept, FiledKept, SweptMintedKept
  <2>2. Placing(p)'
    BY <1>1, <1>2, SilentOrSpeaks, PlacingSilent, PlacingSpeaks DEF Step
  <2>3. \A q \in Procs \ {p} : Placing(q)'
    BY <1>1, <1>2, PlacingOfOthers
  <2> QED
    BY <1>1, <2>1, <2>2, <2>3 DEF CopyInv
<1>3. CASE PowerLoss
  BY <1>1, <1>3, CopiesCut DEF CopyInv
<1>4. CASE UNCHANGED vars
  <2>1. UNCHANGED <<db, index, flushed, dir, onDisk, content, job, minted, epoch, swept>>
    BY <1>4 DEF vars, records, files, history
  <2>2. /\ \A b, w : Noted(b, w)' <=> Noted(b, w)
        /\ \A k, b, s : Has(k, b, s)' <=> Has(k, b, s)
        /\ \A b, c : RestoreOf(b, c)' <=> RestoreOf(b, c)
        /\ \A k, b, s : Durable(k, b, s)' <=> Durable(k, b, s)
    BY <2>1 DEF Noted, Taken, Has, RestoreOf, Durable
  <2>3. /\ \A b : Stood(b)' <=> Stood(b)
        /\ \A b, w : Before(b, w)' <=> Before(b, w)
    BY <2>1, <2>2 DEF Stood, SweptAfter, Before
  <2>4. \A ledger : Sound(ledger)' <=> Sound(ledger)
    BY <2>2, <2>3 DEF Sound
  <2>5. Registrations'
    BY <2>1, <2>2, <2>3 DEF CopyInv, Registrations, Sound
  <2>6. Filed'
    BY <2>1, <2>2, <2>3 DEF CopyInv, Filed, FiledAt, Sound, Taken, Opening
  <2>7. SweptMinted'
    BY <2>1 DEF CopyInv, SweptMinted
  <2>8. \A p \in Procs : Placing(p)'
    BY <2>1, <2>2, <2>3 DEF CopyInv, Placing, Taking
  <2> QED
    BY <1>1, <2>5, <2>6, <2>7, <2>8 DEF CopyInv
<1> QED
  BY <1>2, <1>3, <1>4 DEF Next, Step

\* The strengthened invariant: BookInv, what the ledger and every copy of it
\* have registered, and what each call relies on of the copy it is taking,
\* restoring or sweeping.
THEOREM Copies == Spec => []CopyInv
BY CopyInit, CopyNext, PTL DEF Spec

-----------------------------------------------------------------------------
(* What the copies hold.                                                   *)

\* Neither retention, settlement, a failed step nor a power loss takes a
\* registered copy away: only the sweep of a later erasure
\* (RegisteredCopyStands).
THEOREM RegisteredCopyAlwaysStands == Spec => []RegisteredCopyStands
<1>1. CopyInv => RegisteredCopyStands
  BY DEF CopyInv, Registrations, Sound, Stood, SweptAfter, RegisteredCopyStands
<1> QED
  BY Copies, <1>1, PTL

\* A workflow with writes in the ledger has a restore point from before its
\* first write, or an erasure swept that one away (RestorePointPrecedes).
THEOREM RestorePointAlwaysPrecedes == Spec => []RestorePointPrecedes
<1>1. CopyInv => RestorePointPrecedes
  <2> SUFFICES ASSUME CopyInv, NEW w \in db.wrote
               PROVE  /\ db.regs[w] # NoOp
                      /\ \/ w \notin content[db.regs[w]].db.wrote
                         \/ \E b \in Ops, e \in swept :
                              b < e /\ e < db.regs[w] /\ TakenFor(b, w)
    BY DEF RestorePointPrecedes
  <2>1. w \in Workflows
    BY DEF CopyInv, BookInv, SafeInv, TypeOK, Ledgers
  <2>2. db.regs[w] # NoOp /\ Before(db.regs[w], w)
    BY <2>1 DEF CopyInv, Registrations, Sound
  <2> QED
    BY <2>2, NotedThere DEF Before, CopyInv, BookInv, SafeInv
<1> QED
  BY Copies, <1>1, PTL

\* A scoped erasure commits only over a durable, recorded copy of exactly the
\* ledger it erases from (ScopedErasureKeepsCopy).
THEOREM ScopedErasureAlwaysKeepsCopy == Spec => ScopedErasureKeepsCopy
<1>1. CopyInv =>
        \A p \in Procs :
          (job[p].pc = "staged" /\ job[p].call.tool = "scoped"
             /\ job'[p].pc = "closing")
          => /\ content[job[p].op].db = db
             /\ onDisk[job[p].op] = {"final"}
             /\ \E i \in 1..flushed : index[i].op = job[p].op
  <2> SUFFICES ASSUME CopyInv, NEW p \in Procs, job[p].pc = "staged",
                      job[p].call.tool = "scoped"
               PROVE  /\ content[job[p].op].db = db
                      /\ onDisk[job[p].op] = {"final"}
                      /\ \E i \in 1..flushed : index[i].op = job[p].op
    OBVIOUS
  <2>1. Placing(p)
    BY DEF CopyInv
  <2>2. job[p].op # NoOp /\ onDisk[job[p].op] = {"final"}
    BY <2>1 DEF Placing
  <2>3. Taking(p)
    BY <2>2 DEF Taking
  <2>4. content[job[p].op].db = db
    BY <2>1, <2>3 DEF Placing
  <2>5. Noted(job[p].op, job[p].call.reason)
    BY <2>1, <2>3 DEF Placing
  <2> QED
    BY <2>2, <2>4, <2>5 DEF Noted, Taken
<1> QED
  BY Copies, <1>1, PTL DEF Spec, ScopedErasureKeepsCopy

-----------------------------------------------------------------------------
(* The refinement of RestorePoints: what each step is there.               *)

Points == {Rows(content[b].db) :
             b \in {o \in Ops : "final" \in onDisk[o] /\ content[o].epoch = epoch}}

LEMMA NewPoints ==
  ASSUME epoch' = epoch, NEW rows,
         \A b \in Ops : "final" \in onDisk'[b] =>
           \/ "final" \in onDisk[b] /\ content'[b] = content[b]
           \/ Rows(content'[b].db) = rows
  PROVE  Points' \subseteq Points \cup {rows}
<1> SUFFICES ASSUME NEW b \in Ops, "final" \in onDisk'[b], content'[b].epoch = epoch
             PROVE  Rows(content'[b].db) \in Points \cup {rows}
  BY DEF Points, Rows
<1> QED
  BY DEF Points

LEMMA FewerPoints ==
  ASSUME UNCHANGED <<content, epoch>>,
         \A b \in Ops : "final" \in onDisk'[b] => "final" \in onDisk[b]
  PROVE  Points' \subseteq Points
BY DEF Points, Rows

LEMMA Stutters ==
  ASSUME UNCHANGED <<db, onDisk, content, epoch, restored, seen, life>>
  PROVE  UNCHANGED Promise!vars
BY DEF Promise!vars, Rows

LEMMA TakesPoint ==
  ASSUME UNCHANGED <<db, restored, seen, life>>,
         Points' \subseteq Points \cup {Rows(db)}
  PROVE  Promise!Next
<1>1. Promise!TakePoint
  BY DEF Promise!TakePoint, Points, Rows
<1> QED
  BY <1>1 DEF Promise!Next

\* A pass reads the generation, or nobody does.
LEMMA Reads ==
  ASSUME UNCHANGED <<db, restored, life>>, Points' \subseteq Points,
         CommittedRestores = restored, MayBind
  PROVE  Promise!Next
<1>1. CASE UNCHANGED seen
  BY <1>1, TakesPoint
<1>2. ASSUME NEW w \in Workflows, seen' = [seen EXCEPT ![w] = Generation]
      PROVE  Promise!Next
  <2>1. Promise!ReadGeneration(w)
    BY <1>2 DEF Promise!ReadGeneration, Points, Rows, Generation
  <2> QED
    BY <2>1 DEF Promise!Next
<1> QED
  BY <1>1, <1>2 DEF MayBind

LEMMA UnlinkFinal ==
  ASSUME TypeOK, NEW f \in Files, Unlink(f)
  PROVE  content' = content /\ \A b \in Ops : "final" \in onDisk'[b] => "final" \in onDisk[b]
BY OpsAreFiles DEF Unlink, TypeOK

LEMMA FlushFinal ==
  ASSUME TypeOK, FlushDir, dir' = dir
  PROVE  \A b \in Ops : "final" \in onDisk'[b] => "final" \in onDisk[b]
BY OpsAreFiles DEF FlushDir, TypeOK

\* A record, an unlink or a flush takes points at most.
LEMMA SpeaksPromise ==
  ASSUME CopyInv, NEW p \in Procs, NEW out \in Outcomes, Speaks(p, out)
  PROVE  Promise!Next
<1> USE DEF CopyInv, BookInv, SafeInv
<1>1. UNCHANGED <<db, seen, restored, life, epoch, content>>
  BY DEF Speaks, Name, PlaceFails, CommitFails, Close, RestoreClose, EraseBegin,
     SweepDone, SettleBackup, SettleRestore, Prune, RestoreBegin, RecordAbsent,
     SweepFile, Unlink, files, history
<1>2. ASSUME UNCHANGED onDisk
      PROVE  \A b \in Ops : "final" \in onDisk'[b] => "final" \in onDisk[b]
  BY <1>2
<1>3. ASSUME NEW f \in Files, Unlink(f)
      PROVE  \A b \in Ops : "final" \in onDisk'[b] => "final" \in onDisk[b]
  BY <1>3, UnlinkFinal
<1>4. ASSUME SweepDone(p, out)
      PROVE  \A b \in Ops : "final" \in onDisk'[b] => "final" \in onDisk[b]
  BY <1>4, FlushFinal DEF SweepDone
<1>5. Name(p, out) \/ PlaceFails(p, out) => job[p].op \in Files
  BY OpTyped, OpsAreFiles DEF Name, PlaceFails, OpPhases
<1>6. \A b \in Ops : "final" \in onDisk'[b] => "final" \in onDisk[b]
  BY <1>2, <1>3, <1>4, <1>5, OpsAreFiles
     DEF Speaks, Name, PlaceFails, CommitFails, Close, RestoreClose, EraseBegin,
     SettleBackup, SettleRestore, Prune, RestoreBegin, RecordAbsent,
     SweepFile, files
<1>7. Points' \subseteq Points
  BY <1>1, <1>6, FewerPoints
<1> QED
  BY <1>1, <1>7, TakesPoint

LEMMA CopyPromise ==
  ASSUME CopyInv, NEW p \in Procs, Copy(p) \/ Place(p)
  PROVE  Promise!Next
<1> USE DEF CopyInv, BookInv, SafeInv
<1>1. UNCHANGED <<db, seen, restored, life, epoch>>
  BY DEF Copy, Place, history
<1>2. PICK rows : rows = Rows(db)
  OBVIOUS
<1>3. ASSUME NEW b \in Ops, "final" \in onDisk'[b]
      PROVE  \/ "final" \in onDisk[b] /\ content'[b] = content[b]
             \/ Rows(content'[b].db) = rows
  <2>1. CASE Copy(p)
    <3>1. PICK n \in Ops : n = minted + 1
      BY <2>1, NextOp DEF Copy, TypeOK
    <3>2. /\ content'[n].db = db
          /\ b # n => content'[b] = content[b] /\ onDisk'[b] = onDisk[b]
      BY <2>1, <3>1, OpsAreFiles DEF Copy, TypeOK
    <3> QED
      BY <1>2, <1>3, <3>2
  <2>2. CASE Place(p)
    <3>1. content' = content
      BY <2>2 DEF Place
    <3>2. CASE b = job[p].op
      <4>1. Taking(p)
        BY <2>2 DEF Place, Taking, HasOp, OpPhases
      <4>2. content[b].db = db
        BY <3>2, <4>1 DEF Placing
      <4> QED
        BY <1>2, <3>1, <4>2
    <3>3. CASE b # job[p].op
      <4>1. "final" \in onDisk[b]
        BY <1>3, <2>2, <3>3, OpsAreFiles DEF Place, FlushDir, TypeOK
      <4> QED
        BY <3>1, <4>1
    <3> QED
      BY <3>2, <3>3
  <2> QED
    BY <2>1, <2>2
<1>4. Points' \subseteq Points \cup {rows}
  BY <1>1, <1>3, NewPoints
<1> QED
  BY <1>1, <1>2, <1>4, TakesPoint

LEMMA CommitPromise ==
  ASSUME CopyInv, NEW p \in Procs, Commit(p)
  PROVE  Promise!Next \/ UNCHANGED Promise!vars
<1> USE DEF CopyInv, BookInv, SafeInv
<1>1. UNCHANGED <<onDisk, content, epoch, restored, seen, life>>
  BY DEF Commit, files, history
<1>2. db \in Ledgers /\ db' = Staged(p)
  BY DEF Commit, TypeOK
<1>3. Points' = Points
  BY <1>1 DEF Points, Rows
<1>4. CASE job[p].call.tool = "write"
  <2>1. PICK w \in Workflows : w = job[p].call.reason
    BY <1>4, WriteCall
  <2>2. seen[w] = Cardinality(restored)
    BY <1>4, <2>1 DEF InPhase, Commit
  <2>3. db'.life = db.life /\ db'.wrote = db.wrote \cup {w}
    BY <1>2, <1>4, <2>1 DEF Staged, Ledgers
  <2>4. Rows(db)' = [Rows(db) EXCEPT !.wrote = @ \cup {w}]
    BY <2>3 DEF Rows
  <2>5. Promise!Write(w)
    BY <1>1, <1>3, <2>2, <2>4 DEF Promise!Write, Points
  <2> QED
    BY <2>5 DEF Promise!Next
<1>5. CASE job[p].call.tool = "scoped"
  <2>1. job[p].op # NoOp /\ onDisk[job[p].op] = {"final"} /\ Taking(p)
    BY <1>5 DEF Commit, Placing, Taking
  <2>2. PICK b \in Ops : b = job[p].op
    BY <2>1 DEF TypeOK, Job
  <2>3. content[b] = [epoch |-> epoch, db |-> db]
    BY <2>1, <2>2 DEF Placing
  <2>4. Rows(db) \in Points
    BY <2>1, <2>2, <2>3 DEF Points
  <2>5. Rows(db)' = [Rows(db) EXCEPT !.wrote = {}]
    BY <1>2, <1>5 DEF Staged, Rows, Ledgers
  <2>6. Promise!ScopedErase
    BY <1>1, <1>3, <2>4, <2>5 DEF Promise!ScopedErase, Points
  <2> QED
    BY <2>6 DEF Promise!Next
<1>6. CASE job[p].call.tool \notin {"write", "scoped"}
  <2>1. db' = db
    BY <1>2, <1>6 DEF Staged
  <2> QED
    BY <1>1, <2>1, Stutters
<1> QED
  BY <1>4, <1>5, <1>6

LEMMA RestorePromise ==
  ASSUME CopyInv, NEW p \in Procs, NEW b \in Ops, RestoreCommit(p, b)
  PROVE  Promise!Next
<1> USE DEF CopyInv, BookInv, SafeInv
<1>1. UNCHANGED <<onDisk, content, epoch, seen, life>>
  BY DEF RestoreCommit, files
<1>2. dir[b] = "final" /\ content[b].epoch = epoch
  BY DEF RestoreCommit, Placing, Working
<1>3. "final" \in onDisk[b]
  BY <1>2, OpsAreFiles DEF TypeOK
<1>4. Rows(db)' = Rows(content[b].db)
  BY DEF RestoreCommit, Rows
<1>5. Rows(db)' \in Points
  BY <1>2, <1>3, <1>4 DEF Points
<1>6. Points' = Points
  BY <1>1 DEF Points, Rows
<1>7. Cardinality(restored') = Cardinality(restored) + 1
  <2>1. IsFiniteSet(restored)
    <3>1. IsFiniteSet(Ops)
      BY FS_Interval, BackupsAssumption DEF Ops
    <3> QED
      BY <3>1, FS_Subset DEF TypeOK
  <2>2. restored' = restored \cup {job[p].op} /\ job[p].op \notin restored
    BY DEF RestoreCommit, InPhase
  <2> QED
    BY <2>1, <2>2, FS_AddElement
<1>8. Promise!Restore
  BY <1>1, <1>5, <1>6, <1>7 DEF Promise!Restore, Points
<1> QED
  BY <1>8 DEF Promise!Next

LEMMA ErasePromise ==
  ASSUME CopyInv, NEW p \in Procs, EraseCommit(p)
  PROVE  Promise!Next
<1> USE DEF CopyInv, BookInv, SafeInv
<1>1. UNCHANGED <<onDisk, content, seen, restored>> /\ epoch' = epoch + 1
  BY DEF EraseCommit, files
<1>2. Points' = {}
  <2>1. \A b \in Ops : content'[b].epoch # epoch'
    BY <1>1, OpsAreFiles DEF Aged, TypeOK
  <2> QED
    BY <2>1 DEF Points
<1>3. CASE job[p].call.tool = "erase"
  <2>1. life' = life + 1 /\ Rows(db)' = [life |-> life', wrote |-> {}]
    BY <1>3 DEF EraseCommit, EmptyLedger, Rows
  <2>2. Promise!TotalErase
    BY <1>1, <1>2, <2>1 DEF Promise!TotalErase, Points
  <2> QED
    BY <2>2 DEF Promise!Next
<1>4. CASE job[p].call.tool # "erase"
  BY <1>1, <1>2, <1>4, TakesPoint DEF EraseCommit
<1> QED
  BY <1>3, <1>4

\* The generation a listing prints is exact also while an erasure is open.
LEMMA ReadPromise ==
  ASSUME CopyInv, NEW p \in Procs, List(p) \/ SweepIncomplete(p)
  PROVE  Promise!Next
<1> USE DEF CopyInv, BookInv, SafeInv
<1>1. UNCHANGED <<db, content, epoch, restored, life>> /\ MayBind
  BY DEF List, SweepIncomplete, files, history, MayBind
<1>2. \A b \in Ops : "final" \in onDisk'[b] => "final" \in onDisk[b]
  BY FlushFinal DEF List, SweepIncomplete, files
<1>3. Points' \subseteq Points
  BY <1>1, <1>2, FewerPoints
<1>4. \A r \in Ops : ~Open("restore", r)
  <2>1. CASE List(p)
    BY <2>1 DEF List, Ready, NothingOpen
  <2>2. CASE SweepIncomplete(p)
    <3>1. Open("erase", job[p].op) /\ job[p].op \in Ops
      BY <2>2, OpTyped DEF SweepIncomplete, InPhase, OpPhases
    <3> QED
      BY <3>1, OneIsOpen DEF OneOpen
  <2> QED
    BY <2>1, <2>2
<1>5. CommittedRestores = restored
  BY <1>4, CountedExactly
<1> QED
  BY <1>1, <1>3, <1>5, Reads

LEMMA SilentPromise ==
  ASSUME CopyInv, NEW p \in Procs, Silent(p)
  PROVE  Promise!Next \/ UNCHANGED Promise!vars
<1>1. \/ Copy(p) \/ Place(p) \/ Commit(p) \/ EraseCommit(p) \/ List(p)
      \/ SweepIncomplete(p) \/ (\E b \in Ops : RestoreCommit(p, b))
      \/ UNCHANGED <<db, onDisk, content, epoch, restored, seen, life>>
  BY DEF Silent, Begin, Busy, RefuseEarly, Acquire, AcquireFails, Refuse,
     StageWrite, PruneDone, Crash, SettleErase, SweepStuck, files, history
<1> QED
  BY <1>1, CopyPromise, CommitPromise, ErasePromise, ReadPromise, RestorePromise,
     Stutters

LEMMA PowerLossPromise ==
  ASSUME CopyInv, PowerLoss
  PROVE  Promise!Next
<1>1. UNCHANGED <<db, content, seen, restored, life, epoch>>
  BY DEF PowerLoss, history
<1>2. \A b \in Ops : "final" \in onDisk'[b] => "final" \in onDisk[b]
  BY OpsAreFiles DEF PowerLoss
<1>3. Points' \subseteq Points
  BY <1>1, <1>2, FewerPoints
<1> QED
  BY <1>1, <1>3, TakesPoint

\* Backups implements RestorePoints: whatever crashes, fails or is taken back,
\* a restore brings back the rows of some copy taken since the last erasure,
\* an erasure takes every such point with it, a scoped erasure leaves one of
\* what it erased, and a pass behind a restore writes nothing (KeepsPromise).
THEOREM BackupsKeepPromise == Spec => KeepsPromise
<1>1. Init => Promise!Init
  <2> SUFFICES ASSUME Init PROVE Promise!Init
    OBVIOUS
  <2>1. Rows(db) = [life |-> 0, wrote |-> {}] /\ life = 0
        /\ seen = [w \in Workflows |-> 0] /\ restored = {}
    BY DEF Init, EmptyLedger, Rows
  <2>2. \A b \in Ops : "final" \notin onDisk[b]
    <3>1. \A b \in Ops : dir[b] = "none"
      BY BackupsAssumption, OpsAreFiles DEF Init, Ops, Snapshot
    <3> QED
      BY <3>1, OpsAreFiles DEF Init
  <2>3. Points = {}
    BY <2>2 DEF Points
  <2>4. Cardinality(restored) = 0
    BY <2>1, FS_EmptySet
  <2> QED
    BY <2>1, <2>3, <2>4 DEF Promise!Init, Points
<1>2. CopyInv /\ [Next]_vars => [Promise!Next]_(Promise!vars)
  <2> SUFFICES ASSUME CopyInv, [Next]_vars PROVE [Promise!Next]_(Promise!vars)
    OBVIOUS
  <2>1. ASSUME NEW p \in Procs, Step(p) PROVE [Promise!Next]_(Promise!vars)
    BY <2>1, SilentOrSpeaks, SilentPromise, SpeaksPromise DEF Step
  <2>2. CASE UNCHANGED vars
    BY <2>2, Stutters DEF vars, files, history
  <2> QED
    BY <2>1, <2>2, PowerLossPromise DEF Next, Step
<1> QED
  BY <1>1, <1>2, Copies, PTL DEF Spec, KeepsPromise, Promise!Spec

=============================================================================
