------------------------------- MODULE Ledger -------------------------------
(***************************************************************************)
(* The ledger of one account and the runs that write it.                   *)
(*                                                                         *)
(* Routine refreshes (tools_refresh.py), authorization-time deep fetches   *)
(* (flows.py), the transaction that lands a plan (apply.py), the evidence  *)
(* about references (provenance.py), the refresh claim and the sync health *)
(* record (tools_auth.py), and the operator's erasures, rules and tags     *)
(* (tools_destructive.py, tools_rules.py, tools_annotate.py).  What a plan *)
(* is, Ingest says; what a rule adds, Rules says.                          *)
(*                                                                         *)
(* Every process runs one call at a time.  A step of a run is one database *)
(* statement, one transaction or one answer of the bank: between two steps *)
(* any other process may commit.  The database is one record, `db`.        *)
(*                                                                         *)
(* `sc` is a scenario: the operations, the bank's moves and the bounds of  *)
(* one small instance.  It is chosen once, so one run of TLC explores a    *)
(* family of instances.                                                    *)
(***************************************************************************)
EXTENDS Ingest, Rules

CONSTANTS
  Procs, Nobody,
  Scenarios,             \* set of scenarios, see TypeOK
  Margin,                \* REFRESH_MARGIN_DAYS
  DefaultWindow,         \* DEFAULT_WINDOW_DAYS
  DeepWindow,            \* BACKFILL_FLOOR_DAYS
  MinSample, MinSpan,    \* MIN_QUALIFYING_REF_TRANSACTIONS, .._SPAN_DAYS
  RefusalsBeforeCheck    \* REFUSALS_BEFORE_CHECK

\* An instance begins in a state a finished call leaves, see Begun, with an
\* account the provider has bound once.
ASSUME ScenariosAssumption ==
  \A s \in Scenarios :
    /\ s.procs \subseteq Procs
    /\ s.linked \in {"no", "empty", "twins", "purged"}
    /\ s.firstDay \in Nat /\ s.later \subseteq Int /\ s.cuts \subseteq Int
    /\ s.bank \in Seq([content : Idents, date : Int, ref : Int,
                       status : {"PDNG", "BOOK", "CNCL"}])
    /\ s.entries \subseteq [content : Idents, age : Int, ref : Int,
                            status : {"PDNG", "BOOK", "CNCL"}]
    /\ s.rules \cup s.offered \subseteq
         [party : Nat, unit : Nat, lo : Nat, hi : Nat, dayLo : Nat, dayHi : Nat,
          tags : SUBSET Tags]
    /\ s.taggings \subseteq SUBSET Tags

ASSUME LimitsAssumption == Margin \in Nat /\ DefaultWindow \in Nat /\ DeepWindow \in Nat

VARIABLES
  sc,       \* the scenario
  today,    \* the day, as a number
  bank,     \* what the bank would list: sequence of [content, date, ref, status]
  db,       \* the ledger file, as far as it concerns this account
  run,      \* the call each process is in
  issued,   \* numbers handed out: life tokens, sessions, row ids, answers, ticks
  left,     \* what remains of the scenario's bounds
  hist      \* history the properties speak of; no action reads it

vars == <<sc, today, bank, db, run, issued, left, hist>>

NoSync == [row |-> FALSE, comp |-> "none", session |-> 0, wait |-> FALSE, recent |-> FALSE]
NoHealth == [session |-> 0, seen |-> 0, failing |-> FALSE, refusals |-> 0, gone |-> FALSE]
NoEvidence == [good |-> FALSE, reuse |-> FALSE]
NoAccount == [live |-> FALSE, life |-> 0, session |-> 0]
NoClaim == [by |-> Nobody, old |-> FALSE]
NoRows == [i \in {} |-> 0]
NoAlloc == [x \in Idents |-> 0]
NoFigures == [answer |-> 0, types |-> {}, bad |-> FALSE]
NoView == [rows |-> NoRows, win |-> {}, below |-> {}, ends |-> NoRows, trusted |-> FALSE]

Idle == [pc |-> "idle", kind |-> "none", held |-> Nobody, life |-> 0, session |-> 0,
         old |-> 0, started |-> 0, standing |-> NoSync, from |-> 0, end |-> 0,
         page |-> <<>>, out |-> "none", view |-> NoView, alloc |-> NoAlloc,
         figures |-> NoFigures]

-----------------------------------------------------------------------------
(* What the run of a process may still write.                              *)

\* Mutant of Lives: the account is there, whichever life it is living.
LivesAnyLife(p) == db.acct.live

\* The life fence: the account still lives the life this run captured.
Lives(p) == db.acct.live /\ db.acct.life = run[p].life

\* A late write, conditioned on the fence in its own statement.
Fenced(p, new) == db' = IF Lives(p) THEN new ELSE db

Goto(p, pc) == run' = [run EXCEPT ![p].pc = pc]
Deep(p) == run[p].kind \in {"link", "renew"}
Reply(p, out, pc) == run' = [run EXCEPT ![p].out = out, ![p].pc = pc]

\* Where a run continues when flows.backfill has returned or raised.
AfterFetch(p) == CASE run[p].kind = "renew" -> "ready"
                   [] run[p].kind = "link" -> "release"
                   [] OTHER -> "restore"
AfterError(p) == IF Deep(p) THEN "release" ELSE "note"

-----------------------------------------------------------------------------
(* Reference evidence.                                                     *)

\* The references of one answer, restatements counted once.
Measure(page) ==
  LET refs == {page[k].ref : k \in DOMAIN page} \ {NoRef}
      Of(ref) == {k \in DOMAIN page : page[k].ref = ref}
      BandsOf(ref) == UNION {ToSet(Bands([page |-> page], {l \in Of(ref) :
                               page[l].content = page[k].content})) : k \in Of(ref)}
      anchors == {page[band[1]].date : band \in UNION {BandsOf(ref) : ref \in refs}}
  IN [n |-> Cardinality(UNION {BandsOf(ref) : ref \in refs}),
      reused |-> \E ref \in refs : Cardinality(BandsOf(ref)) > 1,
      span |-> IF anchors = {} THEN 0 ELSE Max(anchors) - Min(anchors)]

\* Mutant of Trusted: a sighting of reuse does not demote.
TrustedOnceGranted(evid) == evid.good

\* One qualifying deep observation grants, any sighting of reuse demotes.
Trusted(evid) == evid.good /\ ~evid.reuse

\* The evidence once this run has filed what it measured.
Observed(p, m) ==
  [good |-> \/ db.evid.good
            \/ Deep(p) /\ ~m.reused /\ m.n >= MinSample /\ m.span >= MinSpan,
   reuse |-> db.evid.reuse \/ m.reused]

-----------------------------------------------------------------------------
(* A run: admission, the single-flight claim and the captured account.     *)

\* Admission reads the provider's wait and, for a read's refresh, our own
\* minimum interval; a deferral writes nothing.
Admit(p, kind, automatic) ==
  /\ run[p].pc = "idle" /\ kind \in sc.kinds \ {"link", "renew"}
  /\ left.runs > 0 /\ ~db.sync.wait
  /\ automatic => ~db.sync.recent
  /\ run' = [run EXCEPT ![p].pc = "admitted", ![p].kind = kind]
  /\ left' = [left EXCEPT !.runs = @ - 1]
  /\ UNCHANGED <<sc, today, bank, db, issued, hist>>

\* claim_refresh reads the claim, and writes its own in a second statement.
ReadClaim(p) ==
  /\ run[p].pc = "admitted"
  /\ IF db.claim.by # Nobody /\ ~db.claim.old
     THEN run' = [run EXCEPT ![p] = Idle]
     ELSE Goto(p, "claiming")
  /\ UNCHANGED <<sc, today, bank, db, issued, left, hist>>

WriteClaim(p) ==
  /\ run[p].pc = "claiming"
  /\ db' = [db EXCEPT !.claim = [by |-> p, old |-> FALSE]]
  /\ Goto(p, "claimed")
  /\ UNCHANGED <<sc, today, bank, issued, left, hist>>

\* _claim reads back the record it holds, which another process may have
\* replaced or removed meanwhile; then one read of the account row supplies
\* the session and the life token of the whole run.
Capture(p) ==
  /\ run[p].pc = "claimed"
  /\ IF db.claim = NoClaim THEN run' = [run EXCEPT ![p] = Idle] /\ UNCHANGED issued
     ELSE /\ issued' = [issued EXCEPT !.tick = @ + 1]
          /\ run' = [run EXCEPT
               ![p].held = db.claim.by, ![p].life = db.acct.life,
               ![p].session = db.acct.session, ![p].started = issued.tick + 1,
               ![p].out = IF db.acct.session = 0 THEN "failed" ELSE "ok",
               ![p].pc = CASE ~db.acct.live -> "release"
                           [] db.acct.live /\ db.acct.session = 0 -> "note"
                           [] OTHER -> "bound"]
  /\ UNCHANGED <<sc, today, bank, db, left, hist>>

\* The standing finding is read before the attempt stamp creates the row.
Stamp(p) ==
  /\ run[p].pc = "bound"
  /\ run' = [run EXCEPT ![p].standing = [db.sync EXCEPT !.wait = FALSE, !.recent = FALSE],
                        ![p].pc = IF run[p].kind = "balances" THEN "figures" ELSE "window"]
  /\ Fenced(p, [db EXCEPT !.sync.row = @ \/ run[p].kind # "balances", !.sync.recent = TRUE])
  /\ UNCHANGED <<sc, today, bank, issued, left, hist>>

-----------------------------------------------------------------------------
(* The window of a routine refresh.                                        *)

ActiveRows == {i \in DOMAIN db.rows : db.rows[i].state = "active"}

\* Back to the oldest pending or cancelled row the default window can reach.
PendingReach ==
  LET anchors == {i \in DOMAIN db.rows :
                    \/ i \in ActiveRows /\ (Pending(db.rows[i]) \/ Cancelled(db.rows[i]))
                    \/ db.rows[i].state = "cancelled"}
      ages == {today - db.rows[i].date : i \in anchors}
  IN Max({0} \cup {a + Margin : a \in {x \in ages : x >= 0 /\ x + Margin <= DefaultWindow}})

RefreshWindowDays ==
  LET newest == Max({db.rows[i].date : i \in ActiveRows})
  IN IF ActiveRows = {} \/ newest > today THEN DefaultWindow
     ELSE Max({today - newest + Margin, PendingReach})

Window(p) ==
  /\ run[p].pc = "window"
  /\ run' = [run EXCEPT ![p].from = today - (IF Deep(p) THEN DeepWindow ELSE RefreshWindowDays),
                        ![p].end = today + 1, ![p].pc = "asking"]
  /\ UNCHANGED <<sc, today, bank, db, issued, left, hist>>

-----------------------------------------------------------------------------
(* The bank's answer, and the runs that end there.                         *)

\* The bank lists what it was asked for, and sometimes older rows.
Listing(from, older) ==
  FoldLeft(LAMBDA page, r : IF older \/ r.date >= from THEN Append(page, r) ELSE page,
           <<>>, bank)

Answer(p, older) ==
  /\ run[p].pc = "asking" /\ older \in sc.older
  /\ run' = [run EXCEPT ![p].page = Listing(run[p].from, older), ![p].pc = "load"]
  /\ UNCHANGED <<sc, today, bank, db, issued, left, hist>>

NoAnswer(p, out) ==
  /\ run[p].pc = "asking" /\ out \in sc.outcomes \ {"ok"}
  /\ Reply(p, out, "incomplete")
  /\ UNCHANGED <<sc, today, bank, db, issued, left, hist>>

\* A capped or failed fetch proves nothing: partial, the last session kept.
Incomplete(p) ==
  /\ run[p].pc = "incomplete"
  /\ Fenced(p, [db EXCEPT !.sync = [row |-> TRUE, comp |-> "partial", wait |-> FALSE,
                                    session |-> @.session, recent |-> TRUE]])
  /\ Goto(p, IF run[p].out = "capped" THEN AfterFetch(p) ELSE AfterError(p))
  /\ UNCHANGED <<sc, today, bank, issued, left, hist>>

\* The failure of a routine run, and the provider's own wait.
NoteFailure(p) ==
  /\ run[p].pc = "note"
  /\ Fenced(p, [db EXCEPT !.sync.row = @ \/ run[p].kind # "balances",
                          !.sync.wait = @ \/ run[p].out = "limited"])
  /\ Goto(p, IF run[p].kind = "balances" THEN "release" ELSE "health")
  /\ UNCHANGED <<sc, today, bank, issued, left, hist>>

-----------------------------------------------------------------------------
(* What the run loads before it reconciles.                                *)

ActiveEnds ==
  LET End[i \in DOMAIN db.rows] ==
        IF db.rows[i].state = "active" THEN i
        ELSE IF db.rows[i].succ \in DOMAIN db.rows THEN End[db.rows[i].succ] ELSE 0
  IN End

Load(p) ==
  LET r == run[p]
      older == {r.page[k].date : k \in DOMAIN r.page} \cap (Min({0, r.from}) .. r.from - 1)
      belowFrom == Min({r.from} \cup older) - DriftBound
      win == {i \in DOMAIN db.rows : db.rows[i].date >= r.from /\ db.rows[i].date < r.end}
      below == {i \in DOMAIN db.rows :
                  /\ db.rows[i].state \in {"active", "superseded"}
                  /\ db.rows[i].date >= belowFrom /\ db.rows[i].date < r.from}
      chained == {i \in win \cup below : db.rows[i].state = "superseded" /\ ActiveEnds[i] # 0}
  IN /\ r.pc = "load"
     /\ run' = [run EXCEPT
          ![p].view = [rows |-> db.rows, win |-> win, below |-> below, trusted |-> FALSE,
                       ends |-> [i \in chained |-> ActiveEnds[i]]],
          ![p].pc = "measure"]
     /\ UNCHANGED <<sc, today, bank, db, issued, left, hist>>

\* Trust as the ledger and this very answer have it, and the durable
\* occurrence marks, read after the rows.
Allocate(p) ==
  LET Mark(x) == Max({db.alloc[x]} \cup {db.rows[i].occ + 1 :
                       i \in {j \in DOMAIN db.rows : db.rows[j].ident = x}})
  IN /\ run[p].pc = "measure"
     /\ run' = [run EXCEPT
          ![p].view.trusted = Trusted(db.evid) /\ ~Measure(run[p].page).reused,
          ![p].alloc = [x \in Idents |-> Mark(x)],
          ![p].pc = "apply"]
     /\ UNCHANGED <<sc, today, bank, db, issued, left, hist>>

-----------------------------------------------------------------------------
(* Landing a plan: one statement after another, inside one transaction.    *)

Put(f, k, v) == [i \in DOMAIN f \cup {k} |-> IF i = k THEN v ELSE f[i]]
Drop(f, S) == [i \in DOMAIN f \ S |-> f[i]]

\* UNIQUE (account_id, identity_key, occurrence).
Taken(t, id, ident, occ) ==
  \E i \in DOMAIN t.rows \ {id} : t.rows[i].ident = ident /\ t.rows[i].occ = occ

Issue(t, ident, occ) == [t EXCEPT !.alloc[ident] = Max({@, occ + 1})]
Fail(t) == [t EXCEPT !.ok = FALSE]

InsertOne(t, id, ins, life) ==
  IF Taken(t, id, ins.ident, ins.occ) THEN Fail(t)
  ELSE Issue([t EXCEPT !.rows = Put(@, id,
               [content |-> ins.content, date |-> ins.date, ref |-> ins.ref,
                status |-> ins.status, state |-> "active", succ |-> 0,
                ident |-> ins.ident, occ |-> ins.occ, why |-> ins.why,
                tags |-> {}, by |-> life])], ins.ident, ins.occ)

\* Mutant of SupersedeOne: the annotations stay on the superseded row.
SupersedeOneTagsStay(t, u, id) ==
  IF u.id \notin DOMAIN t.rows THEN t
  ELSE IF t.rows[u.id].state # "active" \/ t.rows[u.id].succ # 0 THEN Fail(t)
  ELSE [t EXCEPT !.rows[u.id].state = "superseded", !.rows[u.id].succ = id]

\* Only a row that is still active and has no successor; a row that is gone
\* is skipped.  Tags move to the replacement.
SupersedeOne(t, u, id) ==
  LET old == t.rows[u.id]
      row == [old EXCEPT !.state = "superseded", !.succ = id, !.tags = {},
                         !.why = IF @ = "none" THEN u.why ELSE @]
  IN IF u.id \notin DOMAIN t.rows THEN t
     ELSE IF old.state # "active" \/ old.succ # 0 THEN Fail(t)
     ELSE [t EXCEPT !.rows[u.id] = row, !.rows[id].tags = @ \cup old.tags]

\* Mutant of UpdateOne: the pass's own assessment overwrites a finding.
UpdateOneClearsReview(t, u) ==
  IF u.id \notin DOMAIN t.rows THEN t
  ELSE IF Taken(t, u.id, u.ident, u.occ) THEN Fail(t)
  ELSE Issue([t EXCEPT !.rows[u.id].content = u.row.content, !.rows[u.id].date = u.row.date,
                       !.rows[u.id].ref = u.row.ref, !.rows[u.id].status = u.row.status,
                       !.rows[u.id].ident = u.ident, !.rows[u.id].occ = u.occ,
                       !.rows[u.id].why = u.why], u.ident, u.occ)

\* Whatever state the row is in: identity and content in one statement, a
\* standing finding kept.
UpdateOne(t, u) ==
  LET row == [t.rows[u.id] EXCEPT
                !.content = u.row.content, !.date = u.row.date, !.ref = u.row.ref,
                !.status = u.row.status, !.ident = u.ident, !.occ = u.occ,
                !.why = IF u.why = "none" THEN @ ELSE u.why]
  IN IF u.id \notin DOMAIN t.rows THEN t
     ELSE IF Taken(t, u.id, u.ident, u.occ) THEN Fail(t)
     ELSE Issue([t EXCEPT !.rows[u.id] = row], u.ident, u.occ)

CancelOne(t, i) ==
  IF i \in DOMAIN t.rows /\ t.rows[i].state = "active"
  THEN [t EXCEPT !.rows[i].state = "cancelled"] ELSE t

FlagOne(t, f) == IF f.id \in DOMAIN t.rows THEN [t EXCEPT !.rows[f.id].why = f.why] ELSE t

RuleOne(t, id) ==
  [t EXCEPT !.rows[id].tags = TagsByRules(db.rules, Contents[t.rows[id].content],
                                          t.rows[id].date, @)]

\* The whole plan, or a transaction that failed and is rolled back.
Landed(plan, base, life) ==
  LET If(t, new) == IF t.ok THEN new ELSE t
      ids == [n \in DOMAIN plan.ins |-> base + n]
      t0 == [ok |-> TRUE, rows |-> db.rows, alloc |-> db.alloc]
      t1 == FoldLeft(LAMBDA t, id : If(t, InsertOne(t, id, plan.ins[id - base], life)), t0, ids)
      t2 == FoldLeft(LAMBDA t, u : If(t, IF u.op = "supersede"
                                         THEN SupersedeOne(t, u, base + u.by)
                                         ELSE UpdateOne(t, u)), t1, plan.upd)
      t3 == FoldLeft(LAMBDA t, i : If(t, CancelOne(t, i)), t2, plan.tomb)
      t4 == FoldLeft(LAMBDA t, f : If(t, FlagOne(t, f)), t3, plan.flags)
  IN FoldLeft(LAMBDA t, id : If(t, RuleOne(t, id)), t4, ids)

-----------------------------------------------------------------------------
(* The transaction of a fetched answer.                                    *)

\* Coverage runs from the oldest row returned to the day of the request.
ProvedFrom(r) == Max({r.from, Min({r.page[k].date : k \in DOMAIN r.page})})
ProvedDays(r) == IF r.page = <<>> THEN {} ELSE ProvedFrom(r) .. r.end - 1

\* The plan: built on what was loaded, and built again, untrusting, when the
\* evidence under the write lock no longer grants what it was built on.
PlanFor(p, evid) ==
  Reconcile(run[p].view, run[p].page, run[p].view.trusted /\ Trusted(evid),
            run[p].alloc, run[p].from)

SpentPairs(t) == {<<t.rows[i].ident, t.rows[i].occ, i>> : i \in DOMAIN t.rows}

\* The fence, the evidence, the plan, the rules and the occurrence marks
\* commit together or not at all.
Apply(p) ==
  /\ run[p].pc = "apply" /\ Lives(p)
  /\ \E evid \in {Observed(p, Measure(run[p].page))} :
     \E plan \in {PlanFor(p, evid)} :
     \E t \in {Landed(plan, issued.row, run[p].life)} :
        IF t.ok
        THEN /\ db' = [db EXCEPT !.rows = t.rows, !.alloc = t.alloc, !.evid = evid]
             /\ issued' = [issued EXCEPT !.row = @ + Len(plan.ins)]
             /\ hist' = [hist EXCEPT !.spent = @ \cup SpentPairs(t),
                          !.proven = @ \cup ProvedDays(run[p]),
                          !.fetched = @ \cup {<<run[p].session, run[p].life>>}]
             /\ run' = [run EXCEPT ![p].view = NoView, ![p].alloc = NoAlloc,
                          ![p].pc = "cover"]
        ELSE /\ run' = [run EXCEPT ![p].view = NoView, ![p].alloc = NoAlloc,
                          ![p].out = "failed", ![p].pc = AfterError(p)]
             /\ UNCHANGED <<db, issued, hist>>
  /\ UNCHANGED <<sc, today, bank, left>>

\* The account was erased, or erased and linked again, under the run.
ApplyErased(p) ==
  /\ run[p].pc = "apply" /\ ~Lives(p)
  /\ run' = [run EXCEPT ![p].view = NoView, ![p].alloc = NoAlloc, ![p].pc = AfterFetch(p)]
  /\ UNCHANGED <<sc, today, bank, db, issued, left, hist>>

\* Mutant of MergedCoverage: intervals that merely abut are kept apart.
MergedOverlapsOnly(cover, lo, hi) ==
  LET touching == {c \in cover : c[1] < hi /\ c[2] > lo}
  IN (cover \ touching) \cup {<<Min({lo} \cup {c[1] : c \in touching}),
                                Max({hi} \cup {c[2] : c \in touching})>>}

\* A proven interval absorbs every interval it overlaps or abuts.
MergedCoverage(cover, lo, hi) ==
  LET touching == {c \in cover : c[1] <= hi /\ c[2] >= lo}
  IN (cover \ touching) \cup {<<Min({lo} \cup {c[1] : c \in touching}),
                                Max({hi} \cup {c[2] : c \in touching})>>}

\* In a transaction of its own, fenced again; when every payment is dated after
\* the window there is no interval to record, and that is an error.
RecordCoverage(p) ==
  LET r == run[p]
      empty == r.page # <<>> /\ ProvedFrom(r) >= r.end
  IN /\ r.pc = "cover"
     /\ IF r.page = <<>> \/ empty THEN UNCHANGED db
        ELSE Fenced(p, [db EXCEPT !.cover = MergedCoverage(@, ProvedFrom(r), r.end)])
     /\ IF empty THEN Reply(p, "failed", AfterError(p))
        ELSE Goto(p, IF r.page # <<>> /\ ~Lives(p) THEN AfterFetch(p) ELSE "finish")
     /\ UNCHANGED <<sc, today, bank, issued, left, hist>>

\* Complete, under the session this run fetched with.
Finish(p) ==
  /\ run[p].pc = "finish"
  /\ Fenced(p, [db EXCEPT !.sync = [row |-> TRUE, comp |-> "complete", wait |-> FALSE,
                                    session |-> run[p].session, recent |-> TRUE]])
  /\ Goto(p, AfterFetch(p))
  /\ UNCHANGED <<sc, today, bank, issued, left, hist>>

-----------------------------------------------------------------------------
(* The end of a routine refresh.                                           *)

\* A narrow run puts back the finding it found, over its own `complete` only.
Restore(p) ==
  LET standing == run[p].standing
      narrow == run[p].end - 1 - run[p].from < DeepWindow
  IN /\ run[p].pc = "restore"
     /\ IF narrow /\ standing.row /\ db.sync.row /\ db.sync.comp = "complete"
        THEN Fenced(p, [db EXCEPT !.sync.comp = standing.comp,
                                  !.sync.session = standing.session])
        ELSE UNCHANGED db
     /\ Goto(p, "health")
     /\ UNCHANGED <<sc, today, bank, issued, left, hist>>

Failed(p) == run[p].out \notin {"ok", "capped"}

\* Mutant of Overtaken: a late answer overwrites a newer one.
OvertakenNever(p) == FALSE

\* An observation older than the one on record is dropped.
Overtaken(p) == db.health.session = run[p].session /\ run[p].started < db.health.seen

\* One transaction, fenced on the session and on nothing else.
RecordHealth(p) ==
  LET r == run[p]
      same == db.health.session = r.session
      writes == db.acct.live /\ db.acct.session = r.session /\ r.session # 0 /\ ~Overtaken(p)
      failure == [session |-> r.session, seen |-> r.started, failing |-> TRUE,
                  refusals |-> IF r.out # "refused" THEN 0
                               ELSE IF same THEN db.health.refusals + 1 ELSE 1,
                  gone |-> same /\ db.health.gone]
      success == [NoHealth EXCEPT !.session = r.session, !.seen = r.started]
  IN /\ r.pc = "health"
     /\ db' = IF writes THEN [db EXCEPT !.health = IF Failed(p) THEN failure ELSE success] ELSE db
     /\ hist' = IF ~Failed(p) /\ db.acct.live /\ db.acct.session = r.session
                   /\ ~(hist.okAt.session = r.session /\ hist.okAt.started > r.started)
                THEN [hist EXCEPT !.okAt = [session |-> r.session, started |-> r.started]]
                ELSE hist
     /\ Goto(p, IF r.out = "refused" THEN "check" ELSE "release")
     /\ UNCHANGED <<sc, today, bank, issued, left>>

\* After repeated refusals the provider is asked about the session.
CheckConsent(p, answer) ==
  LET h == db.health
      asks == /\ db.acct.live /\ db.acct.session = run[p].session /\ h.session = run[p].session
              /\ h.failing /\ h.refusals >= RefusalsBeforeCheck /\ ~h.gone
  IN /\ run[p].pc = "check"
     /\ IF asks THEN Reply(p, answer, "told")
                ELSE Goto(p, "release") /\ answer = "live"
     /\ UNCHANGED <<sc, today, bank, db, issued, left, hist>>

\* Only onto the failing record of that session.
FailingRecord(p) == db.health.session = run[p].session /\ db.health.failing

RecordAnswer(p) ==
  /\ run[p].pc = "told"
  /\ db' = IF FailingRecord(p) /\ db.acct.live /\ db.acct.session = run[p].session
           THEN [db EXCEPT !.health.gone = run[p].out = "gone"] ELSE db
  /\ Goto(p, "release")
  /\ UNCHANGED <<sc, today, bank, issued, left, hist>>

\* A routine run removes the claim only while it is the one it took; a
\* priority run removes whatever is there.
Release(p) ==
  /\ run[p].pc = "release"
  /\ db' = IF Deep(p) \/ db.claim.by = run[p].held THEN [db EXCEPT !.claim = NoClaim] ELSE db
  /\ run' = [run EXCEPT ![p] = Idle]
  /\ UNCHANGED <<sc, today, bank, issued, left, hist>>

-----------------------------------------------------------------------------
(* Balances.                                                               *)

BalanceTypes == {"CLBD", "ITAV"}

\* One unpaginated answer; an entry may hold an amount that does not parse.
Figures(p, types, bad) ==
  /\ run[p].pc = "figures"
  /\ issued' = [issued EXCEPT !.answer = @ + 1]
  /\ run' = [run EXCEPT ![p].pc = "write",
                        ![p].figures = [answer |-> issued.answer + 1, types |-> types,
                                        bad |-> bad]]
  /\ UNCHANGED <<sc, today, bank, db, left, hist>>

\* A non-empty answer is the whole set of the account's balances.
Reconciled(bals, figures) == [t \in figures.types |-> figures.answer]

\* One savepoint: the upserts, the reconciliation and the stamp, or nothing.
\* An empty answer over stored balances withdraws no row and is an error.
WriteBalances(p) ==
  LET figures == run[p].figures
      fails == figures.bad \/ (figures.types = {} /\ DOMAIN db.bals # {} /\ Lives(p))
  IN /\ run[p].pc = "write"
     /\ IF fails THEN Reply(p, "failed", "note") /\ UNCHANGED db
        ELSE /\ Goto(p, "release")
             /\ IF figures.types = {} THEN UNCHANGED db
                ELSE Fenced(p, [db EXCEPT !.bals = Reconciled(@, figures)])
     /\ UNCHANGED <<sc, today, bank, issued, left, hist>>

-----------------------------------------------------------------------------
(* A first link and a renewal.                                             *)

Begins(p, kind) == run[p].pc = "idle" /\ kind \in sc.kinds /\ left.runs > 0

\* upsert_account reads the row; a consent it does not carry refuses.
LinkRead(p) ==
  /\ Begins(p, "link") /\ db.acct.session = 0
  /\ issued' = [issued EXCEPT !.session = @ + 1]
  /\ run' = [run EXCEPT ![p] = [Idle EXCEPT !.kind = "link", !.pc = "binding", !.out = "ok",
               !.session = issued.session + 1,
               !.life = IF db.acct.live THEN db.acct.life ELSE 0]]
  /\ left' = [left EXCEPT !.runs = @ - 1]
  /\ UNCHANGED <<sc, today, bank, db, hist>>

\* An existing account keeps its life, and the update is conditioned on it; a
\* new one is minted, and collides with a row that appeared meanwhile.
LinkBind(p) ==
  /\ run[p].pc = "binding"
  /\ CASE run[p].life # 0 /\ Lives(p) ->
            /\ db' = [db EXCEPT !.acct.session = run[p].session]
            /\ Goto(p, "preempt") /\ UNCHANGED issued
       [] run[p].life = 0 /\ ~db.acct.live ->
            /\ issued' = [issued EXCEPT !.life = @ + 1]
            /\ db' = [db EXCEPT !.acct = [live |-> TRUE, life |-> issued.life + 1,
                                         session |-> run[p].session]]
            /\ run' = [run EXCEPT ![p].life = issued.life + 1, ![p].pc = "preempt"]
       [] OTHER -> run' = [run EXCEPT ![p] = Idle] /\ UNCHANGED <<db, issued>>
  /\ UNCHANGED <<sc, today, bank, left, hist>>

\* One read validates the account set and captures the life and the consent.
RenewRead(p) ==
  /\ Begins(p, "renew") /\ db.acct.live /\ db.acct.session # 0
  /\ issued' = [issued EXCEPT !.session = @ + 1]
  /\ run' = [run EXCEPT ![p] = [Idle EXCEPT !.kind = "renew", !.pc = "preempt", !.out = "ok",
               !.session = issued.session + 1, !.old = db.acct.session,
               !.life = db.acct.life]]
  /\ left' = [left EXCEPT !.runs = @ - 1]
  /\ UNCHANGED <<sc, today, bank, db, hist>>

\* The priority claim overwrites whatever claim is there.
Preempt(p) ==
  /\ run[p].pc = "preempt"
  /\ db' = [db EXCEPT !.claim = [by |-> p, old |-> FALSE]]
  /\ Goto(p, "window")
  /\ UNCHANGED <<sc, today, bank, issued, left, hist>>

\* Did this session run a fetch of the account to exhaustion?
DeepFetchComplete(p) == db.sync.comp = "complete" /\ db.sync.session = run[p].session

Ready(p) ==
  /\ run[p].pc = "ready"
  /\ Goto(p, IF Lives(p) /\ DeepFetchComplete(p) THEN "switch" ELSE "release")
  /\ UNCHANGED <<sc, today, bank, db, issued, left, hist>>

\* One transaction, only from the consent the renewal started from.
Switch(p) ==
  /\ run[p].pc = "switch"
  /\ IF Lives(p) /\ db.acct.session = run[p].old
     THEN /\ db' = [db EXCEPT !.acct.session = run[p].session]
          /\ hist' = [hist EXCEPT !.switched = @ \cup {<<run[p].session, run[p].life>>}]
     ELSE UNCHANGED <<db, hist>>
  /\ Goto(p, "release")
  /\ UNCHANGED <<sc, today, bank, issued, left>>

-----------------------------------------------------------------------------
(* The operator's calls, each one transaction.                             *)

Operator(op) == op \in sc.ops /\ left.ops > 0 /\ left' = [left EXCEPT !.ops = @ - 1]

\* A purge waits while a link or a renewal is under way.
AuthorizationInProgress == \E p \in Procs : run[p].kind \in {"link", "renew"}

NewLife == issued' = [issued EXCEPT !.life = @ + 1]

\* Mutant of ChainMembersKept: every row before the cutoff goes.
ChainsCut(doomed) == {}

\* A chain of supersessions is purged whole or not at all.
ChainMembersKept(doomed) ==
  LET Joined(S) == {i \in DOMAIN db.rows : \/ db.rows[i].succ \in S
                                          \/ \E j \in S : db.rows[j].succ = i}
      closed == {S \in SUBSET DOMAIN db.rows : DOMAIN db.rows \ doomed \subseteq S
                                               /\ Joined(S) \subseteq S}
  IN {i \in doomed : \A S \in closed : i \in S}

\* Coverage ends at the cutoff with the rows.
TrimmedCoverage(cover, cut) ==
  {<<Max({c[1], cut}), c[2]>> : c \in {x \in cover : x[2] > cut}}

Relived(d) == [d EXCEPT !.acct.life = IF d.acct.live THEN issued.life + 1 ELSE @]

\* purge before a date; with "erase" the operator's own work goes too.
PurgeBefore(cut, erase) ==
  LET before == {i \in DOMAIN db.rows : db.rows[i].date < cut}
      rows == Drop(db.rows, before \ ChainMembersKept(before))
  IN /\ Operator("purge") /\ ~AuthorizationInProgress
     /\ db' = Relived([db EXCEPT
                 !.rows = IF erase THEN [i \in DOMAIN rows |-> [rows[i] EXCEPT !.tags = {}]]
                                   ELSE rows,
                 !.cover = TrimmedCoverage(@, cut),
                 !.rules = IF erase THEN {} ELSE @])
     /\ NewLife
     /\ hist' = [hist EXCEPT !.proven = {d \in @ : d >= cut}]
     /\ UNCHANGED <<sc, today, bank, run>>

\* purge of the whole ledger: a partial record stays to say so.
PurgeAll(erase) ==
  /\ Operator("purge_all") /\ ~AuthorizationInProgress
  /\ db' = Relived([db EXCEPT !.rows = NoRows, !.cover = {}, !.alloc = NoAlloc,
              !.bals = NoRows,
              !.sync = IF db.acct.live THEN [@ EXCEPT !.row = TRUE, !.comp = "partial",
                                                      !.session = 0] ELSE @,
              !.rules = IF erase THEN {} ELSE @])
  /\ NewLife
  /\ hist' = [hist EXCEPT !.proven = {}, !.spent = {}, !.floor = issued.life + 1]
  /\ UNCHANGED <<sc, today, bank, run>>

\* Everything kept under the account goes; claims and rules stay.
ForgetLocalAccount ==
  /\ Operator("forget") /\ db.acct.live
  /\ db' = [db EXCEPT !.acct = [NoAccount EXCEPT !.life = db.acct.life], !.rows = NoRows,
               !.alloc = NoAlloc, !.bals = NoRows, !.cover = {}, !.sync = NoSync,
               !.evid = NoEvidence, !.health = NoHealth]
  /\ hist' = [hist EXCEPT !.proven = {}, !.spent = {}, !.floor = issued.life + 1,
                 !.okAt = [session |-> 0, started |-> 0]]
  /\ UNCHANGED <<sc, today, bank, run, issued>>

\* A revoked consent releases its accounts.  The call holds the lock
\* exclusively (EXCLUSIVE_TOOLS): no run is under way.
UnlinkBank ==
  /\ Operator("unlink") /\ \A p \in Procs : run[p].pc = "idle"
  /\ db.acct.live /\ db.acct.session # 0
  /\ db' = [db EXCEPT !.acct.session = 0]
  /\ UNCHANGED <<sc, today, bank, run, issued, hist>>

AddRule(r) ==
  /\ Operator("add_rule") /\ CanAdd(db.rules, r)
  /\ db' = [db EXCEPT !.rules = @ \cup {r}]
  /\ UNCHANGED <<sc, today, bank, run, issued, hist>>

RemoveRule(r) ==
  /\ Operator("remove_rule") /\ r \in db.rules
  /\ db' = [db EXCEPT !.rules = @ \ {r}]
  /\ UNCHANGED <<sc, today, bank, run, issued, hist>>

ReplaceRule(old, r) ==
  /\ Operator("replace_rule") /\ CanReplace(db.rules, old, r)
  /\ db' = [db EXCEPT !.rules = (@ \ {old}) \cup {r}]
  /\ UNCHANGED <<sc, today, bank, run, issued, hist>>

\* Without row ids: every active row.
ApplyRules ==
  /\ Operator("apply_rules") /\ db.rules # {}
  /\ db' = [db EXCEPT !.rows = [i \in DOMAIN db.rows |->
               IF db.rows[i].state = "active"
               THEN [db.rows[i] EXCEPT !.tags = TagsByRules(db.rules, Contents[db.rows[i].content],
                                                            db.rows[i].date, db.rows[i].tags)]
               ELSE db.rows[i]]]
  /\ UNCHANGED <<sc, today, bank, run, issued, hist>>

\* A superseded row is annotated through its replacement only.
Annotatable(i) == i \in DOMAIN db.rows /\ db.rows[i].state # "superseded"

TagTransaction(i, tags) ==
  /\ Operator("tag") /\ Annotatable(i) /\ ~CapProblem(db.rows[i].tags, tags)
  /\ db' = [db EXCEPT !.rows[i].tags = @ \cup tags]
  /\ UNCHANGED <<sc, today, bank, run, issued, hist>>

UntagTransaction(i, tags) ==
  /\ Operator("untag") /\ Annotatable(i)
  /\ db' = [db EXCEPT !.rows[i].tags = @ \ tags]
  /\ UNCHANGED <<sc, today, bank, run, issued, hist>>

InUse(t) == \/ \E i \in DOMAIN db.rows : t \in db.rows[i].tags
            \/ \E r \in db.rules : t \in r.tags

Retagged(rows, old, new) ==
  [i \in DOMAIN rows |-> [rows[i] EXCEPT !.tags = IF old \in @ THEN (@ \ {old}) \cup new ELSE @]]

\* In every row, whatever its state, and in every rule; only an owned name
\* is refused.
RenameTag(old, new) ==
  /\ Operator("rename") /\ old # new /\ InUse(old)
  /\ Namespace[old] = "" /\ Namespace[new] = ""
  /\ db' = [db EXCEPT !.rows = Retagged(@, old, {new}),
                      !.rules = RewrittenRules(@, old, {new})]
  /\ UNCHANGED <<sc, today, bank, run, issued, hist>>

DeleteTag(t) ==
  /\ Operator("delete_tag") /\ InUse(t)
  /\ db' = [db EXCEPT !.rows = Retagged(@, t, {}), !.rules = RewrittenRules(@, t, {})]
  /\ UNCHANGED <<sc, today, bank, run, issued, hist>>

-----------------------------------------------------------------------------
(* The bank, the clock and the death of a process.                         *)

BankMoves(move) == move \in sc.moves /\ left.bank > 0 /\ left' = [left EXCEPT !.bank = @ - 1]

Post(e) ==
  /\ BankMoves("post")
  /\ bank' = Append(bank, [content |-> e.content, date |-> today - e.age, ref |-> e.ref,
                           status |-> e.status])
  /\ UNCHANGED <<sc, today, db, run, issued, hist>>

Book(k, later) ==
  /\ BankMoves("book") /\ bank[k].status = "PDNG" /\ bank[k].date + later <= today
  /\ bank' = [bank EXCEPT ![k].status = "BOOK", ![k].date = @ + later]
  /\ UNCHANGED <<sc, today, db, run, issued, hist>>

Correct(k, content) ==
  /\ BankMoves("correct") /\ bank[k].content # content
  /\ bank' = [bank EXCEPT ![k].content = content]
  /\ UNCHANGED <<sc, today, db, run, issued, hist>>

Withdraw(k) ==
  /\ BankMoves("withdraw")
  /\ bank' = RemoveAt(bank, k)
  /\ UNCHANGED <<sc, today, db, run, issued, hist>>

Void(k) ==
  /\ BankMoves("void") /\ bank[k].status = "PDNG"
  /\ bank' = [bank EXCEPT ![k].status = "CNCL"]
  /\ UNCHANGED <<sc, today, db, run, issued, hist>>

DayPasses ==
  /\ today < sc.lastDay
  /\ today' = today + 1
  /\ UNCHANGED <<sc, bank, db, run, issued, left, hist>>

\* The provider's wait, our own interval, or the time a claim is honoured.
TimePasses(what) ==
  /\ what \in sc.times
  /\ CASE what = "wait" -> db.sync.wait /\ db' = [db EXCEPT !.sync.wait = FALSE]
       [] what = "recent" -> db.sync.recent /\ db' = [db EXCEPT !.sync.recent = FALSE]
       [] what = "claim" -> db.claim # NoClaim /\ ~db.claim.old
                            /\ db' = [db EXCEPT !.claim.old = TRUE]
  /\ UNCHANGED <<sc, today, bank, run, issued, left, hist>>

\* Its claim stays behind.
Crash(p) ==
  /\ run[p].pc # "idle" /\ left.crash > 0
  /\ run' = [run EXCEPT ![p] = Idle]
  /\ left' = [left EXCEPT !.crash = @ - 1]
  /\ UNCHANGED <<sc, today, bank, db, issued, hist>>

-----------------------------------------------------------------------------
(* The specification.                                                      *)

\* Never linked; linked, with nothing fetched since but an empty answer; linked
\* with two alike pending payments of the first day fetched; or purged after a
\* trusted history: each a state a finished call leaves.
Begun(linked, day) ==
  LET bound == [live |-> TRUE, life |-> 1, session |-> 1]
      done == [NoSync EXCEPT !.row = TRUE, !.comp = "complete", !.session = 1]
      Twin(occ) == [content |-> 1, date |-> day, ref |-> NoRef, status |-> "PDNG",
                    state |-> "active", succ |-> 0, ident |-> 1, occ |-> occ,
                    why |-> "none", tags |-> {}, by |-> 1]
  IN CASE linked = "no" -> [acct |-> NoAccount, sync |-> NoSync, evid |-> NoEvidence,
                            rows |-> NoRows]
       [] linked = "empty" -> [acct |-> bound, sync |-> done, evid |-> NoEvidence,
                               rows |-> NoRows]
       [] linked = "twins" -> [acct |-> bound, sync |-> done, evid |-> NoEvidence,
                               rows |-> <<Twin(0), Twin(1)>>]
       [] linked = "purged" -> [acct |-> [bound EXCEPT !.life = 2],
                                sync |-> [NoSync EXCEPT !.row = TRUE, !.comp = "partial"],
                                evid |-> [good |-> TRUE, reuse |-> FALSE], rows |-> NoRows]

Init ==
  /\ sc \in Scenarios
  /\ today = sc.firstDay
  /\ bank = sc.bank
  /\ \E b \in {Begun(sc.linked, sc.firstDay)} :
       LET n == Cardinality(DOMAIN b.rows)
           days == {b.rows[i].date : i \in DOMAIN b.rows}
       IN /\ db = [acct |-> b.acct, rows |-> b.rows,
                   alloc |-> [NoAlloc EXCEPT ![1] = n],
                   cover |-> {<<d, d + 1>> : d \in days}, sync |-> b.sync, evid |-> b.evid,
                   health |-> NoHealth, claim |-> NoClaim, bals |-> NoRows,
                   rules |-> sc.rules]
          /\ issued = [life |-> b.acct.life, session |-> b.acct.session,
                       row |-> n, answer |-> 0, tick |-> 0]
          /\ hist = [spent |-> {<<1, b.rows[i].occ, i>> : i \in DOMAIN b.rows},
                     proven |-> days, fetched |-> {}, switched |-> {},
                     okAt |-> [session |-> 0, started |-> 0], floor |-> b.acct.life]
  /\ run = [p \in Procs |-> Idle]
  /\ left = [runs |-> sc.runs, bank |-> sc.bankMoves, ops |-> sc.calls, crash |-> sc.crashes]

Routine(p) ==
  \/ \E kind \in {"routine", "balances"}, automatic \in sc.automatic : Admit(p, kind, automatic)
  \/ ReadClaim(p) \/ WriteClaim(p) \/ Capture(p) \/ Stamp(p) \/ NoteFailure(p)
  \/ Restore(p) \/ RecordHealth(p) \/ RecordAnswer(p) \/ Release(p)
  \/ \E answer \in {"live", "gone"} : CheckConsent(p, answer)
  \/ \E types \in sc.figures, bad \in BOOLEAN : Figures(p, types, bad)
  \/ WriteBalances(p)

Fetch(p) ==
  \/ Window(p)
  \/ \E older \in BOOLEAN : Answer(p, older)
  \/ \E out \in {"capped", "failed", "limited", "refused"} : NoAnswer(p, out)
  \/ Incomplete(p) \/ Load(p) \/ Allocate(p) \/ Apply(p) \/ ApplyErased(p)
  \/ RecordCoverage(p) \/ Finish(p)

Authorize(p) ==
  LinkRead(p) \/ LinkBind(p) \/ RenewRead(p) \/ Preempt(p) \/ Ready(p) \/ Switch(p)

Call ==
  \/ \E cut \in sc.cuts, erase \in BOOLEAN : PurgeBefore(cut, erase)
  \/ \E erase \in BOOLEAN : PurgeAll(erase)
  \/ ForgetLocalAccount \/ UnlinkBank \/ ApplyRules
  \/ \E r \in sc.offered : AddRule(r)
  \/ \E r \in db.rules : RemoveRule(r)
  \/ \E old \in db.rules, r \in sc.offered : ReplaceRule(old, r)
  \/ \E i \in DOMAIN db.rows, tags \in sc.taggings : TagTransaction(i, tags)
  \/ \E i \in DOMAIN db.rows, tags \in sc.taggings : UntagTransaction(i, tags)
  \/ \E old, new \in Tags : RenameTag(old, new)
  \/ \E t \in Tags : DeleteTag(t)

Environment ==
  \/ \E e \in sc.entries : Post(e)
  \/ \E k \in DOMAIN bank, later \in sc.later : Book(k, later)
  \/ \E k \in DOMAIN bank, content \in Idents : Correct(k, content)
  \/ \E k \in DOMAIN bank : Withdraw(k)
  \/ \E k \in DOMAIN bank : Void(k)
  \/ DayPasses
  \/ \E what \in {"wait", "recent", "claim"} : TimePasses(what)

Next ==
  \/ \E p \in sc.procs : Routine(p) \/ Fetch(p) \/ Authorize(p) \/ Crash(p)
  \/ Call
  \/ Environment

Spec == Init /\ [][Next]_vars

-----------------------------------------------------------------------------
(* Properties.                                                             *)

\* The shape of the state: rows name their successor by row id, the numbers
\* a run captured were issued, a run never holds another account's facts.
TypeOK ==
  /\ sc \in Scenarios /\ today \in Nat
  /\ \A k \in DOMAIN bank : bank[k].content \in Idents /\ bank[k].status \in
       {"PDNG", "BOOK", "CNCL"}
  /\ db.acct.life <= issued.life /\ db.acct.session <= issued.session
  /\ \A i \in DOMAIN db.rows :
       /\ i \in 1 .. issued.row
       /\ db.rows[i].state \in {"active", "superseded", "cancelled"}
       /\ db.rows[i].succ \in {0} \cup DOMAIN db.rows
       /\ db.rows[i].tags \subseteq Tags
  /\ db.sync.comp \in {"none", "partial", "complete"}
  /\ \A p \in Procs : run[p].life <= issued.life /\ run[p].started <= issued.tick

\* The identity key of a row is the hash of the content it holds, also after
\* the bank corrected it: apply writes identity and content in one statement.
IdentityFollowsContent == \A i \in DOMAIN db.rows : db.rows[i].ident = db.rows[i].content

\* Coverage lies within the days some answer proved and no purge took back, in
\* intervals that neither overlap nor touch (record_coverage).
CoverageProved ==
  /\ \A c \in db.cover : c[1] .. c[2] - 1 \subseteq hist.proven
  /\ \A c, d \in db.cover : c # d => c[2] < d[1] \/ d[2] < c[1]

\* The balances on record are those of one answer (_fetch_resource).
BalancesOfOneAnswer == \A t, u \in DOMAIN db.bals : db.bals[t] = db.bals[u]

\* A renewed consent became the account's only after a fetch of its own ran to
\* the end, in the life the renewal began in (switch_bindings).
SwitchedAfterFetch == hist.switched \subseteq hist.fetched

\* What the ledger claims about the bank is what it was told: days, balances
\* and whose history is complete.
Attested == CoverageProved /\ BalancesOfOneAnswer /\ SwitchedAfterFetch

\* An erased account has no record at all, also of a run that was under way
\* when it was erased (every late write is fenced on the life token).
ErasedIsBare ==
  ~db.acct.live => /\ db.rows = NoRows /\ db.cover = {} /\ db.bals = NoRows
                   /\ db.sync = NoSync /\ db.evid = NoEvidence /\ db.health = NoHealth

\* Every row on record was landed by a run that started in a life younger than
\* the last full erasure.
LandedSinceErasure == \A i \in DOMAIN db.rows : db.rows[i].by >= hist.floor

\* Nothing an erasure removed comes back through a call that was under way.
ErasedStaysErased == ErasedIsBare /\ LandedSinceErasure

\* The health record of the bound consent speaks of the latest sync of it that
\* is known to have worked, and "gone" is only ever said of a failing consent.
HealthLatest ==
  /\ db.health.gone => db.health.failing
  /\ /\ db.health.failing /\ db.health.session = db.acct.session
     /\ hist.okAt.session = db.acct.session
     => db.health.seen >= hist.okAt.started

\* Steps that landed a plan.
Landing(p) == run[p].pc = "apply" /\ run'[p].pc = "cover"
Fresh(p) == run[p].view.rows = db.rows

\* No occurrence of this identity was issued since the run read its mark.
MarkStands(p, x) == db.alloc[x] <= run[p].alloc[x]

\* An occurrence number a plan gives to a transaction was never given to another
\* one of the same content, however that was superseded, re-keyed or purged:
\* ingest numbers above the durable marks of occurrence_alloc.  A run that stalls
\* between its reads and its transaction may have an older mark than the ledger;
\* what it inserts may then carry a number that a re-keyed row has vacated, which
\* the UNIQUE index does not notice.
OccurrenceSpent ==
  [][\A p \in Procs : Landing(p) =>
       \A x \in hist'.spent \ hist.spent, y \in hist'.spent :
          MarkStands(p, x[1]) /\ x[1] = y[1] /\ x[2] = y[2] => x[3] = y[3]]_vars

\* The plan of the same answer over the ledger the landed plan left behind.
OnceMore(p) ==
  LET rows == db'.rows
  IN Reconcile([rows |-> rows, ends |-> NoRows,
                win |-> {i \in DOMAIN rows : rows[i].date >= run[p].from
                                            /\ rows[i].date < run[p].end},
                below |-> {i \in DOMAIN rows : rows[i].date < run[p].from}],
               run[p].page, FALSE, db'.alloc, run[p].from)

\* Payments of one content in different statuses, on the page or on record.
MixedStatuses(p) ==
  LET seen == ToSet(Payments(run[p].page)) \cup
                {db'.rows[i] : i \in {j \in DOMAIN db'.rows : db'.rows[j].state = "active"}}
  IN \E x, y \in seen : x.content = y.content /\ x.status # y.status

\* A page that landed is all in the ledger: each of its payments has an active
\* row of its own with that content and that day, and landing the page again
\* supersedes nothing and inserts nothing (ingest: re-fetching an unchanged
\* interval is a genuine no-op).  Two kinds of page are set aside for the second
\* half, and are what ReingestInsertsNothing is about: one with a payment dated
\* at or after the end of the window, and one after which the page or the ledger
\* holds payments of one content in different statuses.
PageLands ==
  [][\A p \in Procs : Landing(p) /\ Fresh(p) /\ ~run[p].view.trusted =>
       LET page == Payments(run[p].page)
           InPage(x, d) == {k \in DOMAIN page : page[k].content = x /\ page[k].date = d}
           OnRecord(x, d) == {i \in DOMAIN db'.rows :
                                /\ db'.rows[i].state = "active"
                                /\ db'.rows[i].content = x /\ db'.rows[i].date = d}
       IN /\ \A k \in DOMAIN page :
               Cardinality(OnRecord(page[k].content, page[k].date))
                 >= Cardinality(InPage(page[k].content, page[k].date))
          /\ (\A k \in DOMAIN page : page[k].date < run[p].end) /\ ~MixedStatuses(p) =>
               \A again \in {OnceMore(p)} :
                 again.ins = <<>> /\ \A n \in DOMAIN again.upd : again.upd[n].op = "update"]_vars

\* Fetching an unchanged page a second time inserts nothing, whatever it lists
\* (ingest: "Re-fetching an unchanged interval must be a genuine no-op").  The
\* code does not keep this: of two alike payments, one pending and one booked,
\* the matcher may update the wrong one, and a payment dated after the day of
\* the request is never loaded again, so that it never finds itself.
ReingestInsertsNothing ==
  [][\A p \in Procs : Landing(p) /\ Fresh(p) => OnceMore(p).ins = <<>>]_vars

\* A finding waiting for the operator is never lost: it stays on its row, and
\* a row that supersedes a flagged one is flagged too.
ReviewSticks ==
  [][/\ \A i \in DOMAIN db.rows \cap DOMAIN db'.rows :
          db.rows[i].why # "none" => db'.rows[i].why # "none"
     /\ \A p \in Procs : Landing(p) /\ Fresh(p) =>
          \A i \in DOMAIN db.rows : /\ db.rows[i].succ = 0 /\ db'.rows[i].succ # 0
                                    /\ db.rows[i].why # "none"
                                    => db'.rows[db'.rows[i].succ].why # "none"]_vars

\* Row i changes identity, or is superseded by a row of another one.
Rekeyed(i) ==
  \/ db'.rows[i].ident # db.rows[i].ident
  \/ /\ db'.rows[i].succ # db.rows[i].succ
     /\ db'.rows[db'.rows[i].succ].ident # db.rows[i].ident

\* The row still has the identity the run loaded it with.
AsLoaded(p, i) == /\ i \in DOMAIN run[p].view.rows
                  /\ run[p].view.rows[i].ident = db.rows[i].ident

\* The identity of a stored transaction moves only where a plan lands, and,
\* unless another run moved it since it was loaded, only on references trusted
\* when the plan commits: a sighting of reuse, by this very answer or by another
\* process since the plan was made, takes the licence away.
TrustHeldAtCommit ==
  [][\A i \in DOMAIN db.rows \cap DOMAIN db'.rows :
       Rekeyed(i) => \E p \in Procs : /\ Landing(p)
                                      /\ AsLoaded(p, i) => db'.evid.good /\ ~db'.evid.reuse]_vars

\* Landing a plan neither loses nor doubles the operator's tags: they stay on
\* the row, or move to the row that supersedes it and leave the old one bare;
\* and the rules it applies stay within the row's tag budget.
AnnotationsFollow ==
  [][\A p \in Procs : Landing(p) =>
       \A i \in DOMAIN db'.rows :
         LET was == IF i \in DOMAIN db.rows THEN db.rows[i].tags ELSE {}
             holder == IF db'.rows[i].succ = 0 THEN i ELSE db'.rows[i].succ
         IN /\ was \subseteq db'.rows[holder].tags
            /\ i \in DOMAIN db.rows /\ db.rows[i].succ = 0 /\ holder # i
                 => db'.rows[i].tags = {}
            /\ Cardinality(Plain(db'.rows[i].tags))
                 <= Max({MaxTagsPerRow, Cardinality(Plain(was))})]_vars
=============================================================================
