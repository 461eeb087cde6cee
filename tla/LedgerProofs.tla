---------------------------- MODULE LedgerProofs ----------------------------
(* Proofs about Ledger, for every value of its constants.  First the       *)
(* invariant that needs no plan: what an erased account keeps, which       *)
(* consent an account may be switched to, and what the health record says.  *)
(* Then the invariant of the rows, what a landed plan does to them, and    *)
(* the steps that land nothing.                                            *)
EXTENDS Ledger, PlanProofs

-----------------------------------------------------------------------------
(* The inductive invariant.                                                *)

Asking == {"window", "asking", "incomplete", "load", "measure", "apply", "cover", "finish",
           "release"}

\* Where a run of each kind can be.
Places(kind) ==
  CASE kind = "none" -> {"idle"}
    [] kind = "link" -> Asking \cup {"binding", "preempt"}
    [] kind = "renew" -> Asking \cup {"preempt", "ready", "switch"}
    [] kind = "routine" -> Asking \cup {"admitted", "claiming", "claimed", "note", "bound",
                                        "restore", "health", "check", "told"}
    [] kind = "balances" -> {"admitted", "claiming", "claimed", "note", "bound", "figures",
                             "write", "release"}

Kinds == {"none", "link", "renew", "routine", "balances"}

Findings == [row : BOOLEAN, comp : {"none", "partial", "complete"}, session : Nat,
             wait : BOOLEAN, recent : BOOLEAN]
Records == [session : Nat, seen : Nat, failing : BOOLEAN, refusals : Nat, gone : BOOLEAN]

Runs == {"pc", "kind", "held", "life", "session", "old", "started", "standing", "from",
         "end", "page", "out", "view", "alloc", "figures"}

RunTyped(r) ==
  /\ DOMAIN r = Runs
  /\ r.kind \in Kinds /\ r.pc \in Places(r.kind)
  /\ r.session \in Nat /\ r.started \in Nat /\ r.standing \in Findings

AcctTyped(a) ==
  DOMAIN a = {"live", "life", "session"} /\ a.live \in BOOLEAN /\ a.session \in Nat

DbTyped(d) ==
  /\ DOMAIN d = {"acct", "rows", "alloc", "cover", "sync", "evid", "health", "claim", "bals",
                 "rules"}
  /\ AcctTyped(d.acct) /\ d.sync \in Findings /\ d.health \in Records

IssuedTyped(n) ==
  /\ DOMAIN n = {"life", "session", "row", "answer", "tick"}
  /\ n.session \in Nat /\ n.tick \in Nat

HistTyped(h) ==
  /\ DOMAIN h = {"spent", "proven", "fetched", "switched", "okAt", "floor"}
  /\ h.okAt \in [session : Nat, started : Nat]

Typed ==
  /\ sc \in Scenarios /\ DbTyped(db) /\ IssuedTyped(issued) /\ HistTyped(hist)
  /\ DOMAIN run = Procs /\ \A p \in Procs : RunTyped(run[p])

\* Every session on record was issued.
SessionsIssued ==
  /\ db.acct.session <= issued.session /\ db.sync.session <= issued.session
  /\ hist.okAt.session <= issued.session
  /\ \A p \in Procs : /\ run[p].session <= issued.session
                      /\ run[p].standing.session <= issued.session

\* A run that still has to make its consent the account's own.
Pledged(r) == \/ r.kind = "link" /\ r.pc = "binding"
              \/ r.kind = "renew" /\ r.pc # "release"

\* Until it does, nobody else knows that consent.
PledgesAreOwn ==
  \A p \in Procs : Pledged(run[p]) =>
    /\ run[p].session # 0 /\ db.acct.session # run[p].session
    /\ hist.okAt.session # run[p].session
    /\ \A q \in Procs \ {p} : run[q].session # run[p].session

Pair(r) == <<r.session, r.life>>

\* A run past its landing has fetched; and the ledger, or a finding some run
\* means to put back, names a pledged consent only once it has fetched.
FetchedFirst ==
  \A p \in Procs :
    /\ run[p].pc \in {"cover", "finish", "switch"} => Pair(run[p]) \in hist.fetched
    /\ run[p].kind = "renew" /\ run[p].pc # "release" =>
         /\ db.sync.session = run[p].session => Pair(run[p]) \in hist.fetched
         /\ \A q \in Procs : run[q].standing.session = run[p].session
                             => Pair(run[p]) \in hist.fetched

\* The health record of the bound consent is never older than the latest sync
\* of it that is known to have worked.
HealthKept ==
  /\ db.health.gone => db.health.failing
  /\ db.health.failing => db.health.session # 0
  /\ hist.okAt.session # 0 /\ hist.okAt.session = db.acct.session =>
       db.health.session = db.acct.session /\ db.health.seen >= hist.okAt.started

LedgerInv ==
  /\ Typed /\ SessionsIssued /\ PledgesAreOwn /\ FetchedFirst /\ HealthKept
  /\ SwitchedAfterFetch /\ ErasedIsBare

-----------------------------------------------------------------------------
(* What a step may do to the sessions: every action of Ledger is one of    *)
(* these, and they keep the invariant.                                     *)

\* The process ends its call or dies.
Idles(q) == run'[q] = Idle

\* It goes on with its call.
Carries(q) ==
  /\ run'[q].kind = run[q].kind /\ run'[q].session = run[q].session
  /\ run'[q].life = run[q].life /\ run'[q].standing = run[q].standing
  /\ Pledged(run'[q]) => Pledged(run[q])
  /\ run'[q].pc \in {"cover", "finish"} =>
       run[q].pc \in {"cover", "finish"} \/ Pair(run[q]) \in hist'.fetched
  /\ run'[q].pc = "switch" =>
       \/ run[q].pc = "switch"
       \/ /\ run[q].kind = "renew" /\ run[q].pc # "release"
          /\ db.sync.session = run[q].session

\* A routine run takes the account's session, or the finding on record.
Captures(q) ==
  /\ run'[q].kind \in {"routine", "balances"}
  /\ run'[q].pc \notin {"cover", "finish", "switch"}
  /\ run'[q].session \in {run[q].session, db.acct.session}
  /\ \/ run'[q].standing = run[q].standing
     \/ run'[q].standing.session = db.sync.session
  /\ run[q].kind \notin {"link", "renew"}

\* An authorization begins, under a session of its own.
Issues(q) ==
  /\ issued'.session = issued.session + 1 /\ run'[q].session = issued'.session
  /\ run'[q].standing = NoSync /\ run'[q].pc \in {"binding", "preempt"}
  /\ \A r \in Procs \ {q} : run'[r] = run[r]
  /\ db' = db /\ hist' = hist

\* A link takes the account.
Binds(q) ==
  /\ run[q].kind = "link" /\ run'[q].kind = "link" /\ run'[q].pc = "preempt"
  /\ run'[q].session = run[q].session /\ run'[q].standing = run[q].standing

RunStep ==
  /\ issued'.session >= issued.session /\ hist.fetched \subseteq hist'.fetched
  /\ \A q \in Procs : Idles(q) \/ Carries(q) \/ Captures(q) \/ Issues(q) \/ Binds(q)

AcctStep ==
  \/ db'.acct.session \in {db.acct.session, 0}
  \/ \E q \in Procs : /\ Pledged(run[q]) /\ ~Pledged(run'[q])
                      /\ db'.acct.session = run[q].session

DbStep ==
  /\ AcctStep
  /\ hist'.okAt.session \in {hist.okAt.session, 0, db.acct.session}
  /\ \/ db'.sync.session \in {db.sync.session, 0}
     \/ \E q \in Procs : \/ run[q].pc = "finish" /\ db'.sync.session = run[q].session
                         \/ db'.sync.session = run[q].standing.session
  /\ hist'.switched \subseteq hist.switched
       \cup {Pair(run[q]) : q \in {r \in Procs : run[r].pc = "switch"}}

LEMMA SessionsIssuedNext ==
  ASSUME Typed, Typed', SessionsIssued, RunStep, DbStep
  PROVE  SessionsIssued'
<1> USE DEF Typed, DbTyped, AcctTyped, IssuedTyped, HistTyped, RunTyped, Findings
<1>1. issued.session \in Nat /\ issued'.session \in Nat /\ issued'.session >= issued.session
  BY DEF RunStep
<1>2. db'.acct.session <= issued'.session
  BY <1>1 DEF DbStep, AcctStep, SessionsIssued
<1>3. db'.sync.session <= issued'.session
  BY <1>1 DEF DbStep, SessionsIssued
<1>4. hist'.okAt.session <= issued'.session
  BY <1>1 DEF DbStep, SessionsIssued
<1>5. ASSUME NEW q \in Procs
      PROVE  run'[q].session <= issued'.session /\ run'[q].standing.session <= issued'.session
  <2>0. /\ run[q].session \in Nat /\ run'[q].session \in Nat
        /\ run[q].standing.session \in Nat /\ run'[q].standing.session \in Nat
        /\ db.acct.session \in Nat /\ db.sync.session \in Nat
    OBVIOUS
  <2>1. CASE Idles(q)
    BY <2>0, <2>1, <1>1 DEF Idles, Idle, NoSync
  <2>2. CASE Carries(q)
    BY <2>0, <2>2, <1>1 DEF Carries, SessionsIssued
  <2>3. CASE Captures(q)
    BY <2>0, <2>3, <1>1 DEF Captures, SessionsIssued
  <2>4. CASE Issues(q)
    BY <2>0, <2>4, <1>1 DEF Issues, NoSync
  <2>5. CASE Binds(q)
    BY <2>0, <2>5, <1>1 DEF Binds, SessionsIssued
  <2> QED
    BY <2>1, <2>2, <2>3, <2>4, <2>5 DEF RunStep
<1> QED
  BY <1>2, <1>3, <1>4, <1>5 DEF SessionsIssued

\* A pledge held after a step was held before it, or has just been issued.
LEMMA PledgeHeld ==
  ASSUME Typed, RunStep, NEW p \in Procs, Pledged(run'[p])
  PROVE  \/ Pledged(run[p]) /\ Carries(p)
         \/ Issues(p)
<1>1. Idles(p) \/ Carries(p) \/ Captures(p) \/ Issues(p) \/ Binds(p)
  BY DEF RunStep
<1>2. ~Idles(p)
  BY DEF Idles, Idle, Pledged
<1>3. ~Captures(p)
  BY DEF Captures, Pledged
<1>4. ~Binds(p)
  BY DEF Binds, Pledged
<1>5. Carries(p) => Pledged(run[p])
  BY DEF Carries
<1> QED
  BY <1>1, <1>2, <1>3, <1>4, <1>5

LEMMA PledgesAreOwnNext ==
  ASSUME Typed, Typed', SessionsIssued, PledgesAreOwn, RunStep, DbStep
  PROVE  PledgesAreOwn'
<1>0. /\ issued.session \in Nat /\ db.acct.session \in Nat /\ db.sync.session \in Nat
      /\ hist.okAt.session \in Nat
      /\ \A r \in Procs : run[r].session \in Nat
  BY DEF Typed, DbTyped, AcctTyped, IssuedTyped, HistTyped, RunTyped, Findings
<1>1. SUFFICES ASSUME NEW p \in Procs, Pledged(run'[p])
      PROVE  /\ run'[p].session # 0 /\ db'.acct.session # run'[p].session
             /\ hist'.okAt.session # run'[p].session
             /\ \A q \in Procs \ {p} : run'[q].session # run'[p].session
  BY DEF PledgesAreOwn
<1>2. CASE Issues(p)
  <2>1. /\ run'[p].session = issued.session + 1
        /\ \A r \in Procs \ {p} : run'[r] = run[r]
        /\ db' = db /\ hist' = hist
    BY <1>2 DEF Issues
  <2> QED
    BY <2>1, <1>0 DEF SessionsIssued
<1>3. CASE Pledged(run[p]) /\ Carries(p)
  <2>1. run'[p].session = run[p].session
    BY <1>3 DEF Carries
  <2>2. /\ run[p].session # 0 /\ db.acct.session # run[p].session
        /\ hist.okAt.session # run[p].session
        /\ \A q \in Procs \ {p} : run[q].session # run[p].session
    BY <1>3 DEF PledgesAreOwn
  <2>3. db'.acct.session # run[p].session
    BY <2>2, <1>1 DEF DbStep, AcctStep
  <2>4. hist'.okAt.session # run[p].session
    BY <2>2 DEF DbStep
  <2>5. ASSUME NEW q \in Procs \ {p} PROVE run'[q].session # run[p].session
    <3>1. CASE Idles(q)
      BY <3>1, <2>2 DEF Idles, Idle
    <3>2. CASE Carries(q)
      BY <3>2, <2>2 DEF Carries
    <3>3. CASE Captures(q)
      BY <3>3, <2>2 DEF Captures
    <3>4. CASE Issues(q)
      BY <3>4, <1>0 DEF Issues, SessionsIssued
    <3>5. CASE Binds(q)
      BY <3>5, <2>2 DEF Binds
    <3> QED
      BY <3>1, <3>2, <3>3, <3>4, <3>5 DEF RunStep
  <2> QED
    BY <2>1, <2>2, <2>3, <2>4, <2>5
<1> QED
  BY <1>1, <1>2, <1>3, PledgeHeld

LEMMA FetchedFirstNext ==
  ASSUME Typed, Typed', SessionsIssued, PledgesAreOwn, FetchedFirst, RunStep, DbStep
  PROVE  FetchedFirst'
<1>0. /\ issued.session \in Nat /\ db.acct.session \in Nat /\ db.sync.session \in Nat
      /\ \A r \in Procs : /\ run[r].session \in Nat /\ run[r].standing.session \in Nat
                          /\ run[r].kind \in Kinds /\ run[r].pc \in Places(run[r].kind)
                          /\ run'[r].kind \in Kinds /\ run'[r].pc \in Places(run'[r].kind)
  BY DEF Typed, DbTyped, AcctTyped, IssuedTyped, RunTyped, Findings
<1>1. hist.fetched \subseteq hist'.fetched
  BY DEF RunStep
<1>2. ASSUME NEW p \in Procs, run'[p].pc \in {"cover", "finish", "switch"}
      PROVE  Pair(run'[p]) \in hist'.fetched
  <2>1. Carries(p)
    BY <1>2 DEF RunStep, Idles, Captures, Issues, Binds, Idle
  <2>2. Pair(run'[p]) = Pair(run[p])
    BY <2>1 DEF Carries, Pair
  <2>3. Pair(run[p]) \in hist'.fetched
    <3>1. CASE run[p].pc \in {"cover", "finish", "switch"}
      BY <3>1, <1>1 DEF FetchedFirst
    <3>2. CASE run'[p].pc \in {"cover", "finish"} /\ Pair(run[p]) \in hist'.fetched
      BY <3>2
    <3>3. CASE run[p].kind = "renew" /\ run[p].pc # "release"
               /\ db.sync.session = run[p].session
      BY <3>3, <1>1 DEF FetchedFirst
    <3> QED
      BY <3>1, <3>2, <3>3, <2>1, <1>2 DEF Carries
  <2> QED
    BY <2>2, <2>3
<1>3. ASSUME NEW p \in Procs, run'[p].kind = "renew", run'[p].pc # "release"
      PROVE  /\ db'.sync.session = run'[p].session => Pair(run'[p]) \in hist'.fetched
             /\ \A q \in Procs : run'[q].standing.session = run'[p].session
                                 => Pair(run'[p]) \in hist'.fetched
  <2>1. Pledged(run'[p])
    BY <1>3 DEF Pledged
  <2>2. CASE Issues(p)
    <3>1. /\ run'[p].session = issued.session + 1 /\ run'[p].standing.session = 0
          /\ \A r \in Procs \ {p} : run'[r] = run[r]
          /\ db' = db
      BY <2>2 DEF Issues, NoSync
    <3> QED
      BY <3>1, <1>0 DEF SessionsIssued
  <2>3. CASE Pledged(run[p]) /\ Carries(p)
    <3>1. /\ run'[p].session = run[p].session /\ Pair(run'[p]) = Pair(run[p])
          /\ run[p].kind = "renew" /\ run[p].pc # "release"
      BY <2>3, <1>3 DEF Carries, Pair, Pledged
    <3>2. /\ db.sync.session = run[p].session => Pair(run[p]) \in hist.fetched
          /\ \A q \in Procs : run[q].standing.session = run[p].session
                              => Pair(run[p]) \in hist.fetched
          /\ run[p].pc = "finish" => Pair(run[p]) \in hist.fetched
      BY <3>1 DEF FetchedFirst
    <3>3. /\ run[p].session # 0 /\ \A q \in Procs \ {p} : run[q].session # run[p].session
      BY <2>3 DEF PledgesAreOwn
    <3>4. db'.sync.session = run[p].session => Pair(run[p]) \in hist.fetched
      <4>1. CASE db'.sync.session \in {db.sync.session, 0}
        BY <4>1, <3>2, <3>3
      <4>2. ASSUME NEW q \in Procs, run[q].pc = "finish", db'.sync.session = run[q].session
            PROVE  db'.sync.session = run[p].session => Pair(run[p]) \in hist.fetched
        BY <4>2, <3>2, <3>3
      <4>3. ASSUME NEW q \in Procs, db'.sync.session = run[q].standing.session
            PROVE  db'.sync.session = run[p].session => Pair(run[p]) \in hist.fetched
        BY <4>3, <3>2
      <4> QED
        BY <4>1, <4>2, <4>3 DEF DbStep
    <3>5. ASSUME NEW q \in Procs, run'[q].standing.session = run[p].session
          PROVE  Pair(run[p]) \in hist.fetched
      <4>1. \/ run'[q].standing = run[q].standing \/ run'[q].standing.session = 0
            \/ run'[q].standing.session = db.sync.session
        BY DEF RunStep, Idles, Idle, NoSync, Carries, Captures, Issues, Binds
      <4> QED
        BY <4>1, <3>5, <3>2, <3>3
    <3> QED
      BY <3>1, <3>4, <3>5, <1>1
  <2> QED
    BY <2>1, <2>2, <2>3, PledgeHeld
<1> QED
  BY <1>2, <1>3 DEF FetchedFirst

LEMMA SwitchedNext ==
  ASSUME FetchedFirst, SwitchedAfterFetch, RunStep, DbStep
  PROVE  SwitchedAfterFetch'
<1>1. {Pair(run[q]) : q \in {r \in Procs : run[r].pc = "switch"}} \subseteq hist.fetched
  BY DEF FetchedFirst
<1> QED
  BY <1>1 DEF SwitchedAfterFetch, RunStep, DbStep

\* The record and the history of the syncs stay, and the account at most
\* changes to a consent nobody knows.
LEMMA HealthStays ==
  ASSUME Typed, Typed', PledgesAreOwn, HealthKept, AcctStep,
         db'.health = db.health, hist'.okAt = hist.okAt
  PROVE  HealthKept'
<1>1. CASE db'.acct.session = db.acct.session
  BY <1>1 DEF HealthKept
<1>2. CASE db'.acct.session = 0
  BY <1>2 DEF HealthKept
<1>3. ASSUME NEW q \in Procs, Pledged(run[q]), db'.acct.session = run[q].session
      PROVE  HealthKept'
  <2>1. hist.okAt.session # db'.acct.session
    BY <1>3 DEF PledgesAreOwn
  <2> QED
    BY <2>1 DEF HealthKept
<1> QED
  BY <1>1, <1>2, <1>3 DEF AcctStep

-----------------------------------------------------------------------------
(* The actions, one by one.                                                *)

StepKept == Typed' /\ RunStep /\ DbStep /\ HealthKept' /\ ErasedIsBare'

OthersStay(p) == DOMAIN run' = Procs /\ \A q \in Procs \ {p} : run'[q] = run[q]

\* The process is still in the call it was in.
SameCall(p) ==
  /\ DOMAIN run'[p] = Runs
  /\ run'[p].kind = run[p].kind /\ run'[p].session = run[p].session
  /\ run'[p].life = run[p].life /\ run'[p].started = run[p].started
  /\ run'[p].standing = run[p].standing

\* Neither the account, nor the health of its consent, nor the history changes.
BindingStays ==
  /\ db'.acct.session = db.acct.session /\ db'.health = db.health
  /\ db'.sync.session = db.sync.session
  /\ hist'.okAt = hist.okAt /\ hist'.switched = hist.switched
  /\ hist.fetched \subseteq hist'.fetched

IssuedStays == IssuedTyped(issued') /\ issued'.session = issued.session

LEMMA IdleTyped == RunTyped(Idle)
BY DEF RunTyped, Idle, Runs, Kinds, Places, NoSync, Findings

LEMMA StayCarries ==
  ASSUME NEW q \in Procs, run'[q] = run[q]
  PROVE  Carries(q)
BY DEF Carries

LEMMA OneRunStep ==
  ASSUME Typed, NEW p \in Procs, OthersStay(p), RunTyped(run'[p]), IssuedStays,
         Idles(p) \/ Carries(p) \/ Captures(p) \/ Binds(p),
         hist.fetched \subseteq hist'.fetched
  PROVE  RunStep /\ DOMAIN run' = Procs /\ \A q \in Procs : RunTyped(run'[q])
<1>1. issued'.session >= issued.session
  BY DEF IssuedStays, Typed, IssuedTyped
<1>2. \A q \in Procs \ {p} : Carries(q) /\ RunTyped(run'[q])
  BY StayCarries DEF OthersStay, Typed
<1> QED
  BY <1>1, <1>2 DEF OthersStay, RunStep

LEMMA BindingKept ==
  ASSUME LedgerInv, Typed', BindingStays
  PROVE  DbStep /\ HealthKept'
<1>1. AcctStep
  BY DEF AcctStep, BindingStays
<1>2. DbStep
  BY <1>1 DEF DbStep, BindingStays
<1>3. HealthKept'
  BY <1>1, HealthStays DEF LedgerInv, BindingStays
<1> QED
  BY <1>2, <1>3

\* A step of one run that leaves the account's binding alone.
LEMMA OneRun ==
  ASSUME LedgerInv, NEW p \in Procs, OthersStay(p), RunTyped(run'[p]), IssuedStays,
         Idles(p) \/ Carries(p) \/ Captures(p) \/ Binds(p),
         sc' = sc, DbTyped(db'), HistTyped(hist'), BindingStays, ErasedIsBare'
  PROVE  StepKept
<1>1. Typed
  BY DEF LedgerInv
<1>2. RunStep /\ DOMAIN run' = Procs /\ \A q \in Procs : RunTyped(run'[q])
  BY <1>1, OneRunStep DEF BindingStays
<1>3. Typed'
  BY <1>1, <1>2 DEF Typed, IssuedStays
<1>4. DbStep /\ HealthKept'
  BY <1>3, BindingKept
<1> QED
  BY <1>2, <1>3, <1>4 DEF StepKept

\* A step of one run that writes nothing.
LEMMA OneRunReads ==
  ASSUME LedgerInv, NEW p \in Procs, OthersStay(p), RunTyped(run'[p]), IssuedStays,
         Idles(p) \/ Carries(p) \/ Captures(p),
         sc' = sc, db' = db, hist' = hist
  PROVE  StepKept
<1>1. DbTyped(db') /\ HistTyped(hist') /\ BindingStays
  BY DEF LedgerInv, Typed, BindingStays
<1>2. ErasedIsBare'
  BY DEF LedgerInv, ErasedIsBare
<1> QED
  BY <1>1, <1>2, OneRun

LEMMA IssuedSame ==
  ASSUME LedgerInv, issued' = issued
  PROVE  IssuedStays
BY DEF LedgerInv, Typed, IssuedStays

LEMMA SameCallCarries ==
  ASSUME LedgerInv, NEW p \in Procs, SameCall(p), run'[p].pc \in Places(run[p].kind),
         run[p].pc # "release", run'[p].pc # "binding",
         run'[p].pc \in {"cover", "finish"} =>
           run[p].pc \in {"cover", "finish"} \/ Pair(run[p]) \in hist'.fetched,
         run'[p].pc = "switch" =>
           \/ run[p].pc = "switch"
           \/ run[p].kind = "renew" /\ db.sync.session = run[p].session
  PROVE  RunTyped(run'[p]) /\ Carries(p)
<1>1. RunTyped(run[p])
  BY DEF LedgerInv, Typed
<1>2. RunTyped(run'[p])
  BY <1>1 DEF RunTyped, SameCall
<1>3. Pledged(run'[p]) => Pledged(run[p])
  BY DEF Pledged, SameCall
<1>4. Carries(p)
  BY <1>3 DEF Carries, SameCall
<1> QED
  BY <1>2, <1>4

LEMMA GotoEffect ==
  ASSUME Typed, NEW p \in Procs, NEW pc, Goto(p, pc)
  PROVE  OthersStay(p) /\ SameCall(p) /\ run'[p].pc = pc
BY DEF Goto, Typed, RunTyped, Runs, OthersStay, SameCall

LEMMA ReplyEffect ==
  ASSUME Typed, NEW p \in Procs, NEW pc, NEW out, Reply(p, out, pc)
  PROVE  OthersStay(p) /\ SameCall(p) /\ run'[p].pc = pc
BY DEF Reply, Typed, RunTyped, Runs, OthersStay, SameCall

LEMMA StopEffect ==
  ASSUME Typed, NEW p \in Procs, run' = [run EXCEPT ![p] = Idle]
  PROVE  OthersStay(p) /\ RunTyped(run'[p]) /\ Idles(p)
BY IdleTyped DEF Typed, OthersStay, Idles

\* Where a run is tells what kind of run it is.
LEMMA KindsAt ==
  ASSUME NEW r, RunTyped(r)
  PROVE  /\ r.pc \in {"admitted", "claiming", "claimed", "bound", "note"}
              => r.kind \in {"routine", "balances"}
         /\ r.pc \in {"restore", "health", "check", "told"} => r.kind = "routine"
         /\ r.pc \in {"figures", "write"} => r.kind = "balances"
         /\ r.pc \in {"window", "asking", "incomplete", "load", "measure", "apply", "cover",
                      "finish"} => r.kind \in {"link", "renew", "routine"}
         /\ r.pc \in {"ready", "switch"} => r.kind = "renew"
         /\ r.pc = "preempt" => r.kind \in {"link", "renew"}
         /\ r.pc = "binding" => r.kind = "link"
         /\ r.pc = "idle" => r.kind = "none"
<1>1. CASE r.kind = "none"
  BY <1>1 DEF RunTyped, Places
<1>2. CASE r.kind = "link"
  BY <1>2 DEF RunTyped, Places, Asking
<1>3. CASE r.kind = "renew"
  BY <1>3 DEF RunTyped, Places, Asking
<1>4. CASE r.kind = "routine"
  BY <1>4 DEF RunTyped, Places, Asking
<1>5. CASE r.kind = "balances"
  BY <1>5 DEF RunTyped, Places
<1> QED
  BY <1>1, <1>2, <1>3, <1>4, <1>5 DEF RunTyped, Kinds

LEMMA PlaceNames ==
  /\ \A k \in {"routine", "balances"} :
       {"admitted", "claiming", "claimed", "bound", "note", "release"} \subseteq Places(k)
  /\ {"restore", "health", "check", "told"} \subseteq Places("routine")
  /\ {"figures", "write"} \subseteq Places("balances")
  /\ \A k \in {"link", "renew", "routine"} : Asking \subseteq Places(k)
  /\ \A k \in {"link", "renew"} : "preempt" \in Places(k)
  /\ {"ready", "switch"} \subseteq Places("renew")
  /\ "binding" \in Places("link")
<1>1. /\ {"admitted", "claiming", "claimed", "bound", "note", "release"} \subseteq Places("routine")
      /\ {"restore", "health", "check", "told"} \subseteq Places("routine")
      /\ Asking \subseteq Places("routine")
  BY DEF Places, Asking
<1>2. /\ {"admitted", "claiming", "claimed", "bound", "note", "release"} \subseteq Places("balances")
      /\ {"figures", "write"} \subseteq Places("balances")
  BY DEF Places, Asking
<1>3. /\ Asking \subseteq Places("link") /\ "preempt" \in Places("link")
      /\ "binding" \in Places("link")
  BY DEF Places, Asking
<1>4. /\ Asking \subseteq Places("renew") /\ "preempt" \in Places("renew")
      /\ {"ready", "switch"} \subseteq Places("renew")
  BY DEF Places, Asking
<1> QED
  BY <1>1, <1>2, <1>3, <1>4

-----------------------------------------------------------------------------
(* Admission, the claim and the captured account.                          *)

LEMMA AdmitStep ==
  ASSUME LedgerInv, NEW p \in Procs, NEW kind \in {"routine", "balances"}, NEW automatic,
         Admit(p, kind, automatic)
  PROVE  StepKept
<1>1. /\ DOMAIN run = Procs /\ RunTyped(run[p]) /\ DOMAIN run[p] = Runs
  BY DEF LedgerInv, Typed, RunTyped
<1>2. run' = [run EXCEPT ![p].pc = "admitted", ![p].kind = kind]
  BY DEF Admit
<1>3. /\ OthersStay(p) /\ DOMAIN run'[p] = Runs
      /\ run'[p].kind = kind /\ run'[p].pc = "admitted"
      /\ run'[p].session = run[p].session /\ run'[p].started = run[p].started
      /\ run'[p].standing = run[p].standing
  BY <1>1, <1>2 DEF OthersStay, Runs
<1>4. RunTyped(run'[p])
  BY <1>1, <1>3, PlaceNames DEF RunTyped, Kinds
<1>5. run[p].kind = "none"
  BY <1>1, KindsAt DEF Admit
<1>6. Captures(p)
  BY <1>3, <1>5 DEF Captures
<1>7. IssuedStays
  BY IssuedSame DEF Admit
<1> QED
  BY <1>3, <1>4, <1>6, <1>7, OneRunReads DEF Admit

LEMMA ReadClaimStep ==
  ASSUME LedgerInv, NEW p \in Procs, ReadClaim(p)
  PROVE  StepKept
<1>1. Typed /\ RunTyped(run[p]) /\ IssuedStays
  BY IssuedSame DEF LedgerInv, Typed, ReadClaim
<1>2. run[p].kind \in {"routine", "balances"}
  BY <1>1, KindsAt DEF ReadClaim
<1>3. CASE run' = [run EXCEPT ![p] = Idle]
  BY <1>1, <1>3, StopEffect, OneRunReads DEF ReadClaim
<1>4. CASE Goto(p, "claiming")
  <2>1. OthersStay(p) /\ SameCall(p) /\ run'[p].pc = "claiming"
    BY <1>1, <1>4, GotoEffect
  <2>2. RunTyped(run'[p]) /\ Carries(p)
    BY <2>1, <1>2, SameCallCarries, PlaceNames DEF ReadClaim
  <2> QED
    BY <1>1, <2>1, <2>2, OneRunReads DEF ReadClaim
<1> QED
  BY <1>3, <1>4 DEF ReadClaim

\* A statement that changes nothing but the claim.
LEMMA ClaimOnly ==
  ASSUME LedgerInv, NEW c, db' = [db EXCEPT !.claim = c] \/ db' = db, hist' = hist
  PROVE  DbTyped(db') /\ HistTyped(hist') /\ BindingStays /\ ErasedIsBare'
<1>1. DbTyped(db) /\ HistTyped(hist) /\ ErasedIsBare
  BY DEF LedgerInv, Typed
<1>2. /\ DOMAIN db' = DOMAIN db /\ db'.acct = db.acct /\ db'.health = db.health
      /\ db'.sync = db.sync /\ db'.rows = db.rows /\ db'.cover = db.cover
      /\ db'.bals = db.bals /\ db'.evid = db.evid
  BY <1>1 DEF DbTyped
<1> QED
  BY <1>1, <1>2 DEF DbTyped, BindingStays, ErasedIsBare

LEMMA WriteClaimStep ==
  ASSUME LedgerInv, NEW p \in Procs, WriteClaim(p)
  PROVE  StepKept
<1>1. Typed /\ RunTyped(run[p]) /\ IssuedStays
  BY IssuedSame DEF LedgerInv, Typed, WriteClaim
<1>2. run[p].kind \in {"routine", "balances"}
  BY <1>1, KindsAt DEF WriteClaim
<1>3. OthersStay(p) /\ SameCall(p) /\ run'[p].pc = "claimed"
  BY <1>1, GotoEffect DEF WriteClaim
<1>4. RunTyped(run'[p]) /\ Carries(p)
  BY <1>2, <1>3, SameCallCarries, PlaceNames DEF WriteClaim
<1>5. DbTyped(db') /\ HistTyped(hist') /\ BindingStays /\ ErasedIsBare'
  BY ClaimOnly DEF WriteClaim
<1> QED
  BY <1>1, <1>3, <1>4, <1>5, OneRun DEF WriteClaim

LEMMA CaptureStep ==
  ASSUME LedgerInv, NEW p \in Procs, Capture(p)
  PROVE  StepKept
<1>1. Typed /\ RunTyped(run[p]) /\ IssuedTyped(issued) /\ DbTyped(db) /\ DOMAIN run = Procs
  BY DEF LedgerInv, Typed
<1>2. run[p].kind \in {"routine", "balances"}
  BY <1>1, KindsAt DEF Capture
<1>3. CASE run' = [run EXCEPT ![p] = Idle] /\ UNCHANGED issued
  BY <1>1, <1>3, StopEffect, IssuedSame, OneRunReads DEF Capture
<1>4. CASE db.claim # NoClaim
  <2> DEFINE pc == CASE ~db.acct.live -> "release"
                     [] db.acct.live /\ db.acct.session = 0 -> "note"
                     [] OTHER -> "bound"
             out == IF db.acct.session = 0 THEN "failed" ELSE "ok"
  <2>1. /\ issued' = [issued EXCEPT !.tick = @ + 1]
        /\ run' = [run EXCEPT
             ![p].held = db.claim.by, ![p].life = db.acct.life,
             ![p].session = db.acct.session, ![p].started = issued.tick + 1,
             ![p].out = out, ![p].pc = pc]
    BY <1>4 DEF Capture
  <2>2. pc \in {"release", "note", "bound"}
    OBVIOUS
  <2> HIDE DEF pc, out
  <2>3. DOMAIN run[p] = Runs
    BY <1>1 DEF RunTyped
  <2>4. /\ OthersStay(p) /\ DOMAIN run'[p] = Runs /\ run'[p].kind = run[p].kind
        /\ run'[p].pc = pc /\ run'[p].session = db.acct.session
        /\ run'[p].started = issued.tick + 1 /\ run'[p].standing = run[p].standing
    BY <1>1, <2>1, <2>3 DEF OthersStay, Runs
  <2>5. issued.tick \in Nat /\ db.acct.session \in Nat
    BY <1>1 DEF IssuedTyped, DbTyped, AcctTyped
  <2>6. RunTyped(run'[p])
    BY <1>1, <1>2, <2>2, <2>4, <2>5, PlaceNames DEF RunTyped
  <2>7. Captures(p)
    BY <1>2, <2>2, <2>4 DEF Captures
  <2>8. IssuedStays
    BY <1>1, <2>1, <2>5 DEF IssuedStays, IssuedTyped
  <2> QED
    BY <2>4, <2>6, <2>7, <2>8, OneRunReads DEF Capture
<1> QED
  BY <1>3, <1>4 DEF Capture

\* A fenced write that leaves the account's binding alone.
LEMMA FencedKeeps ==
  ASSUME LedgerInv, NEW p \in Procs, NEW new, Fenced(p, new), hist' = hist,
         DbTyped(new), new.acct = db.acct, new.health = db.health,
         new.sync.session = db.sync.session
  PROVE  DbTyped(db') /\ HistTyped(hist') /\ BindingStays /\ ErasedIsBare'
<1>1. DbTyped(db) /\ HistTyped(hist) /\ ErasedIsBare
  BY DEF LedgerInv, Typed
<1>2. CASE Lives(p)
  <2>1. db' = new /\ db.acct.live
    BY <1>2 DEF Fenced, Lives
  <2> QED
    BY <1>1, <2>1 DEF BindingStays, ErasedIsBare
<1>3. CASE ~Lives(p)
  <2>1. db' = db
    BY <1>3 DEF Fenced
  <2> QED
    BY <1>1, <2>1 DEF BindingStays, ErasedIsBare
<1> QED
  BY <1>2, <1>3

LEMMA DbUnchanged ==
  ASSUME LedgerInv, db' = db, hist' = hist
  PROVE  DbTyped(db') /\ HistTyped(hist') /\ BindingStays /\ ErasedIsBare'
BY DEF LedgerInv, Typed, BindingStays, ErasedIsBare

\* A statement on the sync record that keeps its session.
LEMMA SyncUpdated ==
  ASSUME LedgerInv, NEW d, NEW s \in Findings, d = [db EXCEPT !.sync = s],
         s.session = db.sync.session
  PROVE  /\ DbTyped(d) /\ d.acct = db.acct /\ d.health = db.health
         /\ d.sync.session = db.sync.session
BY DEF LedgerInv, Typed, DbTyped

LEMMA StampStep ==
  ASSUME LedgerInv, NEW p \in Procs, Stamp(p)
  PROVE  StepKept
<1>1. Typed /\ RunTyped(run[p]) /\ DbTyped(db) /\ DOMAIN run = Procs /\ IssuedStays
  BY IssuedSame DEF LedgerInv, Typed, Stamp
<1>2. run[p].kind \in {"routine", "balances"}
  BY <1>1, KindsAt DEF Stamp
<1> DEFINE standing == [db.sync EXCEPT !.wait = FALSE, !.recent = FALSE]
           pc == IF run[p].kind = "balances" THEN "figures" ELSE "window"
           stamped == [db.sync EXCEPT !.row = @ \/ run[p].kind # "balances", !.recent = TRUE]
<1>3. run' = [run EXCEPT ![p].standing = standing, ![p].pc = pc]
  BY DEF Stamp
<1>4. /\ standing \in Findings /\ standing.session = db.sync.session
      /\ stamped \in Findings /\ stamped.session = db.sync.session
  BY <1>1 DEF DbTyped, Findings
<1>5. pc \in Places(run[p].kind) /\ pc \in {"figures", "window"}
  BY <1>2, PlaceNames DEF Asking
<1>6. [db EXCEPT !.sync.row = @ \/ run[p].kind # "balances", !.sync.recent = TRUE]
        = [db EXCEPT !.sync = stamped]
  BY <1>1 DEF DbTyped
<1>7. Fenced(p, [db EXCEPT !.sync = stamped])
  BY <1>6 DEF Stamp
<1> HIDE DEF standing, pc, stamped
<1>8. DOMAIN run[p] = Runs
  BY <1>1 DEF RunTyped
<1>9. /\ OthersStay(p) /\ DOMAIN run'[p] = Runs /\ run'[p].kind = run[p].kind
      /\ run'[p].pc = pc /\ run'[p].session = run[p].session
      /\ run'[p].started = run[p].started /\ run'[p].standing = standing
  BY <1>1, <1>3, <1>8 DEF OthersStay, Runs
<1>10. RunTyped(run'[p])
  BY <1>1, <1>4, <1>5, <1>9 DEF RunTyped
<1>11. Captures(p)
  BY <1>2, <1>4, <1>5, <1>9 DEF Captures
<1>12. DbTyped(db') /\ HistTyped(hist') /\ BindingStays /\ ErasedIsBare'
  BY <1>4, <1>7, SyncUpdated, FencedKeeps DEF Stamp
<1> QED
  BY <1>1, <1>9, <1>10, <1>11, <1>12, OneRun DEF Stamp

-----------------------------------------------------------------------------
(* The window, the answer and what is loaded.                              *)

\* A step that reads on, in a fetch.
LEMMA FetchReads ==
  ASSUME LedgerInv, NEW p \in Procs, OthersStay(p), SameCall(p),
         run[p].kind \in {"link", "renew", "routine"}, run[p].pc \notin {"release", "cover"},
         run'[p].pc \in {"asking", "incomplete", "load", "measure", "apply"},
         UNCHANGED <<sc, db, issued, hist>>
  PROVE  StepKept
<1>1. RunTyped(run'[p]) /\ Carries(p)
  BY SameCallCarries, PlaceNames DEF Asking
<1>2. IssuedStays
  BY IssuedSame
<1> QED
  BY <1>1, <1>2, OneRunReads

LEMMA WindowStep ==
  ASSUME LedgerInv, NEW p \in Procs, Window(p)
  PROVE  StepKept
<1>1. DOMAIN run = Procs /\ RunTyped(run[p]) /\ DOMAIN run[p] = Runs
  BY DEF LedgerInv, Typed, RunTyped
<1> DEFINE from == today - (IF Deep(p) THEN DeepWindow ELSE RefreshWindowDays)
           end == today + 1
<1>2. run' = [run EXCEPT ![p].from = from, ![p].end = end, ![p].pc = "asking"]
  BY DEF Window
<1> HIDE DEF from, end
<1>3. OthersStay(p) /\ SameCall(p) /\ run'[p].pc = "asking"
  BY <1>1, <1>2 DEF OthersStay, SameCall, Runs
<1> QED
  BY <1>1, <1>3, KindsAt, FetchReads DEF Window

LEMMA AnswerStep ==
  ASSUME LedgerInv, NEW p \in Procs, NEW older, Answer(p, older)
  PROVE  StepKept
<1>1. DOMAIN run = Procs /\ RunTyped(run[p]) /\ DOMAIN run[p] = Runs
  BY DEF LedgerInv, Typed, RunTyped
<1> DEFINE page == Listing(run[p].from, older)
<1>2. run' = [run EXCEPT ![p].page = page, ![p].pc = "load"]
  BY DEF Answer
<1> HIDE DEF page
<1>3. OthersStay(p) /\ SameCall(p) /\ run'[p].pc = "load"
  BY <1>1, <1>2 DEF OthersStay, SameCall, Runs
<1> QED
  BY <1>1, <1>3, KindsAt, FetchReads DEF Answer

LEMMA NoAnswerStep ==
  ASSUME LedgerInv, NEW p \in Procs, NEW out, NoAnswer(p, out)
  PROVE  StepKept
<1>1. Typed /\ RunTyped(run[p])
  BY DEF LedgerInv, Typed
<1>2. OthersStay(p) /\ SameCall(p) /\ run'[p].pc = "incomplete"
  BY <1>1, ReplyEffect DEF NoAnswer
<1> QED
  BY <1>1, <1>2, KindsAt, FetchReads DEF NoAnswer

LEMMA LoadStep ==
  ASSUME LedgerInv, NEW p \in Procs, Load(p)
  PROVE  StepKept
<1>1. DOMAIN run = Procs /\ RunTyped(run[p]) /\ DOMAIN run[p] = Runs
  BY DEF LedgerInv, Typed, RunTyped
<1>2. PICK view : run' = [run EXCEPT ![p].view = view, ![p].pc = "measure"]
  BY DEF Load
<1>3. OthersStay(p) /\ SameCall(p) /\ run'[p].pc = "measure"
  BY <1>1, <1>2 DEF OthersStay, SameCall, Runs
<1> QED
  BY <1>1, <1>3, KindsAt, FetchReads DEF Load

LEMMA AllocateStep ==
  ASSUME LedgerInv, NEW p \in Procs, Allocate(p)
  PROVE  StepKept
<1>1. DOMAIN run = Procs /\ RunTyped(run[p]) /\ DOMAIN run[p] = Runs
  BY DEF LedgerInv, Typed, RunTyped
<1>2. PICK trusted, alloc :
        run' = [run EXCEPT ![p].view.trusted = trusted, ![p].alloc = alloc, ![p].pc = "apply"]
  BY DEF Allocate
<1>3. OthersStay(p) /\ SameCall(p) /\ run'[p].pc = "apply"
  BY <1>1, <1>2 DEF OthersStay, SameCall, Runs
<1> QED
  BY <1>1, <1>3, KindsAt, FetchReads DEF Allocate

\* Where a fetch continues is a place of its kind.
LEMMA AfterNames ==
  ASSUME NEW p \in Procs, run[p].kind \in {"link", "renew", "routine"}
  PROVE  /\ AfterFetch(p) \in Places(run[p].kind) \cap {"ready", "release", "restore"}
         /\ AfterError(p) \in Places(run[p].kind) \cap {"note", "release"}
<1>1. CASE run[p].kind = "link"
  BY <1>1, PlaceNames DEF AfterFetch, AfterError, Deep, Asking
<1>2. CASE run[p].kind = "renew"
  BY <1>2, PlaceNames DEF AfterFetch, AfterError, Deep, Asking
<1>3. CASE run[p].kind = "routine"
  BY <1>3, PlaceNames DEF AfterFetch, AfterError, Deep, Asking
<1> QED
  BY <1>1, <1>2, <1>3

LEMMA IncompleteStep ==
  ASSUME LedgerInv, NEW p \in Procs, Incomplete(p)
  PROVE  StepKept
<1>1. Typed /\ RunTyped(run[p]) /\ DbTyped(db) /\ IssuedStays
  BY IssuedSame DEF LedgerInv, Typed, Incomplete
<1>2. run[p].kind \in {"link", "renew", "routine"} /\ run[p].pc = "incomplete"
  BY <1>1, KindsAt DEF Incomplete
<1> DEFINE pc == IF run[p].out = "capped" THEN AfterFetch(p) ELSE AfterError(p)
           partial == [row |-> TRUE, comp |-> "partial", wait |-> FALSE,
                       session |-> db.sync.session, recent |-> TRUE]
<1>3. pc \in Places(run[p].kind) /\ pc \in {"ready", "release", "restore", "note"}
  BY <1>2, AfterNames
<1>4. Goto(p, pc) /\ Fenced(p, [db EXCEPT !.sync = partial])
  BY DEF Incomplete
<1>5. partial \in Findings /\ partial.session = db.sync.session
  BY <1>1 DEF DbTyped, Findings
<1> HIDE DEF pc, partial
<1>6. OthersStay(p) /\ SameCall(p) /\ run'[p].pc = pc
  BY <1>1, <1>4, GotoEffect
<1>7. RunTyped(run'[p]) /\ Carries(p)
  BY <1>2, <1>3, <1>6, SameCallCarries
<1>8. DbTyped(db') /\ HistTyped(hist') /\ BindingStays /\ ErasedIsBare'
  BY <1>4, <1>5, SyncUpdated, FencedKeeps DEF Incomplete
<1> QED
  BY <1>1, <1>6, <1>7, <1>8, OneRun DEF Incomplete

LEMMA NoteFailureStep ==
  ASSUME LedgerInv, NEW p \in Procs, NoteFailure(p)
  PROVE  StepKept
<1>1. Typed /\ RunTyped(run[p]) /\ DbTyped(db) /\ IssuedStays
  BY IssuedSame DEF LedgerInv, Typed, NoteFailure
<1>2. run[p].kind \in {"routine", "balances"} /\ run[p].pc = "note"
  BY <1>1, KindsAt DEF NoteFailure
<1> DEFINE pc == IF run[p].kind = "balances" THEN "release" ELSE "health"
           noted == [db.sync EXCEPT !.row = @ \/ run[p].kind # "balances",
                                    !.wait = @ \/ run[p].out = "limited"]
<1>3. pc \in Places(run[p].kind) /\ pc \in {"release", "health"}
  BY <1>2, PlaceNames
<1>4. [db EXCEPT !.sync.row = @ \/ run[p].kind # "balances",
                 !.sync.wait = @ \/ run[p].out = "limited"] = [db EXCEPT !.sync = noted]
  BY <1>1 DEF DbTyped
<1>5. Goto(p, pc) /\ Fenced(p, [db EXCEPT !.sync = noted])
  BY <1>4 DEF NoteFailure
<1>6. noted \in Findings /\ noted.session = db.sync.session
  BY <1>1 DEF DbTyped, Findings
<1> HIDE DEF pc, noted
<1>7. OthersStay(p) /\ SameCall(p) /\ run'[p].pc = pc
  BY <1>1, <1>5, GotoEffect
<1>8. RunTyped(run'[p]) /\ Carries(p)
  BY <1>2, <1>3, <1>7, SameCallCarries
<1>9. DbTyped(db') /\ HistTyped(hist') /\ BindingStays /\ ErasedIsBare'
  BY <1>5, <1>6, SyncUpdated, FencedKeeps DEF NoteFailure
<1> QED
  BY <1>1, <1>7, <1>8, <1>9, OneRun DEF NoteFailure

-----------------------------------------------------------------------------
(* The transaction of an answer, and what follows it.                      *)

LEMMA ApplyStep ==
  ASSUME LedgerInv, NEW p \in Procs, Apply(p)
  PROVE  StepKept
<1>1. /\ Typed /\ RunTyped(run[p]) /\ DOMAIN run[p] = Runs /\ DOMAIN run = Procs
      /\ DbTyped(db) /\ HistTyped(hist) /\ IssuedTyped(issued)
  BY DEF LedgerInv, Typed, RunTyped
<1>2. /\ run[p].kind \in {"link", "renew", "routine"} /\ run[p].pc = "apply"
      /\ db.acct.live /\ sc' = sc
  BY <1>1, KindsAt DEF Apply, Lives
<1>3. ASSUME NEW rows, NEW alloc, NEW evid, NEW n, NEW spent, NEW proven,
             db' = [db EXCEPT !.rows = rows, !.alloc = alloc, !.evid = evid],
             issued' = [issued EXCEPT !.row = n],
             hist' = [hist EXCEPT !.spent = spent, !.proven = proven,
                                  !.fetched = @ \cup {<<run[p].session, run[p].life>>}],
             run' = [run EXCEPT ![p].view = NoView, ![p].alloc = NoAlloc, ![p].pc = "cover"]
      PROVE  StepKept
  <2>1. OthersStay(p) /\ SameCall(p) /\ run'[p].pc = "cover"
    BY <1>1, <1>3 DEF OthersStay, SameCall, Runs
  <2>2. /\ DOMAIN hist' = DOMAIN hist /\ hist'.okAt = hist.okAt
        /\ hist'.switched = hist.switched
        /\ hist'.fetched = hist.fetched \cup {Pair(run[p])}
    BY <1>1, <1>3 DEF HistTyped, Pair
  <2>3. RunTyped(run'[p]) /\ Carries(p)
    BY <1>2, <2>1, <2>2, SameCallCarries, PlaceNames DEF Asking
  <2>4. /\ DOMAIN db' = DOMAIN db /\ db'.acct = db.acct /\ db'.sync = db.sync
        /\ db'.health = db.health
    BY <1>1, <1>3 DEF DbTyped
  <2>5. DbTyped(db') /\ HistTyped(hist') /\ BindingStays
    BY <1>1, <2>2, <2>4 DEF DbTyped, HistTyped, BindingStays
  <2>6. ErasedIsBare'
    BY <1>2, <2>4 DEF ErasedIsBare
  <2>7. IssuedStays
    BY <1>1, <1>3 DEF IssuedStays, IssuedTyped
  <2> QED
    BY <1>2, <2>1, <2>3, <2>5, <2>6, <2>7, OneRun
<1>4. ASSUME run' = [run EXCEPT ![p].view = NoView, ![p].alloc = NoAlloc,
                                ![p].out = "failed", ![p].pc = AfterError(p)],
             UNCHANGED <<db, issued, hist>>
      PROVE  StepKept
  <2> DEFINE pc == AfterError(p)
  <2>1. pc \in Places(run[p].kind) /\ pc \in {"note", "release"}
    BY <1>2, AfterNames
  <2>2. run' = [run EXCEPT ![p].view = NoView, ![p].alloc = NoAlloc,
                           ![p].out = "failed", ![p].pc = pc]
    BY <1>4
  <2> HIDE DEF pc
  <2>3. OthersStay(p) /\ SameCall(p) /\ run'[p].pc = pc
    BY <1>1, <2>2 DEF OthersStay, SameCall, Runs
  <2>4. RunTyped(run'[p]) /\ Carries(p)
    BY <1>2, <2>1, <2>3, SameCallCarries
  <2>5. IssuedStays
    BY <1>4, IssuedSame
  <2> QED
    BY <1>2, <1>4, <2>3, <2>4, <2>5, OneRunReads
<1>5. PICK evid, plan, t :
        \/ /\ db' = [db EXCEPT !.rows = t.rows, !.alloc = t.alloc, !.evid = evid]
           /\ issued' = [issued EXCEPT !.row = @ + Len(plan.ins)]
           /\ hist' = [hist EXCEPT !.spent = @ \cup SpentPairs(t),
                         !.proven = @ \cup ProvedDays(run[p]),
                         !.fetched = @ \cup {<<run[p].session, run[p].life>>}]
           /\ run' = [run EXCEPT ![p].view = NoView, ![p].alloc = NoAlloc, ![p].pc = "cover"]
        \/ /\ run' = [run EXCEPT ![p].view = NoView, ![p].alloc = NoAlloc,
                                 ![p].out = "failed", ![p].pc = AfterError(p)]
           /\ UNCHANGED <<db, issued, hist>>
  BY Zenon DEF Apply
<1>6. CASE run' = [run EXCEPT ![p].view = NoView, ![p].alloc = NoAlloc,
                              ![p].out = "failed", ![p].pc = AfterError(p)]
           /\ UNCHANGED <<db, issued, hist>>
  BY <1>4, <1>6
<1>7. CASE /\ db' = [db EXCEPT !.rows = t.rows, !.alloc = t.alloc, !.evid = evid]
           /\ issued' = [issued EXCEPT !.row = @ + Len(plan.ins)]
           /\ hist' = [hist EXCEPT !.spent = @ \cup SpentPairs(t),
                         !.proven = @ \cup ProvedDays(run[p]),
                         !.fetched = @ \cup {<<run[p].session, run[p].life>>}]
           /\ run' = [run EXCEPT ![p].view = NoView, ![p].alloc = NoAlloc, ![p].pc = "cover"]
  <2> DEFINE rows == t.rows
             alloc == t.alloc
             n == issued.row + Len(plan.ins)
             spent == hist.spent \cup SpentPairs(t)
             proven == hist.proven \cup ProvedDays(run[p])
  <2>1. /\ db' = [db EXCEPT !.rows = rows, !.alloc = alloc, !.evid = evid]
        /\ issued' = [issued EXCEPT !.row = n]
        /\ hist' = [hist EXCEPT !.spent = spent, !.proven = proven,
                                !.fetched = @ \cup {<<run[p].session, run[p].life>>}]
        /\ run' = [run EXCEPT ![p].view = NoView, ![p].alloc = NoAlloc, ![p].pc = "cover"]
    BY <1>7
  <2> HIDE DEF rows, alloc, n, spent, proven
  <2> QED
    BY <2>1, <1>3
<1> QED
  BY <1>5, <1>6, <1>7

LEMMA ApplyErasedStep ==
  ASSUME LedgerInv, NEW p \in Procs, ApplyErased(p)
  PROVE  StepKept
<1>1. Typed /\ RunTyped(run[p]) /\ DOMAIN run[p] = Runs /\ DOMAIN run = Procs /\ IssuedStays
  BY IssuedSame DEF LedgerInv, Typed, RunTyped, ApplyErased
<1>2. run[p].kind \in {"link", "renew", "routine"} /\ run[p].pc = "apply"
  BY <1>1, KindsAt DEF ApplyErased
<1> DEFINE pc == AfterFetch(p)
<1>3. pc \in Places(run[p].kind) /\ pc \in {"ready", "release", "restore"}
  BY <1>2, AfterNames
<1>4. run' = [run EXCEPT ![p].view = NoView, ![p].alloc = NoAlloc, ![p].pc = pc]
  BY DEF ApplyErased
<1> HIDE DEF pc
<1>5. OthersStay(p) /\ SameCall(p) /\ run'[p].pc = pc
  BY <1>1, <1>4 DEF OthersStay, SameCall, Runs
<1>6. RunTyped(run'[p]) /\ Carries(p)
  BY <1>2, <1>3, <1>5, SameCallCarries
<1> QED
  BY <1>1, <1>5, <1>6, OneRunReads DEF ApplyErased

LEMMA RecordCoverageStep ==
  ASSUME LedgerInv, NEW p \in Procs, RecordCoverage(p)
  PROVE  StepKept
<1>1. Typed /\ RunTyped(run[p]) /\ DbTyped(db) /\ IssuedStays
  BY IssuedSame DEF LedgerInv, Typed, RecordCoverage
<1>2. run[p].kind \in {"link", "renew", "routine"} /\ run[p].pc = "cover"
  BY <1>1, KindsAt DEF RecordCoverage
<1>3. PICK pc : /\ pc \in {AfterError(p), AfterFetch(p), "finish"}
                /\ OthersStay(p) /\ SameCall(p) /\ run'[p].pc = pc
  <2>1. \/ Reply(p, "failed", AfterError(p))
        \/ Goto(p, AfterFetch(p)) \/ Goto(p, "finish")
    BY DEF RecordCoverage
  <2> QED
    BY <1>1, <2>1, GotoEffect, ReplyEffect
<1>4. pc \in Places(run[p].kind) /\ pc \notin {"binding", "switch"}
  BY <1>2, <1>3, AfterNames, PlaceNames DEF Asking
<1>5. RunTyped(run'[p]) /\ Carries(p)
  BY <1>2, <1>3, <1>4, SameCallCarries
<1>6. DbTyped(db') /\ HistTyped(hist') /\ BindingStays /\ ErasedIsBare'
  <2>1. CASE db' = db
    BY <2>1, DbUnchanged DEF RecordCoverage
  <2>2. ASSUME NEW cover, Fenced(p, [db EXCEPT !.cover = cover])
        PROVE  DbTyped(db') /\ HistTyped(hist') /\ BindingStays /\ ErasedIsBare'
    <3> DEFINE new == [db EXCEPT !.cover = cover]
    <3>1. /\ DbTyped(new) /\ new.acct = db.acct /\ new.health = db.health
          /\ new.sync.session = db.sync.session
      BY <1>1 DEF DbTyped
    <3> HIDE DEF new
    <3>2. Fenced(p, new)
      BY <2>2 DEF new
    <3> QED
      BY <3>1, <3>2, FencedKeeps DEF RecordCoverage
  <2> QED
    BY <2>1, <2>2 DEF RecordCoverage
<1> QED
  BY <1>1, <1>3, <1>5, <1>6, OneRun DEF RecordCoverage

\* A step of one run that writes what the conditions of DbStep allow.
LEMMA OneRunWrites ==
  ASSUME LedgerInv, NEW p \in Procs, OthersStay(p), RunTyped(run'[p]), IssuedStays,
         Idles(p) \/ Carries(p) \/ Captures(p) \/ Binds(p),
         sc' = sc, DbTyped(db'), HistTyped(hist'), hist.fetched \subseteq hist'.fetched
  PROVE  Typed' /\ RunStep
<1>1. Typed
  BY DEF LedgerInv
<1>2. RunStep /\ DOMAIN run' = Procs /\ \A q \in Procs : RunTyped(run'[q])
  BY <1>1, OneRunStep
<1> QED
  BY <1>1, <1>2 DEF Typed, IssuedStays

LEMMA FinishStep ==
  ASSUME LedgerInv, NEW p \in Procs, Finish(p)
  PROVE  StepKept
<1>1. Typed /\ RunTyped(run[p]) /\ DbTyped(db) /\ HistTyped(hist) /\ IssuedStays
  BY IssuedSame DEF LedgerInv, Typed, Finish
<1>2. run[p].kind \in {"link", "renew", "routine"} /\ run[p].pc = "finish" /\ hist' = hist
  BY <1>1, KindsAt DEF Finish
<1> DEFINE pc == AfterFetch(p)
           done == [row |-> TRUE, comp |-> "complete", wait |-> FALSE,
                    session |-> run[p].session, recent |-> TRUE]
<1>3. pc \in Places(run[p].kind) /\ pc \in {"ready", "release", "restore"}
  BY <1>2, AfterNames
<1>4. Goto(p, pc) /\ Fenced(p, [db EXCEPT !.sync = done])
  BY DEF Finish
<1>5. done \in Findings /\ done.session = run[p].session
  BY <1>1 DEF RunTyped, Findings
<1> HIDE DEF pc, done
<1>6. OthersStay(p) /\ SameCall(p) /\ run'[p].pc = pc
  BY <1>1, <1>4, GotoEffect
<1>7. RunTyped(run'[p]) /\ Carries(p)
  BY <1>2, <1>3, <1>6, SameCallCarries
<1>8. CASE Lives(p)
  <2>1. /\ DbTyped(db') /\ db'.acct = db.acct /\ db'.health = db.health
        /\ db'.sync.session = run[p].session
    BY <1>1, <1>4, <1>5, <1>8 DEF Fenced, DbTyped
  <2>2. ErasedIsBare'
    BY <1>8, <2>1 DEF Lives, ErasedIsBare
  <2>3. Typed' /\ RunStep
    BY <1>1, <1>2, <1>6, <1>7, <2>1, OneRunWrites DEF Finish
  <2>4. AcctStep /\ DbStep
    BY <1>2, <2>1 DEF AcctStep, DbStep
  <2>5. HealthKept'
    BY <1>2, <2>1, <2>3, <2>4, HealthStays DEF LedgerInv
  <2> QED
    BY <2>2, <2>3, <2>4, <2>5 DEF StepKept
<1>9. CASE ~Lives(p)
  <2>1. db' = db
    BY <1>4, <1>9 DEF Fenced
  <2> QED
    BY <1>1, <1>2, <1>6, <1>7, <2>1, OneRunReads DEF Finish
<1> QED
  BY <1>8, <1>9

-----------------------------------------------------------------------------
(* The end of a routine refresh.                                           *)

LEMMA RestoreStep ==
  ASSUME LedgerInv, NEW p \in Procs, Restore(p)
  PROVE  StepKept
<1>1. Typed /\ RunTyped(run[p]) /\ DbTyped(db) /\ HistTyped(hist) /\ IssuedStays
  BY IssuedSame DEF LedgerInv, Typed, Restore
<1>2. run[p].kind = "routine" /\ run[p].pc = "restore" /\ hist' = hist
  BY <1>1, KindsAt DEF Restore
<1>3. OthersStay(p) /\ SameCall(p) /\ run'[p].pc = "health"
  BY <1>1, GotoEffect DEF Restore
<1>4. RunTyped(run'[p]) /\ Carries(p)
  BY <1>2, <1>3, SameCallCarries, PlaceNames
<1>5. CASE db' = db
  BY <1>1, <1>2, <1>3, <1>4, <1>5, OneRunReads DEF Restore
<1>6. CASE /\ Lives(p)
           /\ db' = [db EXCEPT !.sync.comp = run[p].standing.comp,
                               !.sync.session = run[p].standing.session]
  <2>1. run[p].standing \in Findings
    BY <1>1 DEF RunTyped
  <2>2. /\ DbTyped(db') /\ db'.acct = db.acct /\ db'.health = db.health
        /\ db'.sync.session = run[p].standing.session
    BY <1>1, <1>6, <2>1 DEF DbTyped, Findings
  <2>3. ErasedIsBare'
    BY <1>6, <2>2 DEF Lives, ErasedIsBare
  <2>4. Typed' /\ RunStep
    BY <1>1, <1>2, <1>3, <1>4, <2>2, OneRunWrites DEF Restore
  <2>5. AcctStep /\ DbStep
    BY <1>2, <2>2 DEF AcctStep, DbStep
  <2>6. HealthKept'
    BY <1>2, <2>2, <2>4, <2>5, HealthStays DEF LedgerInv
  <2> QED
    BY <2>3, <2>4, <2>5, <2>6 DEF StepKept
<1> QED
  BY <1>5, <1>6 DEF Restore, Fenced

\* The record speaks of the latest sync again, whichever answer came last.
LEMMA HealthRecorded ==
  ASSUME Typed, HealthKept, NEW p \in Procs, RecordHealth(p)
  PROVE  /\ DbTyped(db') /\ HistTyped(hist') /\ HealthKept'
         /\ db'.acct = db.acct /\ db'.sync = db.sync
         /\ db' = db \/ db.acct.live
         /\ hist'.okAt.session \in {hist.okAt.session, db.acct.session}
         /\ hist'.switched = hist.switched /\ hist'.fetched = hist.fetched
<1> DEFINE r == run[p]
           writes == db.acct.live /\ db.acct.session = r.session /\ r.session # 0 /\ ~Overtaken(p)
           works == ~Failed(p) /\ db.acct.live /\ db.acct.session = r.session
                    /\ ~(hist.okAt.session = r.session /\ hist.okAt.started > r.started)
           record == IF Failed(p)
                     THEN [session |-> r.session, seen |-> r.started, failing |-> TRUE,
                           refusals |-> IF r.out # "refused" THEN 0
                                        ELSE IF db.health.session = r.session
                                             THEN db.health.refusals + 1 ELSE 1,
                           gone |-> db.health.session = r.session /\ db.health.gone]
                     ELSE [NoHealth EXCEPT !.session = r.session, !.seen = r.started]
<1>1. /\ DbTyped(db) /\ HistTyped(hist) /\ r.session \in Nat /\ r.started \in Nat
      /\ db.health \in Records /\ hist.okAt \in [session : Nat, started : Nat]
  BY DEF Typed, RunTyped, DbTyped, HistTyped
<1>2. /\ db' = IF writes THEN [db EXCEPT !.health = record] ELSE db
      /\ hist' = IF works THEN [hist EXCEPT !.okAt = [session |-> r.session,
                                                      started |-> r.started]]
                 ELSE hist
  BY DEF RecordHealth
<1>3. /\ record \in Records /\ record.session = r.session /\ record.seen = r.started
      /\ record.gone => record.failing
      /\ record.failing <=> Failed(p)
  <2>1. db.health.refusals \in Nat /\ db.health.gone \in BOOLEAN
    BY <1>1 DEF Records
  <2>2. CASE Failed(p)
    <3> DEFINE refusals == IF r.out # "refused" THEN 0
                           ELSE IF db.health.session = r.session
                                THEN db.health.refusals + 1 ELSE 1
               gone == db.health.session = r.session /\ db.health.gone
    <3>1. refusals \in Nat /\ gone \in BOOLEAN
      BY <2>1
    <3>2. record = [session |-> r.session, seen |-> r.started, failing |-> TRUE,
                    refusals |-> refusals, gone |-> gone]
      BY <2>2
    <3> HIDE DEF refusals, gone, r, record
    <3> QED
      BY <1>1, <2>2, <3>1, <3>2 DEF Records
  <2>3. CASE ~Failed(p)
    BY <1>1, <2>3 DEF Records, NoHealth
  <2> QED
    BY <2>2, <2>3
<1>4. /\ Overtaken(p) <=> db.health.session = r.session /\ r.started < db.health.seen
      /\ db.health.seen \in Nat /\ hist.okAt.started \in Nat
  BY <1>1 DEF Overtaken, Records
<1> HIDE DEF r, writes, works, record
<1>5. /\ db'.acct = db.acct /\ db'.sync = db.sync /\ DOMAIN db' = DOMAIN db
      /\ db'.health = IF writes THEN record ELSE db.health
      /\ db' = db \/ db.acct.live
  BY <1>1, <1>2 DEF DbTyped, writes
<1>6. /\ DOMAIN hist' = DOMAIN hist
      /\ hist'.switched = hist.switched /\ hist'.fetched = hist.fetched
      /\ hist'.okAt = IF works THEN [session |-> r.session, started |-> r.started]
                      ELSE hist.okAt
  BY <1>1, <1>2 DEF HistTyped
<1>7. DbTyped(db') /\ HistTyped(hist')
  BY <1>1, <1>3, <1>5, <1>6 DEF DbTyped, HistTyped
<1>8. /\ db'.health.gone => db'.health.failing
      /\ db'.health.failing => db'.health.session # 0
  BY <1>3, <1>5 DEF HealthKept, writes
<1>9. ASSUME hist'.okAt.session # 0, hist'.okAt.session = db.acct.session
      PROVE  db'.health.session = db.acct.session /\ db'.health.seen >= hist'.okAt.started
  <2>1. CASE works /\ writes
    BY <1>1, <1>3, <1>5, <1>6, <1>9, <2>1 DEF works
  <2>2. CASE works /\ ~writes
    <3>1. hist'.okAt.session = r.session /\ hist'.okAt.started = r.started
      BY <1>6, <2>2
    <3>2. Overtaken(p)
      BY <2>2, <3>1, <1>9 DEF works, writes
    <3> QED
      BY <1>1, <1>4, <1>5, <1>9, <2>2, <3>1, <3>2 DEF Records
  <2>3. CASE ~works /\ writes
    <3>1. hist'.okAt = hist.okAt /\ db.acct.session = r.session
      BY <1>6, <2>3 DEF writes
    <3>2. db.health.session = r.session /\ db.health.seen >= hist.okAt.started
      BY <1>9, <3>1 DEF HealthKept
    <3>3. r.started >= db.health.seen
      BY <1>1, <1>4, <2>3, <3>2 DEF writes, Records
    <3> QED
      BY <1>1, <1>3, <1>5, <2>3, <3>1, <3>2, <3>3 DEF Records
  <2>4. CASE ~works /\ ~writes
    BY <1>5, <1>6, <1>9, <2>4 DEF HealthKept
  <2> QED
    BY <2>1, <2>2, <2>3, <2>4
<1>10. HealthKept'
  BY <1>5, <1>8, <1>9 DEF HealthKept
<1>11. hist'.okAt.session \in {hist.okAt.session, db.acct.session}
  BY <1>6 DEF works
<1> QED
  BY <1>5, <1>6, <1>7, <1>10, <1>11

LEMMA RecordHealthStep ==
  ASSUME LedgerInv, NEW p \in Procs, RecordHealth(p)
  PROVE  StepKept
<1>1. Typed /\ RunTyped(run[p]) /\ IssuedStays /\ HealthKept /\ ErasedIsBare
  BY IssuedSame DEF LedgerInv, Typed, RecordHealth
<1>2. run[p].kind = "routine" /\ run[p].pc = "health"
  BY <1>1, KindsAt DEF RecordHealth
<1>3. /\ DbTyped(db') /\ HistTyped(hist') /\ HealthKept'
      /\ db'.acct = db.acct /\ db'.sync = db.sync
      /\ db' = db \/ db.acct.live
      /\ hist'.okAt.session \in {hist.okAt.session, db.acct.session}
      /\ hist'.switched = hist.switched /\ hist'.fetched = hist.fetched
  BY <1>1, HealthRecorded
<1> DEFINE pc == IF run[p].out = "refused" THEN "check" ELSE "release"
<1>4. pc \in {"check", "release"} /\ pc \in Places("routine") /\ Goto(p, pc)
  BY PlaceNames DEF RecordHealth, Asking
<1> HIDE DEF pc
<1>5. OthersStay(p) /\ SameCall(p) /\ run'[p].pc = pc
  BY <1>1, <1>4, GotoEffect
<1>6. RunTyped(run'[p]) /\ Carries(p)
  BY <1>2, <1>4, <1>5, SameCallCarries
<1>7. Typed' /\ RunStep
  BY <1>1, <1>3, <1>5, <1>6, OneRunWrites DEF RecordHealth
<1>8. DbStep
  BY <1>3 DEF DbStep, AcctStep
<1>9. ErasedIsBare'
  BY <1>1, <1>3 DEF ErasedIsBare
<1> QED
  BY <1>3, <1>7, <1>8, <1>9 DEF StepKept

LEMMA CheckConsentStep ==
  ASSUME LedgerInv, NEW p \in Procs, NEW answer, CheckConsent(p, answer)
  PROVE  StepKept
<1>1. Typed /\ RunTyped(run[p]) /\ IssuedStays
  BY IssuedSame DEF LedgerInv, Typed, CheckConsent
<1>2. run[p].kind = "routine" /\ run[p].pc = "check"
  BY <1>1, KindsAt DEF CheckConsent
<1>3. PICK pc \in {"told", "release"} : OthersStay(p) /\ SameCall(p) /\ run'[p].pc = pc
  BY <1>1, GotoEffect, ReplyEffect DEF CheckConsent
<1>4. RunTyped(run'[p]) /\ Carries(p)
  BY <1>2, <1>3, SameCallCarries, PlaceNames DEF Asking
<1> QED
  BY <1>1, <1>3, <1>4, OneRunReads DEF CheckConsent

LEMMA RecordAnswerStep ==
  ASSUME LedgerInv, NEW p \in Procs, RecordAnswer(p)
  PROVE  StepKept
<1>1. /\ Typed /\ RunTyped(run[p]) /\ DbTyped(db) /\ HistTyped(hist) /\ IssuedStays
      /\ HealthKept
  BY IssuedSame DEF LedgerInv, Typed, RecordAnswer
<1>2. run[p].kind = "routine" /\ run[p].pc = "told" /\ hist' = hist
  BY <1>1, KindsAt DEF RecordAnswer
<1>3. OthersStay(p) /\ SameCall(p) /\ run'[p].pc = "release"
  BY <1>1, GotoEffect DEF RecordAnswer
<1>4. RunTyped(run'[p]) /\ Carries(p)
  BY <1>2, <1>3, SameCallCarries, PlaceNames DEF Asking
<1>5. CASE db' = db
  BY <1>1, <1>2, <1>3, <1>4, <1>5, OneRunReads DEF RecordAnswer
<1>6. CASE /\ FailingRecord(p) /\ db.acct.live
           /\ db' = [db EXCEPT !.health.gone = run[p].out = "gone"]
  <2>1. db.health \in Records /\ db.health.failing
    BY <1>1, <1>6 DEF DbTyped, FailingRecord
  <2>2. /\ DOMAIN db' = DOMAIN db /\ db'.acct = db.acct /\ db'.sync = db.sync
        /\ db'.health = [db.health EXCEPT !.gone = run[p].out = "gone"]
    BY <1>1, <1>6 DEF DbTyped
  <2>3. /\ db'.health \in Records /\ db'.health.failing
        /\ db'.health.session = db.health.session /\ db'.health.seen = db.health.seen
    BY <2>1, <2>2 DEF Records
  <2>4. DbTyped(db')
    BY <1>1, <2>2, <2>3 DEF DbTyped
  <2>5. Typed' /\ RunStep
    BY <1>1, <1>2, <1>3, <1>4, <2>4, OneRunWrites DEF RecordAnswer
  <2>6. DbStep
    BY <1>2, <2>2 DEF DbStep, AcctStep
  <2>7. HealthKept'
    BY <1>1, <1>2, <2>1, <2>2, <2>3 DEF HealthKept
  <2>8. ErasedIsBare'
    BY <1>6, <2>2 DEF ErasedIsBare
  <2> QED
    BY <2>5, <2>6, <2>7, <2>8 DEF StepKept
<1> QED
  BY <1>5, <1>6 DEF RecordAnswer

LEMMA ReleaseStep ==
  ASSUME LedgerInv, NEW p \in Procs, Release(p)
  PROVE  StepKept
<1>1. Typed /\ IssuedStays
  BY IssuedSame DEF LedgerInv, Release
<1>2. OthersStay(p) /\ RunTyped(run'[p]) /\ Idles(p)
  BY <1>1, StopEffect DEF Release
<1>3. DbTyped(db') /\ HistTyped(hist') /\ BindingStays /\ ErasedIsBare'
  BY ClaimOnly DEF Release
<1> QED
  BY <1>1, <1>2, <1>3, OneRun DEF Release

LEMMA CrashStep ==
  ASSUME LedgerInv, NEW p \in Procs, Crash(p)
  PROVE  StepKept
<1>1. Typed /\ IssuedStays
  BY IssuedSame DEF LedgerInv, Crash
<1>2. OthersStay(p) /\ RunTyped(run'[p]) /\ Idles(p)
  BY <1>1, StopEffect DEF Crash
<1> QED
  BY <1>1, <1>2, OneRunReads DEF Crash

-----------------------------------------------------------------------------
(* Balances.                                                               *)

LEMMA FiguresStep ==
  ASSUME LedgerInv, NEW p \in Procs, NEW types, NEW bad, Figures(p, types, bad)
  PROVE  StepKept
<1>1. /\ Typed /\ RunTyped(run[p]) /\ DOMAIN run[p] = Runs /\ DOMAIN run = Procs
      /\ IssuedTyped(issued)
  BY DEF LedgerInv, Typed, RunTyped
<1>2. run[p].kind = "balances" /\ run[p].pc = "figures"
  BY <1>1, KindsAt DEF Figures
<1> DEFINE figures == [answer |-> issued.answer + 1, types |-> types, bad |-> bad]
<1>3. run' = [run EXCEPT ![p].pc = "write", ![p].figures = figures]
  BY DEF Figures
<1> HIDE DEF figures
<1>4. OthersStay(p) /\ SameCall(p) /\ run'[p].pc = "write"
  BY <1>1, <1>3 DEF OthersStay, SameCall, Runs
<1>5. RunTyped(run'[p]) /\ Carries(p)
  BY <1>2, <1>4, SameCallCarries, PlaceNames
<1>6. IssuedStays
  BY <1>1 DEF Figures, IssuedStays, IssuedTyped
<1> QED
  BY <1>4, <1>5, <1>6, OneRunReads DEF Figures

LEMMA WriteBalancesStep ==
  ASSUME LedgerInv, NEW p \in Procs, WriteBalances(p)
  PROVE  StepKept
<1>1. Typed /\ RunTyped(run[p]) /\ DbTyped(db) /\ IssuedStays
  BY IssuedSame DEF LedgerInv, Typed, WriteBalances
<1>2. run[p].kind = "balances" /\ run[p].pc = "write"
  BY <1>1, KindsAt DEF WriteBalances
<1>3. PICK pc \in {"note", "release"} : OthersStay(p) /\ SameCall(p) /\ run'[p].pc = pc
  BY <1>1, GotoEffect, ReplyEffect DEF WriteBalances
<1>4. RunTyped(run'[p]) /\ Carries(p)
  BY <1>2, <1>3, SameCallCarries, PlaceNames
<1>5. DbTyped(db') /\ HistTyped(hist') /\ BindingStays /\ ErasedIsBare'
  <2>1. CASE db' = db
    BY <2>1, DbUnchanged DEF WriteBalances
  <2>2. ASSUME NEW bals, Fenced(p, [db EXCEPT !.bals = bals])
        PROVE  DbTyped(db') /\ HistTyped(hist') /\ BindingStays /\ ErasedIsBare'
    <3> DEFINE new == [db EXCEPT !.bals = bals]
    <3>1. /\ DbTyped(new) /\ new.acct = db.acct /\ new.health = db.health
          /\ new.sync.session = db.sync.session
      BY <1>1 DEF DbTyped
    <3> HIDE DEF new
    <3>2. Fenced(p, new)
      BY <2>2 DEF new
    <3> QED
      BY <3>1, <3>2, FencedKeeps DEF WriteBalances
  <2> QED
    BY <2>1, <2>2 DEF WriteBalances
<1> QED
  BY <1>1, <1>3, <1>4, <1>5, OneRun DEF WriteBalances

-----------------------------------------------------------------------------
(* A first link and a renewal.                                             *)

\* An authorization that begins.
LEMMA IssuingStep ==
  ASSUME LedgerInv, NEW p \in Procs, NEW r, DOMAIN r = Runs,
         <<r.kind, r.pc>> \in {<<"link", "binding">>, <<"renew", "preempt">>},
         r.session = issued.session + 1, r.started = 0, r.standing = NoSync,
         issued' = [issued EXCEPT !.session = @ + 1], run' = [run EXCEPT ![p] = r],
         sc' = sc, db' = db, hist' = hist
  PROVE  StepKept
<1>1. /\ Typed /\ DOMAIN run = Procs /\ IssuedTyped(issued) /\ DbTyped(db) /\ HistTyped(hist)
  BY DEF LedgerInv, Typed
<1>3. /\ OthersStay(p) /\ run'[p] = r
  BY <1>1 DEF OthersStay
<1>4. IssuedTyped(issued') /\ issued'.session = issued.session + 1
  BY <1>1 DEF IssuedTyped
<1>5. RunTyped(run'[p])
  <2>1. NoSync \in Findings
    BY DEF NoSync, Findings
  <2>2. issued.session + 1 \in Nat
    BY <1>1 DEF IssuedTyped
  <2> QED
    BY <1>3, <2>1, <2>2, PlaceNames DEF RunTyped, Kinds
<1>6. Issues(p)
  BY <1>3, <1>4 DEF Issues, OthersStay
<1>7. RunStep
  <2>1. \A q \in Procs \ {p} : Carries(q)
    BY <1>3, StayCarries DEF OthersStay
  <2>2. issued'.session >= issued.session
    BY <1>1, <1>4 DEF IssuedTyped
  <2> QED
    BY <1>6, <2>1, <2>2 DEF RunStep
<1>8. Typed'
  BY <1>1, <1>3, <1>4, <1>5 DEF Typed, OthersStay
<1>9. DbTyped(db') /\ HistTyped(hist') /\ BindingStays /\ ErasedIsBare'
  BY DbUnchanged
<1>10. DbStep /\ HealthKept'
  BY <1>8, <1>9, BindingKept
<1> QED
  BY <1>7, <1>8, <1>9, <1>10 DEF StepKept

LEMMA LinkReadStep ==
  ASSUME LedgerInv, NEW p \in Procs, LinkRead(p)
  PROVE  StepKept
<1> DEFINE life == IF db.acct.live THEN db.acct.life ELSE 0
           r == [Idle EXCEPT !.kind = "link", !.pc = "binding", !.out = "ok",
                   !.session = issued.session + 1, !.life = life]
<1>1. /\ DOMAIN r = Runs /\ r.kind = "link" /\ r.pc = "binding"
      /\ r.session = issued.session + 1 /\ r.started = 0 /\ r.standing = NoSync
  BY DEF Idle, Runs
<1>2. /\ issued' = [issued EXCEPT !.session = @ + 1] /\ run' = [run EXCEPT ![p] = r]
      /\ sc' = sc /\ db' = db /\ hist' = hist
  BY DEF LinkRead
<1> HIDE DEF r
<1> QED
  BY <1>1, <1>2, IssuingStep

LEMMA RenewReadStep ==
  ASSUME LedgerInv, NEW p \in Procs, RenewRead(p)
  PROVE  StepKept
<1> DEFINE life == db.acct.life
           r == [Idle EXCEPT !.kind = "renew", !.pc = "preempt", !.out = "ok",
                   !.session = issued.session + 1, !.old = db.acct.session, !.life = life]
<1>1. /\ DOMAIN r = Runs /\ r.kind = "renew" /\ r.pc = "preempt"
      /\ r.session = issued.session + 1 /\ r.started = 0 /\ r.standing = NoSync
  BY DEF Idle, Runs
<1>2. /\ issued' = [issued EXCEPT !.session = @ + 1] /\ run' = [run EXCEPT ![p] = r]
      /\ sc' = sc /\ db' = db /\ hist' = hist
  BY DEF RenewRead
<1> HIDE DEF r
<1> QED
  BY <1>1, <1>2, IssuingStep

\* The account takes the consent of this run, which pledges it no longer.
LEMMA AcctTakes ==
  ASSUME LedgerInv, NEW p \in Procs, Pledged(run[p]), ~Pledged(run'[p]),
         db'.acct.session = run[p].session, db'.health = db.health,
         db'.sync.session = db.sync.session, hist'.okAt = hist.okAt,
         hist'.switched \subseteq hist.switched \cup {Pair(run[p])},
         run[p].pc = "switch" \/ hist'.switched = hist.switched, Typed'
  PROVE  DbStep /\ HealthKept'
<1>1. AcctStep
  BY DEF AcctStep
<1>2. DbStep
  <2>1. CASE run[p].pc = "switch"
    BY <1>1, <2>1 DEF DbStep
  <2>2. CASE hist'.switched = hist.switched
    BY <1>1, <2>2 DEF DbStep
  <2> QED
    BY <2>1, <2>2
<1>3. HealthKept'
  BY <1>1, HealthStays DEF LedgerInv
<1> QED
  BY <1>2, <1>3

LEMMA LinkBindStep ==
  ASSUME LedgerInv, NEW p \in Procs, LinkBind(p)
  PROVE  StepKept
<1>1. /\ Typed /\ RunTyped(run[p]) /\ DOMAIN run = Procs /\ DOMAIN run[p] = Runs
      /\ DbTyped(db) /\ HistTyped(hist) /\ IssuedTyped(issued)
  BY DEF LedgerInv, Typed, RunTyped
<1>2. /\ run[p].kind = "link" /\ run[p].pc = "binding"
      /\ hist' = hist /\ sc' = sc
  BY <1>1, KindsAt DEF LinkBind
<1>3. \/ /\ Lives(p) /\ db' = [db EXCEPT !.acct.session = run[p].session]
         /\ Goto(p, "preempt") /\ UNCHANGED issued
      \/ /\ issued' = [issued EXCEPT !.life = @ + 1]
         /\ db' = [db EXCEPT !.acct = [live |-> TRUE, life |-> issued.life + 1,
                                       session |-> run[p].session]]
         /\ run' = [run EXCEPT ![p].life = issued.life + 1, ![p].pc = "preempt"]
      \/ run' = [run EXCEPT ![p] = Idle] /\ UNCHANGED <<db, issued>>
  BY DEF LinkBind
<1>4. ASSUME OthersStay(p), DOMAIN run'[p] = Runs, run'[p].kind = "link",
             run'[p].pc = "preempt", run'[p].session = run[p].session,
             run'[p].started = run[p].started, run'[p].standing = run[p].standing,
             IssuedStays, DOMAIN db' = DOMAIN db, AcctTyped(db'.acct), db'.acct.live,
             db'.acct.session = run[p].session, db'.sync = db.sync, db'.health = db.health
      PROVE  StepKept
  <2>1. RunTyped(run'[p])
    BY <1>1, <1>4, PlaceNames DEF RunTyped, Kinds
  <2>2. Binds(p)
    BY <1>2, <1>4 DEF Binds
  <2>3. DbTyped(db')
    BY <1>1, <1>4 DEF DbTyped
  <2>4. Typed' /\ RunStep
    BY <1>1, <1>2, <1>4, <2>1, <2>2, <2>3, OneRunWrites
  <2>5. Pledged(run[p]) /\ ~Pledged(run'[p])
    BY <1>2, <1>4 DEF Pledged
  <2>6. DbStep /\ HealthKept'
    BY <1>2, <1>4, <2>4, <2>5, AcctTakes
  <2>7. ErasedIsBare'
    BY <1>4 DEF ErasedIsBare
  <2> QED
    BY <2>4, <2>6, <2>7 DEF StepKept
<1>5. CASE /\ Lives(p) /\ db' = [db EXCEPT !.acct.session = run[p].session]
           /\ Goto(p, "preempt") /\ UNCHANGED issued
  <2>1. OthersStay(p) /\ SameCall(p) /\ run'[p].pc = "preempt"
    BY <1>1, <1>5, GotoEffect
  <2>2. /\ DOMAIN db' = DOMAIN db /\ db'.sync = db.sync /\ db'.health = db.health
        /\ db'.acct = [db.acct EXCEPT !.session = run[p].session]
    BY <1>1, <1>5 DEF DbTyped
  <2>3. AcctTyped(db'.acct) /\ db'.acct.live /\ db'.acct.session = run[p].session
    BY <1>1, <1>5, <2>2 DEF DbTyped, AcctTyped, RunTyped, Lives
  <2>4. IssuedStays
    BY <1>5, IssuedSame
  <2> QED
    BY <1>2, <1>4, <2>1, <2>2, <2>3, <2>4 DEF SameCall
<1>6. CASE /\ issued' = [issued EXCEPT !.life = @ + 1]
           /\ db' = [db EXCEPT !.acct = [live |-> TRUE, life |-> issued.life + 1,
                                         session |-> run[p].session]]
           /\ run' = [run EXCEPT ![p].life = issued.life + 1, ![p].pc = "preempt"]
  <2> DEFINE life == issued.life + 1
             acct == [live |-> TRUE, life |-> life, session |-> run[p].session]
  <2>1. AcctTyped(acct) /\ acct.live /\ acct.session = run[p].session
    BY <1>1 DEF AcctTyped, RunTyped
  <2>2. /\ db' = [db EXCEPT !.acct = acct]
        /\ run' = [run EXCEPT ![p].life = life, ![p].pc = "preempt"]
    BY <1>6
  <2> HIDE DEF life, acct
  <2>3. /\ DOMAIN db' = DOMAIN db /\ db'.sync = db.sync /\ db'.health = db.health
        /\ db'.acct = acct
    BY <1>1, <2>2 DEF DbTyped
  <2>4. /\ OthersStay(p) /\ DOMAIN run'[p] = Runs /\ run'[p].kind = "link"
        /\ run'[p].pc = "preempt" /\ run'[p].session = run[p].session
        /\ run'[p].started = run[p].started /\ run'[p].standing = run[p].standing
    BY <1>1, <1>2, <2>2 DEF OthersStay, Runs
  <2>5. IssuedStays
    BY <1>1, <1>6 DEF IssuedStays, IssuedTyped
  <2> QED
    BY <1>4, <2>1, <2>3, <2>4, <2>5
<1>7. CASE run' = [run EXCEPT ![p] = Idle] /\ UNCHANGED <<db, issued>>
  <2>1. IssuedStays
    BY <1>7, IssuedSame
  <2> QED
    BY <1>1, <1>2, <1>7, <2>1, StopEffect, OneRunReads
<1> QED
  BY <1>3, <1>5, <1>6, <1>7

LEMMA PreemptStep ==
  ASSUME LedgerInv, NEW p \in Procs, Preempt(p)
  PROVE  StepKept
<1>1. Typed /\ RunTyped(run[p]) /\ IssuedStays
  BY IssuedSame DEF LedgerInv, Typed, Preempt
<1>2. run[p].kind \in {"link", "renew"}
  BY <1>1, KindsAt DEF Preempt
<1>3. OthersStay(p) /\ SameCall(p) /\ run'[p].pc = "window"
  BY <1>1, GotoEffect DEF Preempt
<1>4. RunTyped(run'[p]) /\ Carries(p)
  BY <1>2, <1>3, SameCallCarries, PlaceNames DEF Preempt, Asking
<1>5. DbTyped(db') /\ HistTyped(hist') /\ BindingStays /\ ErasedIsBare'
  BY ClaimOnly DEF Preempt
<1> QED
  BY <1>1, <1>3, <1>4, <1>5, OneRun DEF Preempt

LEMMA ReadyStep ==
  ASSUME LedgerInv, NEW p \in Procs, Ready(p)
  PROVE  StepKept
<1>1. Typed /\ RunTyped(run[p]) /\ IssuedStays
  BY IssuedSame DEF LedgerInv, Typed, Ready
<1>2. run[p].kind = "renew" /\ run[p].pc = "ready"
  BY <1>1, KindsAt DEF Ready
<1> DEFINE pc == IF Lives(p) /\ DeepFetchComplete(p) THEN "switch" ELSE "release"
<1>3. /\ Goto(p, pc) /\ pc \in {"switch", "release"} /\ pc \in Places("renew")
      /\ pc = "switch" => db.sync.session = run[p].session
  BY PlaceNames DEF Ready, DeepFetchComplete, Asking
<1> HIDE DEF pc
<1>4. OthersStay(p) /\ SameCall(p) /\ run'[p].pc = pc
  BY <1>1, <1>3, GotoEffect
<1>5. RunTyped(run'[p]) /\ Carries(p)
  BY <1>2, <1>3, <1>4, SameCallCarries
<1> QED
  BY <1>1, <1>4, <1>5, OneRunReads DEF Ready

LEMMA SwitchStep ==
  ASSUME LedgerInv, NEW p \in Procs, Switch(p)
  PROVE  StepKept
<1>1. /\ Typed /\ RunTyped(run[p]) /\ DbTyped(db) /\ HistTyped(hist) /\ IssuedStays
  BY IssuedSame DEF LedgerInv, Typed, Switch
<1>2. run[p].kind = "renew" /\ run[p].pc = "switch"
  BY <1>1, KindsAt DEF Switch
<1>3. OthersStay(p) /\ SameCall(p) /\ run'[p].pc = "release"
  BY <1>1, GotoEffect DEF Switch
<1>4. RunTyped(run'[p]) /\ Carries(p)
  BY <1>2, <1>3, SameCallCarries, PlaceNames DEF Asking
<1>5. CASE UNCHANGED <<db, hist>>
  BY <1>1, <1>3, <1>4, <1>5, OneRunReads DEF Switch
<1>6. CASE /\ Lives(p) /\ db' = [db EXCEPT !.acct.session = run[p].session]
           /\ hist' = [hist EXCEPT !.switched = @ \cup {<<run[p].session, run[p].life>>}]
  <2>1. /\ DOMAIN db' = DOMAIN db /\ db'.sync = db.sync /\ db'.health = db.health
        /\ db'.acct = [db.acct EXCEPT !.session = run[p].session]
    BY <1>1, <1>6 DEF DbTyped
  <2>2. /\ DOMAIN hist' = DOMAIN hist /\ hist'.okAt = hist.okAt
        /\ hist'.fetched = hist.fetched
        /\ hist'.switched = hist.switched \cup {Pair(run[p])}
    BY <1>1, <1>6 DEF HistTyped, Pair
  <2>3. AcctTyped(db'.acct) /\ db'.acct.live /\ db'.acct.session = run[p].session
    BY <1>1, <1>6, <2>1 DEF DbTyped, AcctTyped, RunTyped, Lives
  <2>4. DbTyped(db') /\ HistTyped(hist')
    BY <1>1, <2>1, <2>2, <2>3 DEF DbTyped, HistTyped
  <2>5. Typed' /\ RunStep
    BY <1>1, <1>3, <1>4, <2>2, <2>4, OneRunWrites DEF Switch
  <2>6. Pledged(run[p]) /\ ~Pledged(run'[p])
    BY <1>2, <1>3 DEF Pledged, SameCall
  <2>7. DbStep /\ HealthKept'
    BY <1>2, <2>1, <2>2, <2>3, <2>5, <2>6, AcctTakes
  <2>8. ErasedIsBare'
    BY <2>3 DEF ErasedIsBare
  <2> QED
    BY <2>5, <2>7, <2>8 DEF StepKept
<1> QED
  BY <1>5, <1>6 DEF Switch

-----------------------------------------------------------------------------
(* The operator's calls.                                                   *)

LEMMA NoRun ==
  ASSUME LedgerInv, run' = run, sc' = sc, IssuedStays, DbTyped(db'), HistTyped(hist'),
         hist.fetched \subseteq hist'.fetched
  PROVE  Typed' /\ RunStep
<1>1. \A q \in Procs : Carries(q)
  BY StayCarries
<1>2. issued'.session >= issued.session
  BY DEF LedgerInv, Typed, IssuedStays, IssuedTyped
<1> QED
  BY <1>1, <1>2 DEF LedgerInv, Typed, RunStep, IssuedStays

\* A call that leaves the account's binding alone.
LEMMA CallKept ==
  ASSUME LedgerInv, run' = run, sc' = sc, IssuedStays, DbTyped(db'), HistTyped(hist'),
         BindingStays, ErasedIsBare'
  PROVE  StepKept
<1>1. Typed' /\ RunStep
  BY NoRun DEF BindingStays
<1> QED
  BY <1>1, BindingKept DEF StepKept

LEMMA NoFunction ==
  ASSUME NEW f, f = [i \in DOMAIN f |-> f[i]], DOMAIN f = {}
  PROVE  f = NoRows
BY DEF NoRows

\* A call on rows and rules: an account without rows has none afterwards.
LEMMA RowsChanged ==
  ASSUME LedgerInv, run' = run, sc' = sc, issued' = issued, hist' = hist,
         NEW rows, NEW rules, db' = [db EXCEPT !.rows = rows, !.rules = rules],
         db.rows = NoRows => rows = NoRows
  PROVE  StepKept
<1>1. DbTyped(db) /\ HistTyped(hist) /\ ErasedIsBare
  BY DEF LedgerInv, Typed
<1>2. /\ DOMAIN db' = DOMAIN db /\ db'.acct = db.acct /\ db'.health = db.health
      /\ db'.sync = db.sync /\ db'.rows = rows /\ db'.cover = db.cover
      /\ db'.bals = db.bals /\ db'.evid = db.evid
  BY <1>1 DEF DbTyped
<1>3. DbTyped(db') /\ HistTyped(hist') /\ BindingStays /\ ErasedIsBare'
  BY <1>1, <1>2 DEF DbTyped, BindingStays, ErasedIsBare
<1> QED
  BY <1>3, IssuedSame, CallKept

LEMMA PurgeBeforeStep ==
  ASSUME LedgerInv, NEW cut, NEW erase, PurgeBefore(cut, erase)
  PROVE  StepKept
<1>1. /\ Typed /\ DbTyped(db) /\ HistTyped(hist) /\ IssuedTyped(issued) /\ ErasedIsBare
  BY DEF LedgerInv, Typed
<1> DEFINE before == {i \in DOMAIN db.rows : db.rows[i].date < cut}
           kept == Drop(db.rows, before \ ChainMembersKept(before))
           rows == IF erase THEN [i \in DOMAIN kept |-> [kept[i] EXCEPT !.tags = {}]] ELSE kept
           cover == TrimmedCoverage(db.cover, cut)
           rules == IF erase THEN {} ELSE db.rules
           life == IF db.acct.live THEN issued.life + 1 ELSE db.acct.life
           proven == {d \in hist.proven : d >= cut}
<1>2. /\ db' = Relived([db EXCEPT !.rows = rows, !.cover = cover, !.rules = rules])
      /\ issued' = [issued EXCEPT !.life = @ + 1]
      /\ hist' = [hist EXCEPT !.proven = proven]
      /\ run' = run /\ sc' = sc
  BY DEF PurgeBefore, NewLife
<1>3. db.rows = NoRows => rows = NoRows
  <2>1. DOMAIN kept = DOMAIN db.rows \ (before \ ChainMembersKept(before))
    BY DEF Drop
  <2>2. DOMAIN rows = DOMAIN kept /\ rows = [i \in DOMAIN rows |-> rows[i]]
    BY DEF Drop
  <2>3. db.rows = NoRows => DOMAIN db.rows = {}
    BY DEF NoRows
  <2> HIDE DEF rows, kept, before
  <2> QED
    BY <2>1, <2>2, <2>3, NoFunction
<1>4. db.cover = {} => cover = {}
  BY DEF TrimmedCoverage
<1> HIDE DEF rows, cover, rules, proven
<1>5. /\ DOMAIN db' = DOMAIN db /\ db'.acct = [db.acct EXCEPT !.life = life]
      /\ db'.rows = rows /\ db'.cover = cover /\ db'.sync = db.sync
      /\ db'.health = db.health /\ db'.bals = db.bals /\ db'.evid = db.evid
  BY <1>1, <1>2 DEF DbTyped, Relived
<1> HIDE DEF life
<1>6. DbTyped(db') /\ db'.acct.session = db.acct.session /\ db'.acct.live = db.acct.live
  BY <1>1, <1>5 DEF DbTyped, AcctTyped
<1>7. /\ HistTyped(hist') /\ hist'.okAt = hist.okAt /\ hist'.switched = hist.switched
      /\ hist'.fetched = hist.fetched
  BY <1>1, <1>2 DEF HistTyped
<1>8. IssuedStays
  BY <1>1, <1>2 DEF IssuedStays, IssuedTyped
<1>9. BindingStays /\ ErasedIsBare'
  BY <1>1, <1>3, <1>4, <1>5, <1>6, <1>7 DEF BindingStays, ErasedIsBare
<1> QED
  BY <1>2, <1>6, <1>7, <1>8, <1>9, CallKept

LEMMA PurgeAllStep ==
  ASSUME LedgerInv, NEW erase, PurgeAll(erase)
  PROVE  StepKept
<1>1. /\ Typed /\ DbTyped(db) /\ HistTyped(hist) /\ IssuedTyped(issued) /\ ErasedIsBare
      /\ HealthKept
  BY DEF LedgerInv, Typed
<1> DEFINE sync == IF db.acct.live
                   THEN [db.sync EXCEPT !.row = TRUE, !.comp = "partial", !.session = 0]
                   ELSE db.sync
           rules == IF erase THEN {} ELSE db.rules
           life == IF db.acct.live THEN issued.life + 1 ELSE db.acct.life
           floor == issued.life + 1
<1>2. /\ db' = Relived([db EXCEPT !.rows = NoRows, !.cover = {}, !.alloc = NoAlloc,
                          !.bals = NoRows, !.sync = sync, !.rules = rules])
      /\ issued' = [issued EXCEPT !.life = @ + 1]
      /\ hist' = [hist EXCEPT !.proven = {}, !.spent = {}, !.floor = floor]
      /\ run' = run /\ sc' = sc
  BY DEF PurgeAll, NewLife
<1>3. /\ sync \in Findings /\ sync.session \in {db.sync.session, 0}
      /\ ~db.acct.live => sync = db.sync
  BY <1>1 DEF DbTyped, Findings
<1> HIDE DEF sync, rules, floor
<1>4. /\ DOMAIN db' = DOMAIN db /\ db'.acct = [db.acct EXCEPT !.life = life]
      /\ db'.rows = NoRows /\ db'.cover = {} /\ db'.sync = sync
      /\ db'.health = db.health /\ db'.bals = NoRows /\ db'.evid = db.evid
  BY <1>1, <1>2 DEF DbTyped, Relived
<1> HIDE DEF life
<1>5. DbTyped(db') /\ db'.acct.session = db.acct.session /\ db'.acct.live = db.acct.live
  BY <1>1, <1>3, <1>4 DEF DbTyped, AcctTyped
<1>6. /\ HistTyped(hist') /\ hist'.okAt = hist.okAt /\ hist'.switched = hist.switched
      /\ hist'.fetched = hist.fetched
  BY <1>1, <1>2 DEF HistTyped
<1>7. IssuedStays
  BY <1>1, <1>2 DEF IssuedStays, IssuedTyped
<1>8. ErasedIsBare'
  BY <1>1, <1>3, <1>4, <1>5 DEF ErasedIsBare
<1>9. Typed' /\ RunStep
  BY <1>2, <1>5, <1>6, <1>7, NoRun
<1>10. AcctStep /\ DbStep
  BY <1>3, <1>4, <1>5, <1>6 DEF AcctStep, DbStep
<1>11. HealthKept'
  BY <1>1, <1>4, <1>6, <1>9, <1>10, HealthStays DEF LedgerInv
<1> QED
  BY <1>8, <1>9, <1>10, <1>11 DEF StepKept

LEMMA ForgetStep ==
  ASSUME LedgerInv, ForgetLocalAccount
  PROVE  StepKept
<1>1. /\ Typed /\ DbTyped(db) /\ HistTyped(hist) /\ IssuedTyped(issued)
  BY DEF LedgerInv, Typed
<1> DEFINE acct == [NoAccount EXCEPT !.life = db.acct.life]
           floor == issued.life + 1
           none == [session |-> 0, started |-> 0]
<1>2. /\ db' = [db EXCEPT !.acct = acct, !.rows = NoRows, !.alloc = NoAlloc, !.bals = NoRows,
                          !.cover = {}, !.sync = NoSync, !.evid = NoEvidence,
                          !.health = NoHealth]
      /\ hist' = [hist EXCEPT !.proven = {}, !.spent = {}, !.floor = floor, !.okAt = none]
      /\ issued' = issued /\ run' = run /\ sc' = sc
  BY DEF ForgetLocalAccount
<1>3. AcctTyped(acct) /\ ~acct.live /\ acct.session = 0
  BY DEF NoAccount, AcctTyped
<1>4. none \in [session : Nat, started : Nat] /\ none.session = 0
  OBVIOUS
<1> HIDE DEF acct, floor, none
<1>5. /\ DOMAIN db' = DOMAIN db /\ db'.acct = acct /\ db'.rows = NoRows /\ db'.cover = {}
      /\ db'.sync = NoSync /\ db'.health = NoHealth /\ db'.bals = NoRows
      /\ db'.evid = NoEvidence
  BY <1>1, <1>2 DEF DbTyped
<1>6. DbTyped(db')
  BY <1>1, <1>3, <1>5 DEF DbTyped, NoSync, Findings, NoHealth, Records
<1>7. /\ HistTyped(hist') /\ hist'.okAt = none /\ hist'.switched = hist.switched
      /\ hist'.fetched = hist.fetched
  BY <1>1, <1>2, <1>4 DEF HistTyped
<1>8. Typed' /\ RunStep
  BY <1>2, <1>6, <1>7, IssuedSame, NoRun
<1>9. DbStep
  BY <1>3, <1>4, <1>5, <1>7 DEF DbStep, AcctStep, NoSync
<1>10. HealthKept' /\ ErasedIsBare'
  BY <1>4, <1>5, <1>7 DEF HealthKept, ErasedIsBare, NoHealth
<1> QED
  BY <1>8, <1>9, <1>10 DEF StepKept

LEMMA UnlinkStep ==
  ASSUME LedgerInv, UnlinkBank
  PROVE  StepKept
<1>1. Typed /\ DbTyped(db) /\ HistTyped(hist)
  BY DEF LedgerInv, Typed
<1>2. /\ DOMAIN db' = DOMAIN db /\ db'.acct = [db.acct EXCEPT !.session = 0]
      /\ db'.sync = db.sync /\ db'.health = db.health /\ hist' = hist
  BY <1>1 DEF UnlinkBank, DbTyped
<1>3. AcctTyped(db'.acct) /\ db'.acct.live /\ db'.acct.session = 0
  BY <1>1, <1>2 DEF UnlinkBank, DbTyped, AcctTyped
<1>4. DbTyped(db')
  BY <1>1, <1>2, <1>3 DEF DbTyped
<1>5. Typed' /\ RunStep
  BY <1>1, <1>2, <1>4, IssuedSame, NoRun DEF UnlinkBank
<1>6. AcctStep /\ DbStep
  BY <1>2, <1>3 DEF AcctStep, DbStep
<1>7. HealthKept'
  BY <1>2, <1>5, <1>6, HealthStays DEF LedgerInv
<1>8. ErasedIsBare'
  BY <1>3 DEF ErasedIsBare
<1> QED
  BY <1>5, <1>6, <1>7, <1>8 DEF StepKept

\* A call on the rulebook alone.
LEMMA RulesChanged ==
  ASSUME LedgerInv, run' = run, sc' = sc, issued' = issued, hist' = hist,
         NEW rules, db' = [db EXCEPT !.rules = rules]
  PROVE  StepKept
<1>1. DbTyped(db)
  BY DEF LedgerInv, Typed
<1> DEFINE rows == db.rows
<1>2. db' = [db EXCEPT !.rows = rows, !.rules = rules]
  BY <1>1 DEF DbTyped
<1>3. db.rows = NoRows => rows = NoRows
  OBVIOUS
<1> HIDE DEF rows
<1> QED
  BY <1>2, <1>3, RowsChanged

LEMMA RuleCalls ==
  ASSUME LedgerInv, NEW old, NEW r, AddRule(r) \/ RemoveRule(r) \/ ReplaceRule(old, r)
  PROVE  StepKept
<1>1. \E rules : db' = [db EXCEPT !.rules = rules]
  BY Zenon DEF AddRule, RemoveRule, ReplaceRule
<1>2. run' = run /\ sc' = sc /\ issued' = issued /\ hist' = hist
  BY DEF AddRule, RemoveRule, ReplaceRule
<1> QED
  BY <1>1, <1>2, RulesChanged

\* A call on the rows alone.
LEMMA OnlyRowsChanged ==
  ASSUME LedgerInv, run' = run, sc' = sc, issued' = issued, hist' = hist,
         NEW rows, db' = [db EXCEPT !.rows = rows], db.rows = NoRows => rows = NoRows
  PROVE  StepKept
<1>1. DbTyped(db)
  BY DEF LedgerInv, Typed
<1> DEFINE rules == db.rules
<1>2. db' = [db EXCEPT !.rows = rows, !.rules = rules]
  BY <1>1 DEF DbTyped
<1> HIDE DEF rules
<1> QED
  BY <1>2, RowsChanged

LEMMA ApplyRulesStep ==
  ASSUME LedgerInv, ApplyRules
  PROVE  StepKept
<1> DEFINE Tagged(i) == IF db.rows[i].state = "active"
                        THEN [db.rows[i] EXCEPT !.tags =
                                TagsByRules(db.rules, Contents[db.rows[i].content],
                                            db.rows[i].date, db.rows[i].tags)]
                        ELSE db.rows[i]
           rows == [i \in DOMAIN db.rows |-> Tagged(i)]
<1>1. db' = [db EXCEPT !.rows = rows]
  BY DEF ApplyRules
<1> HIDE DEF Tagged
<1>2. db.rows = NoRows => rows = NoRows
  BY NoFunction DEF NoRows
<1> HIDE DEF rows
<1> QED
  BY <1>1, <1>2, OnlyRowsChanged DEF ApplyRules

LEMMA TagCalls ==
  ASSUME LedgerInv, NEW i, NEW tags, TagTransaction(i, tags) \/ UntagTransaction(i, tags)
  PROVE  StepKept
<1>1. PICK new : db' = [db EXCEPT !.rows[i].tags = new]
  BY Zenon DEF TagTransaction, UntagTransaction
<1>2. run' = run /\ sc' = sc /\ issued' = issued /\ hist' = hist /\ i \in DOMAIN db.rows
  BY DEF TagTransaction, UntagTransaction, Annotatable
<1> DEFINE rows == [db.rows EXCEPT ![i].tags = new]
<1>3. db' = [db EXCEPT !.rows = rows]
  BY <1>1 DEF LedgerInv, Typed, DbTyped
<1>4. db.rows = NoRows => rows = NoRows
  BY <1>2 DEF NoRows
<1> HIDE DEF rows
<1> QED
  BY <1>2, <1>3, <1>4, OnlyRowsChanged

LEMMA NameCalls ==
  ASSUME LedgerInv, NEW old, NEW new, RenameTag(old, new) \/ DeleteTag(old)
  PROVE  StepKept
<1>1. PICK into : db' = [db EXCEPT !.rows = Retagged(@, old, into),
                                   !.rules = RewrittenRules(@, old, into)]
  BY Zenon DEF RenameTag, DeleteTag
<1>2. run' = run /\ sc' = sc /\ issued' = issued /\ hist' = hist
  BY DEF RenameTag, DeleteTag
<1> DEFINE rows == Retagged(db.rows, old, into)
           rules == RewrittenRules(db.rules, old, into)
<1>3. db' = [db EXCEPT !.rows = rows, !.rules = rules]
  BY <1>1
<1>4. db.rows = NoRows => rows = NoRows
  <2>1. rows = [i \in DOMAIN rows |-> rows[i]] /\ DOMAIN rows = DOMAIN db.rows
    BY DEF Retagged
  <2>2. db.rows = NoRows => DOMAIN db.rows = {}
    BY DEF NoRows
  <2> HIDE DEF rows
  <2> QED
    BY <2>1, <2>2, NoFunction
<1> HIDE DEF rows, rules
<1> QED
  BY <1>2, <1>3, <1>4, RowsChanged

LEMMA CallStep == ASSUME LedgerInv, Call PROVE StepKept
BY PurgeBeforeStep, PurgeAllStep, ForgetStep, UnlinkStep, ApplyRulesStep, RuleCalls,
   TagCalls, NameCalls DEF Call

-----------------------------------------------------------------------------
(* The bank and the clock.                                                 *)

LEMMA OutsideStep ==
  ASSUME LedgerInv, UNCHANGED <<sc, db, run, issued, hist>>
  PROVE  StepKept
<1>1. DbTyped(db') /\ HistTyped(hist') /\ BindingStays /\ ErasedIsBare'
  BY DbUnchanged
<1> QED
  BY <1>1, IssuedSame, CallKept

LEMMA TimeStep ==
  ASSUME LedgerInv, NEW what \in {"wait", "recent", "claim"}, TimePasses(what)
  PROVE  StepKept
<1>1. DbTyped(db) /\ HistTyped(hist) /\ ErasedIsBare
  BY DEF LedgerInv, Typed
<1>2. run' = run /\ sc' = sc /\ issued' = issued /\ hist' = hist
  BY DEF TimePasses
<1>3. ASSUME NEW s \in Findings, db' = [db EXCEPT !.sync = s],
             s.session = db.sync.session, db.sync # NoSync
      PROVE  StepKept
  <2>1. /\ DOMAIN db' = DOMAIN db /\ db'.acct = db.acct /\ db'.health = db.health
        /\ db'.sync = s
    BY <1>1, <1>3 DEF DbTyped
  <2>2. DbTyped(db') /\ HistTyped(hist') /\ BindingStays
    BY <1>1, <1>2, <1>3, <2>1 DEF DbTyped, BindingStays
  <2>3. ErasedIsBare'
    BY <1>1, <1>3, <2>1 DEF ErasedIsBare
  <2> QED
    BY <1>2, <2>2, <2>3, IssuedSame, CallKept
<1>4. CASE what = "wait"
  <2> DEFINE s == [db.sync EXCEPT !.wait = FALSE]
  <2>1. db.sync.wait /\ db' = [db EXCEPT !.sync = s]
    BY <1>1, <1>4 DEF TimePasses, DbTyped
  <2>2. s \in Findings /\ s.session = db.sync.session
    BY <1>1 DEF DbTyped, Findings
  <2>3. ~NoSync.wait
    BY DEF NoSync
  <2>4. db.sync # NoSync
    BY <2>1, <2>3
  <2> HIDE DEF s
  <2> QED
    BY <1>3, <2>1, <2>2, <2>4
<1>5. CASE what = "recent"
  <2> DEFINE s == [db.sync EXCEPT !.recent = FALSE]
  <2>1. db.sync.recent /\ db' = [db EXCEPT !.sync = s]
    BY <1>1, <1>5 DEF TimePasses, DbTyped
  <2>2. s \in Findings /\ s.session = db.sync.session
    BY <1>1 DEF DbTyped, Findings
  <2>3. ~NoSync.recent
    BY DEF NoSync
  <2>4. db.sync # NoSync
    BY <2>1, <2>3
  <2> HIDE DEF s
  <2> QED
    BY <1>3, <2>1, <2>2, <2>4
<1>6. CASE what = "claim"
  <2> DEFINE c == [db.claim EXCEPT !.old = TRUE]
  <2>1. db' = [db EXCEPT !.claim = c]
    BY <1>1, <1>6 DEF TimePasses, DbTyped
  <2> HIDE DEF c
  <2>2. DbTyped(db') /\ HistTyped(hist') /\ BindingStays /\ ErasedIsBare'
    BY <1>2, <2>1, ClaimOnly
  <2> QED
    BY <1>2, <2>2, IssuedSame, CallKept
<1> QED
  BY <1>4, <1>5, <1>6

LEMMA EnvironmentStep == ASSUME LedgerInv, Environment PROVE StepKept
<1>1. CASE \E what \in {"wait", "recent", "claim"} : TimePasses(what)
  BY <1>1, TimeStep
<1>2. CASE ~\E what \in {"wait", "recent", "claim"} : TimePasses(what)
  <2>1. UNCHANGED <<sc, db, run, issued, hist>>
    BY <1>2 DEF Environment, Post, Book, Correct, Withdraw, Void, DayPasses
  <2> QED
    BY <2>1, OutsideStep
<1> QED
  BY <1>1, <1>2

-----------------------------------------------------------------------------
(* The invariant.                                                          *)

LEMMA RoutineStep == ASSUME LedgerInv, NEW p \in Procs, Routine(p) PROVE StepKept
BY AdmitStep, ReadClaimStep, WriteClaimStep, CaptureStep, StampStep, NoteFailureStep,
   RestoreStep, RecordHealthStep, RecordAnswerStep, ReleaseStep, CheckConsentStep,
   FiguresStep, WriteBalancesStep DEF Routine

LEMMA FetchStep == ASSUME LedgerInv, NEW p \in Procs, Fetch(p) PROVE StepKept
BY WindowStep, AnswerStep, NoAnswerStep, IncompleteStep, LoadStep, AllocateStep, ApplyStep,
   ApplyErasedStep, RecordCoverageStep, FinishStep DEF Fetch

LEMMA AuthorizeStep == ASSUME LedgerInv, NEW p \in Procs, Authorize(p) PROVE StepKept
BY LinkReadStep, LinkBindStep, RenewReadStep, PreemptStep, ReadyStep, SwitchStep DEF Authorize

LEMMA NextKept == ASSUME LedgerInv, [Next]_vars PROVE StepKept
<1>1. ASSUME NEW p \in sc.procs, Routine(p) \/ Fetch(p) \/ Authorize(p) \/ Crash(p)
      PROVE  StepKept
  <2>1. p \in Procs
    BY ScenariosAssumption DEF LedgerInv, Typed
  <2> QED
    BY <1>1, <2>1, RoutineStep, FetchStep, AuthorizeStep, CrashStep
<1>2. CASE UNCHANGED vars
  BY <1>2, OutsideStep DEF vars
<1> QED
  BY <1>1, <1>2, CallStep, EnvironmentStep DEF Next

LEMMA LedgerNext == LedgerInv /\ [Next]_vars => LedgerInv'
<1> SUFFICES ASSUME LedgerInv, [Next]_vars PROVE LedgerInv'
  OBVIOUS
<1>1. Typed' /\ RunStep /\ DbStep /\ HealthKept' /\ ErasedIsBare'
  BY NextKept DEF StepKept
<1>2. Typed /\ SessionsIssued /\ PledgesAreOwn /\ FetchedFirst /\ SwitchedAfterFetch
  BY DEF LedgerInv
<1>3. SessionsIssued'
  BY <1>1, <1>2, SessionsIssuedNext
<1>4. PledgesAreOwn'
  BY <1>1, <1>2, PledgesAreOwnNext
<1>5. FetchedFirst'
  BY <1>1, <1>2, FetchedFirstNext
<1>6. SwitchedAfterFetch'
  BY <1>1, <1>2, SwitchedNext
<1> QED
  BY <1>1, <1>3, <1>4, <1>5, <1>6 DEF LedgerInv

LEMMA LedgerInit == Init => LedgerInv
<1> SUFFICES ASSUME Init PROVE LedgerInv
  OBVIOUS
<1>1. sc \in Scenarios /\ sc.linked \in {"no", "empty", "twins", "purged"}
  BY ScenariosAssumption DEF Init
<1> DEFINE b == Begun(sc.linked, sc.firstDay)
<1>2. PICK rows, alloc, cover, rules, n, spent, proven, floor :
        /\ db = [acct |-> b.acct, rows |-> b.rows, alloc |-> alloc, cover |-> cover,
                 sync |-> b.sync, evid |-> b.evid, health |-> NoHealth, claim |-> NoClaim,
                 bals |-> NoRows, rules |-> rules]
        /\ issued = [life |-> b.acct.life, session |-> b.acct.session, row |-> n,
                     answer |-> 0, tick |-> 0]
        /\ hist = [spent |-> spent, proven |-> proven, fetched |-> {}, switched |-> {},
                   okAt |-> [session |-> 0, started |-> 0], floor |-> floor]
        /\ b.rows = NoRows => cover = {}
  <2>1. b.rows = NoRows => {<<d, d + 1>> : d \in {b.rows[i].date : i \in DOMAIN b.rows}} = {}
    BY DEF NoRows
  <2> HIDE DEF b
  <2> QED
    BY <2>1 DEF Init, b
<1>3. /\ AcctTyped(b.acct) /\ b.sync \in Findings /\ b.sync.session <= b.acct.session
      /\ ~b.acct.live => b.rows = NoRows /\ b.sync = NoSync /\ b.evid = NoEvidence
  <2> DEFINE bound == [live |-> TRUE, life |-> 1, session |-> 1]
             again == [bound EXCEPT !.life = 2]
             done == [NoSync EXCEPT !.row = TRUE, !.comp = "complete", !.session = 1]
             purged == [NoSync EXCEPT !.row = TRUE, !.comp = "partial"]
  <2>1. /\ AcctTyped(NoAccount) /\ AcctTyped(bound) /\ AcctTyped(again)
        /\ ~NoAccount.live /\ bound.live /\ again.live
        /\ NoAccount.session = 0 /\ bound.session = 1 /\ again.session = 1
    BY DEF AcctTyped, NoAccount
  <2>2. /\ NoSync \in Findings /\ done \in Findings /\ purged \in Findings
        /\ NoSync.session = 0 /\ done.session = 1 /\ purged.session = 0
    BY DEF NoSync, Findings
  <2>3. CASE sc.linked = "no"
    <3>1. b.acct = NoAccount /\ b.sync = NoSync /\ b.evid = NoEvidence /\ b.rows = NoRows
      BY <2>3 DEF Begun
    <3> QED
      BY <2>1, <2>2, <3>1
  <2>4. CASE sc.linked = "empty"
    <3>1. b.acct = bound /\ b.sync = done
      BY <2>4 DEF Begun
    <3> QED
      BY <2>1, <2>2, <3>1
  <2>5. CASE sc.linked = "twins"
    <3>1. b.acct = bound /\ b.sync = done
      BY <2>5 DEF Begun
    <3> QED
      BY <2>1, <2>2, <3>1
  <2>6. CASE sc.linked = "purged"
    <3>1. b.acct = again /\ b.sync = purged
      BY <2>6 DEF Begun
    <3> QED
      BY <2>1, <2>2, <3>1
  <2> QED
    BY <1>1, <2>3, <2>4, <2>5, <2>6
<1> HIDE DEF b
<1>4. run = [p \in Procs |-> Idle]
  BY DEF Init
<1>5. DbTyped(db) /\ IssuedTyped(issued) /\ HistTyped(hist)
  BY <1>2, <1>3 DEF DbTyped, IssuedTyped, HistTyped, NoHealth, Records, AcctTyped
<1>6. Typed
  BY <1>1, <1>4, <1>5, IdleTyped DEF Typed
<1>7. SessionsIssued
  BY <1>2, <1>3, <1>4 DEF SessionsIssued, Idle, NoSync, AcctTyped
<1>8. PledgesAreOwn /\ FetchedFirst
  BY <1>4 DEF PledgesAreOwn, FetchedFirst, Pledged, Idle
<1>9. HealthKept /\ SwitchedAfterFetch
  BY <1>2 DEF HealthKept, SwitchedAfterFetch, NoHealth
<1>10. ErasedIsBare
  BY <1>2, <1>3 DEF ErasedIsBare
<1> QED
  BY <1>6, <1>7, <1>8, <1>9, <1>10 DEF LedgerInv

LEMMA LedgerInvariant == Spec => []LedgerInv
BY LedgerInit, LedgerNext, PTL DEF Spec

\* The health record of the bound consent never lags behind a later sync of it
\* that worked, in whatever order the answers of two runs are recorded
\* (record_sync_health, record_consent_answer).
THEOREM HealthLatestAlways == Spec => []HealthLatest
<1>1. LedgerInv => HealthLatest
  BY DEF LedgerInv, HealthKept, HealthLatest
<1> QED
  BY <1>1, LedgerInvariant, PTL

\* A renewed consent becomes the account's only after a fetch under it ran to
\* its end, in the life of the account the renewal began in (switch_bindings).
THEOREM SwitchedOnlyAfterFetch == Spec => []SwitchedAfterFetch
<1>1. LedgerInv => SwitchedAfterFetch
  BY DEF LedgerInv
<1> QED
  BY <1>1, LedgerInvariant, PTL

\* No call that was under way leaves a record of an account that has been
\* erased: every late write is fenced on the life it began in.
THEOREM ErasedStaysBare == Spec => []ErasedIsBare
<1>1. LedgerInv => ErasedIsBare
  BY DEF LedgerInv
<1> QED
  BY <1>1, LedgerInvariant, PTL

-----------------------------------------------------------------------------
(* The inductive invariant.                                                *)

RowFields == {"content", "date", "ref", "status", "state", "succ", "ident", "occ", "why",
              "tags", "by"}

\* A row: its identity follows its content, exactly the superseded ones name a
\* successor, and they are bare.
RowFits(r) ==
  /\ DOMAIN r = RowFields
  /\ r.content \in Idents /\ r.date \in Int /\ r.ref \in Int /\ r.status \in Statuses
  /\ r.ident = r.content /\ r.occ \in Nat /\ r.why \in Reasons
  /\ r.state \in {"active", "superseded", "cancelled"} /\ r.succ \in Nat /\ r.by \in Nat
  /\ (r.state = "superseded") <=> (r.succ # 0)
  /\ r.succ # 0 => r.tags = {}
  /\ r.tags \subseteq Tags /\ Cardinality(Plain(r.tags)) <= MaxTagsPerRow

RowsFit ==
  /\ issued.row \in Nat /\ DOMAIN db.rows \subseteq 1 .. issued.row
  /\ \A i \in DOMAIN db.rows : /\ RowFits(db.rows[i])
                               /\ db.rows[i].succ \in {0} \cup DOMAIN db.rows

KeysUnique(rows) ==
  \A i, j \in DOMAIN rows :
    rows[i].ident = rows[j].ident /\ rows[i].occ = rows[j].occ => i = j

\* Every occurrence given to a row is on record as spent, below the mark.
MarksFit ==
  /\ db.alloc \in [Idents -> Nat] /\ KeysUnique(db.rows)
  /\ \A y \in hist.spent : y \in Idents \X Nat \X Nat /\ y[2] < db.alloc[y[1]]
  /\ SpentPairs(db) \subseteq hist.spent

\* The lives an account has lived, and what was landed since its last erasure.
LivesFit ==
  /\ issued.life \in Nat /\ db.acct.life \in 0 .. issued.life
  /\ hist.floor \in 0 .. issued.life + 1
  /\ db.acct.live => hist.floor <= db.acct.life
  /\ LandedSinceErasure

Current(r) == db.acct.live /\ db.acct.life = r.life

\* What a run loaded; every key of it is spent while the account lives on.
ViewFits(r) ==
  /\ DOMAIN r.view = DOMAIN NoView
  /\ DOMAIN r.view.rows \subseteq 1 .. issued.row
  /\ \A i \in DOMAIN r.view.rows : RowFits(r.view.rows[i])
  /\ r.view.win \subseteq DOMAIN r.view.rows /\ r.view.below \subseteq DOMAIN r.view.rows
  /\ Current(r) => SpentPairs(r.view) \subseteq hist.spent

RunFits(r) ==
  /\ r.page \in Seq(Pays) /\ r.from \in Int /\ r.end \in Int
  /\ r.life \in 0 .. issued.life /\ r.started <= issued.tick
  /\ r.pc \in {"measure", "apply"} => ViewFits(r)
  /\ r.pc = "apply" => r.alloc \in [Idents -> Nat]
  /\ r.pc = "cover" /\ Current(r) => ProvedDays(r) \subseteq hist.proven

RunsFit == \A p \in Procs : RunFits(run[p])

CoverFits ==
  /\ IsFiniteSet(db.cover)
  /\ \A c \in db.cover : c \in Int \X Int /\ c[1] < c[2]
  /\ CoverageProved

BankFits == today \in Nat /\ bank \in Seq(Pays)
RulesFit == \A r \in db.rules : "tags" \in DOMAIN r /\ r.tags \subseteq Tags

RowsInv ==
  /\ BankFits /\ RulesFit /\ RowsFit /\ MarksFit /\ LivesFit /\ RunsFit /\ CoverFits
  /\ BalancesOfOneAnswer

-----------------------------------------------------------------------------
(* What one statement of a landing changes.                                *)

TableFields == {"ok", "rows", "alloc"}

LEMMA MaxOfTwo ==
  ASSUME NEW a \in Int, NEW b \in Int
  PROVE  Max({a, b}) \in {a, b} /\ a <= Max({a, b}) /\ b <= Max({a, b})
<1>1. IsFiniteSet({a} \cup {b})
  BY FS_Singleton, FS_AddElement
<1>2. {a, b} = {a} \cup {b} /\ {a, b} \in SUBSET Int /\ {a, b} # {}
  OBVIOUS
<1> QED
  BY <1>1, <1>2, Greatest

\* The mark of an identity, raised over one occurrence.
Spend(alloc, x, occ) == [alloc EXCEPT ![x] = Max({@, occ + 1})]

NewRow(ins, life) ==
  [content |-> ins.content, date |-> ins.date, ref |-> ins.ref, status |-> ins.status,
   state |-> "active", succ |-> 0, ident |-> ins.ident, occ |-> ins.occ, why |-> ins.why,
   tags |-> {}, by |-> life]

LEMMA Inserted ==
  ASSUME NEW t, DOMAIN t = TableFields, NEW id, NEW ins, NEW life,
         NEW d, d = InsertOne(t, id, ins, life), d.ok
  PROVE  /\ ~Taken(t, id, ins.ident, ins.occ)
         /\ DOMAIN d = TableFields /\ d.rows = Put(t.rows, id, NewRow(ins, life))
         /\ d.alloc = Spend(t.alloc, ins.ident, ins.occ)
<1>1. ~Taken(t, id, ins.ident, ins.occ)
  <2>1. Fail(t).ok = FALSE
    BY DEF Fail, TableFields
  <2>2. Taken(t, id, ins.ident, ins.occ) => d = Fail(t)
    BY Zenon DEF InsertOne
  <2> QED
    BY <2>1, <2>2
<1> DEFINE row == NewRow(ins, life)
           rows == Put(t.rows, id, row)
           alloc == Spend(t.alloc, ins.ident, ins.occ)
<1>2. d = Issue([t EXCEPT !.rows = rows], ins.ident, ins.occ)
  BY <1>1 DEF InsertOne, NewRow
<1> HIDE DEF rows
<1>3. DOMAIN d = TableFields /\ d.rows = rows /\ d.alloc = alloc
  BY <1>2 DEF Issue, Spend, TableFields
<1> QED
  BY <1>1, <1>3 DEF rows

LEMMA Updated ==
  ASSUME NEW t, DOMAIN t = TableFields, NEW u, u.id \in DOMAIN t.rows,
         DOMAIN t.rows[u.id] = RowFields, ~Taken(t, u.id, u.ident, u.occ),
         NEW d, d = UpdateOne(t, u)
  PROVE  /\ DOMAIN d = TableFields /\ DOMAIN d.rows = DOMAIN t.rows
         /\ \A j \in DOMAIN t.rows : j # u.id => d.rows[j] = t.rows[j]
         /\ d.alloc = Spend(t.alloc, u.ident, u.occ)
         /\ DOMAIN d.rows[u.id] = RowFields
         /\ d.rows[u.id].content = u.row.content /\ d.rows[u.id].date = u.row.date
         /\ d.rows[u.id].ref = u.row.ref /\ d.rows[u.id].status = u.row.status
         /\ d.rows[u.id].ident = u.ident /\ d.rows[u.id].occ = u.occ
         /\ d.rows[u.id].why = (IF u.why = "none" THEN t.rows[u.id].why ELSE u.why)
         /\ d.rows[u.id].state = t.rows[u.id].state /\ d.rows[u.id].succ = t.rows[u.id].succ
         /\ d.rows[u.id].tags = t.rows[u.id].tags /\ d.rows[u.id].by = t.rows[u.id].by
<1> DEFINE old == t.rows[u.id]
           r == [old EXCEPT !.content = u.row.content, !.date = u.row.date,
                            !.ref = u.row.ref, !.status = u.row.status,
                            !.ident = u.ident, !.occ = u.occ,
                            !.why = IF u.why = "none" THEN @ ELSE u.why]
<1>1. d = Issue([t EXCEPT !.rows[u.id] = r], u.ident, u.occ)
  BY DEF UpdateOne
<1> HIDE DEF old
<1>2. DOMAIN old = RowFields
  BY DEF old
<1>3. /\ DOMAIN r = RowFields
      /\ r.content = u.row.content /\ r.date = u.row.date
      /\ r.ref = u.row.ref /\ r.status = u.row.status
      /\ r.ident = u.ident /\ r.occ = u.occ
      /\ r.why = (IF u.why = "none" THEN old.why ELSE u.why)
      /\ r.state = old.state /\ r.succ = old.succ
      /\ r.tags = old.tags /\ r.by = old.by
  BY <1>2 DEF RowFields
<1> HIDE DEF r
<1>4. /\ DOMAIN d = TableFields /\ DOMAIN d.rows = DOMAIN t.rows
      /\ \A j \in DOMAIN t.rows : j # u.id => d.rows[j] = t.rows[j]
      /\ d.alloc = Spend(t.alloc, u.ident, u.occ)
      /\ d.rows[u.id] = r
  BY <1>1 DEF Issue, Spend, TableFields
<1> QED
  BY <1>3, <1>4 DEF old

\* Row i of t superseded by row id, as d has it.
Replaced(t, d, i, id, why) ==
  /\ DOMAIN d = TableFields /\ DOMAIN d.rows = DOMAIN t.rows /\ d.alloc = t.alloc
  /\ \A j \in DOMAIN t.rows : j # i /\ j # id => d.rows[j] = t.rows[j]
  /\ DOMAIN d.rows[i] = RowFields /\ d.rows[i].state = "superseded"
  /\ d.rows[i].succ = id /\ d.rows[i].tags = {}
  /\ d.rows[i].why = (IF t.rows[i].why = "none" THEN why ELSE t.rows[i].why)
  /\ \A x \in {"content", "date", "ref", "status", "ident", "occ", "by"} :
       d.rows[i][x] = t.rows[i][x]
  /\ DOMAIN d.rows[id] = RowFields
  /\ d.rows[id].tags = t.rows[id].tags \cup t.rows[i].tags
  /\ \A x \in RowFields \ {"tags"} : d.rows[id][x] = t.rows[id][x]

LEMMA Superseded ==
  ASSUME NEW t, DOMAIN t = TableFields, NEW u, NEW id, u.id \in DOMAIN t.rows,
         id \in DOMAIN t.rows, id # u.id,
         DOMAIN t.rows[u.id] = RowFields, DOMAIN t.rows[id] = RowFields,
         t.rows[u.id].state = "active", t.rows[u.id].succ = 0,
         NEW d, d = SupersedeOne(t, u, id)
  PROVE  Replaced(t, d, u.id, id, u.why)
<1> DEFINE old == t.rows[u.id]
           new == t.rows[id]
           r == [old EXCEPT !.state = "superseded", !.succ = id, !.tags = {},
                            !.why = IF @ = "none" THEN u.why ELSE @]
           s == [new EXCEPT !.tags = @ \cup old.tags]
<1>1. d = [t EXCEPT !.rows[u.id] = r, !.rows[id].tags = @ \cup old.tags]
  BY DEF SupersedeOne
<1> HIDE DEF r
<1>2. /\ DOMAIN d = TableFields /\ DOMAIN d.rows = DOMAIN t.rows /\ d.alloc = t.alloc
      /\ \A j \in DOMAIN t.rows : j # u.id /\ j # id => d.rows[j] = t.rows[j]
      /\ d.rows[u.id] = r /\ d.rows[id] = s
  BY <1>1 DEF TableFields
<1> HIDE DEF s, old, new
<1>3. DOMAIN old = RowFields /\ DOMAIN new = RowFields
  BY DEF old, new
<1>4. /\ DOMAIN r = RowFields /\ r.state = "superseded" /\ r.succ = id /\ r.tags = {}
      /\ r.why = (IF old.why = "none" THEN u.why ELSE old.why)
      /\ \A x \in {"content", "date", "ref", "status", "ident", "occ", "by"} : r[x] = old[x]
  BY <1>3 DEF r, RowFields
<1>5. /\ DOMAIN s = RowFields /\ s.tags = new.tags \cup old.tags
      /\ \A x \in RowFields \ {"tags"} : s[x] = new[x]
  BY <1>3 DEF s, RowFields
<1> QED
  BY <1>2, <1>4, <1>5 DEF old, new, Replaced


-----------------------------------------------------------------------------
(* The inserts of a plan.                                                  *)

Marks(alloc) ==
  /\ alloc \in [Idents -> Nat] /\ db.alloc \in [Idents -> Nat]
  /\ \A x \in Idents : db.alloc[x] <= alloc[x]
BelowMarks(t) == \A i \in DOMAIN t.rows : t.rows[i].occ < t.alloc[t.rows[i].ident]

\* The table once the first n inserts stand in it.
InsertedUpTo(plan, base, life, n, t) ==
  t.ok =>
    /\ DOMAIN t = TableFields
    /\ DOMAIN t.rows = DOMAIN db.rows \cup (base + 1 .. base + n)
    /\ \A i \in DOMAIN db.rows : t.rows[i] = db.rows[i]
    /\ \A k \in 1 .. n : t.rows[base + k] = NewRow(plan.ins[k], life)
    /\ KeysUnique(t.rows) /\ Marks(t.alloc) /\ BelowMarks(t)

OpInsert(plan, base, life, t, id) ==
  IF t.ok THEN InsertOne(t, id, plan.ins[id - base], life) ELSE t
GoodInsert(plan, base, life, n, t) == InsertedUpTo(plan, base, life, n, t)
InsertFold == INSTANCE Folding WITH Op <- OpInsert, Good <- GoodInsert

\* A mark raised over one occurrence.
LEMMA Raise ==
  ASSUME NEW alloc, Marks(alloc), NEW x \in Idents, NEW occ \in Nat,
         NEW new, new = Spend(alloc, x, occ)
  PROVE  /\ Marks(new) /\ occ < new[x] /\ \A y \in Idents : alloc[y] <= new[y]
<1>1. /\ alloc[x] \in Nat /\ occ + 1 \in Nat /\ db.alloc[x] <= alloc[x]
  BY DEF Marks
<1> DEFINE a == alloc[x]
           b == occ + 1
           top == Max({a, b})
<1>2. a \in Int /\ b \in Int /\ a \in Nat /\ b \in Nat /\ occ < b
  BY <1>1
<1> HIDE DEF a, b
<1>3. new = [alloc EXCEPT ![x] = top] /\ top \in Nat /\ a <= top /\ b <= top
  BY <1>2, MaxOfTwo DEF Spend, a, b
<1>6. alloc[x] <= top /\ occ < top
  BY <1>2, <1>3 DEF a
<1> HIDE DEF top
<1>4. /\ new \in [Idents -> Nat] /\ new[x] = top
      /\ \A y \in Idents : y # x => new[y] = alloc[y]
  BY <1>3 DEF Marks
<1>5. ASSUME NEW y \in Idents PROVE alloc[y] <= new[y] /\ db.alloc[y] <= new[y]
  <2>1. alloc[y] \in Nat /\ db.alloc[y] \in Nat /\ db.alloc[y] <= alloc[y]
    BY DEF Marks
  <2>2. CASE y = x
    BY <1>3, <1>4, <1>6, <2>1, <2>2
  <2>3. CASE y # x
    BY <1>4, <2>1, <2>3
  <2> QED
    BY <2>2, <2>3
<1> QED
  BY <1>3, <1>4, <1>5, <1>6 DEF Marks

LEMMA InsertStep ==
  ASSUME NEW c, NEW plan, GoodPlan(c, plan), NEW base \in Nat, NEW life, RowsFit,
         DOMAIN db.rows \subseteq 1 .. base,
         NEW n \in 1 .. Len(plan.ins), NEW t, InsertedUpTo(plan, base, life, n - 1, t),
         NEW ins, ins = plan.ins[n], NEW id, id = base + n,
         NEW d, d = OpInsert(plan, base, life, t, id)
  PROVE  InsertedUpTo(plan, base, life, n, d)
<1>0. /\ Len(plan.ins) \in Nat /\ n \in Nat /\ 1 <= n
      /\ \A k \in 1 .. Len(plan.ins) : plan.ins[k] \in Inserts(c)
  <2>1. plan.ins \in Seq(Inserts(c))
    BY DEF GoodPlan
  <2>2. Len(plan.ins) \in Nat
    BY <2>1
  <2> QED
    BY <2>1, <2>2
<1> SUFFICES ASSUME d.ok PROVE InsertedUpTo(plan, base, life, n, d)
  BY DEF InsertedUpTo
<1>1. t.ok
  BY DEF OpInsert
<1>2. id - base = n /\ d = InsertOne(t, id, ins, life)
  BY <1>1 DEF OpInsert
<1>3. /\ DOMAIN t = TableFields
      /\ DOMAIN t.rows = DOMAIN db.rows \cup (base + 1 .. base + (n - 1))
      /\ \A i \in DOMAIN db.rows : t.rows[i] = db.rows[i]
      /\ \A k \in 1 .. n - 1 : t.rows[base + k] = NewRow(plan.ins[k], life)
      /\ KeysUnique(t.rows) /\ Marks(t.alloc) /\ BelowMarks(t)
  BY <1>1 DEF InsertedUpTo
<1>4. ins.ident \in Idents /\ ins.occ \in Nat
  BY <1>0 DEF Inserts
<1>5. /\ ~Taken(t, id, ins.ident, ins.occ)
      /\ DOMAIN d = TableFields /\ d.rows = Put(t.rows, id, NewRow(ins, life))
      /\ d.alloc = Spend(t.alloc, ins.ident, ins.occ)
  <2>1. DOMAIN t = TableFields
    BY <1>3
  <2> QED
    BY <2>1, <1>2, Inserted
<1>7. /\ NewRow(ins, life).ident = ins.ident /\ NewRow(ins, life).occ = ins.occ
  BY DEF NewRow
<1> DEFINE new == NewRow(ins, life)
<1> HIDE DEF new
<1>8. id \notin DOMAIN t.rows /\ DOMAIN t.rows \cup {id} = DOMAIN db.rows \cup (base + 1 .. base + n)
  BY <1>0, <1>3
<1>9. /\ DOMAIN d.rows = DOMAIN t.rows \cup {id} /\ d.rows[id] = new
      /\ \A i \in DOMAIN t.rows : d.rows[i] = t.rows[i]
  BY <1>5, <1>8 DEF Put, new
<1>10. KeysUnique(d.rows)
  <2>1. \A i \in DOMAIN t.rows : ~(t.rows[i].ident = ins.ident /\ t.rows[i].occ = ins.occ)
    BY <1>5, <1>8 DEF Taken
  <2>2. new.ident = ins.ident /\ new.occ = ins.occ
    BY <1>7 DEF new
  <2> QED
    BY <1>3, <1>9, <2>1, <2>2 DEF KeysUnique
<1>11. Marks(d.alloc) /\ ins.occ < d.alloc[ins.ident]
       /\ \A y \in Idents : t.alloc[y] <= d.alloc[y]
  BY <1>3, <1>4, <1>5, Raise
<1>12. \A i \in DOMAIN t.rows : t.rows[i].ident \in Idents /\ t.rows[i].occ \in Nat
  <2>1. ASSUME NEW k \in 1 .. n - 1
        PROVE  plan.ins[k].ident \in Idents /\ plan.ins[k].occ \in Nat
    <3>1. k \in 1 .. Len(plan.ins)
      BY <1>0
    <3> QED
      BY <3>1, <1>0 DEF Inserts
  <2>2. ASSUME NEW i \in DOMAIN t.rows, i \notin DOMAIN db.rows
        PROVE  t.rows[i].ident \in Idents /\ t.rows[i].occ \in Nat
    <3>1. i \in base + 1 .. base + (n - 1)
      BY <1>3, <2>2
    <3>2. PICK k \in 1 .. n - 1 : i = base + k
      <4> DEFINE k == i - base
      <4>1. k \in 1 .. n - 1 /\ i = base + k
        BY <1>0, <3>1
      <4> QED
        BY <4>1
    <3>3. t.rows[i] = NewRow(plan.ins[k], life)
      BY <1>3, <3>2
    <3>4. t.rows[i].ident = plan.ins[k].ident /\ t.rows[i].occ = plan.ins[k].occ
      BY <3>3 DEF NewRow
    <3> QED
      BY <3>4, <2>1
  <2> QED
    BY <2>2, <1>3 DEF RowsFit, RowFits
<1>13. BelowMarks(d)
  <2>1. ASSUME NEW i \in DOMAIN t.rows PROVE d.rows[i].occ < d.alloc[d.rows[i].ident]
    <3>1. /\ t.rows[i].occ < t.alloc[t.rows[i].ident]
          /\ t.alloc[t.rows[i].ident] <= d.alloc[t.rows[i].ident]
          /\ t.rows[i].occ \in Nat /\ t.alloc[t.rows[i].ident] \in Nat
          /\ d.alloc[t.rows[i].ident] \in Nat
      BY <1>3, <1>11, <1>12 DEF BelowMarks, Marks
    <3> QED
      BY <3>1, <1>9
  <2> QED
    BY <2>1, <1>7, <1>9, <1>11 DEF BelowMarks, new
<1>14. \A k \in 1 .. n : d.rows[base + k] = NewRow(plan.ins[k], life)
  <2>1. d.rows[base + n] = NewRow(plan.ins[n], life)
    BY <1>9 DEF new
  <2>2. ASSUME NEW k \in 1 .. n - 1 PROVE d.rows[base + k] = NewRow(plan.ins[k], life)
    <3>1. base + k \in DOMAIN t.rows
      BY <1>0, <1>3
    <3> QED
      BY <3>1, <1>3, <1>9
  <2>3. 1 .. n = (1 .. n - 1) \cup {n}
    BY <1>0
  <2> QED
    BY <2>1, <2>2, <2>3
<1> QED
  BY <1>3, <1>5, <1>8, <1>9, <1>10, <1>11, <1>13, <1>14 DEF InsertedUpTo


LEMMA InsertsStand ==
  ASSUME NEW c, NEW plan, GoodPlan(c, plan), NEW base \in Nat, NEW life, RowsFit, MarksFit,
         DOMAIN db.rows \subseteq 1 .. base,
         NEW ids, ids = [n \in DOMAIN plan.ins |-> base + n],
         NEW t0, t0 = [ok |-> TRUE, rows |-> db.rows, alloc |-> db.alloc],
         NEW t1, t1 = InsertFold!Folded(plan, base, life, t0, ids)
  PROVE  InsertedUpTo(plan, base, life, Len(plan.ins), t1)
<1> DEFINE n == Len(plan.ins)
<1>1. n \in Nat /\ DOMAIN plan.ins = 1 .. n /\ DOMAIN ids = 1 .. n
      /\ \A k \in 1 .. n : ids[k] = base + k
  BY DEF GoodPlan
<1> HIDE DEF n
<1>2. GoodInsert(plan, base, life, 0, t0)
  <2>1. DOMAIN t0 = TableFields /\ t0.rows = db.rows /\ t0.alloc = db.alloc
    BY DEF TableFields
  <2>2. Marks(db.alloc) /\ KeysUnique(db.rows)
    BY DEF MarksFit, Marks
  <2>3. BelowMarks(t0)
    <3>1. ASSUME NEW i \in DOMAIN db.rows
          PROVE  db.rows[i].occ < db.alloc[db.rows[i].ident]
      <4> DEFINE y == <<db.rows[i].ident, db.rows[i].occ, i>>
      <4>1. y \in hist.spent
        BY DEF MarksFit, SpentPairs
      <4>2. y[2] < db.alloc[y[1]]
        BY <4>1 DEF MarksFit
      <4> QED
        BY <4>2
    <3> QED
      BY <2>1, <3>1 DEF BelowMarks
  <2> QED
    BY <2>1, <2>2, <2>3 DEF GoodInsert, InsertedUpTo
<1>3. ASSUME NEW i \in 1 .. n, NEW t, GoodInsert(plan, base, life, i - 1, t)
      PROVE  GoodInsert(plan, base, life, i, OpInsert(plan, base, life, t, ids[i]))
  <2>1. ids[i] = base + i
    BY <1>1
  <2> QED
    BY <1>3, <2>1, InsertStep DEF GoodInsert, n
<1>4. GoodInsert(plan, base, life, n, InsertFold!Folded(plan, base, life, t0, ids))
  BY <1>1, <1>2, <1>3, InsertFold!FoldKeeps
<1> QED
  BY <1>4 DEF GoodInsert, n


-----------------------------------------------------------------------------
(* What the statements after the inserts keep.                             *)

\* Row i is superseded by insert k of the plan, which the plan meant for it.
Handed(c, plan, i, k) ==
  /\ i \in DOMAIN c.rows
  /\ c.rows[i].why # "none" => plan.ins[k].why # "none"
  /\ c.trusted \/ plan.ins[k].ident = c.rows[i].ident

\* A row as it stands in the table, next to the one the ledger holds: its finding
\* stays; without trust its identity does, if it was loaded under it; and it is
\* superseded as it was, or by an insert that takes its tags.
OldFits(base, c, plan, t, i) ==
  /\ RowFits(t.rows[i]) /\ t.rows[i].by >= hist.floor
  /\ db.rows[i].why # "none" => t.rows[i].why # "none"
  /\ ~c.trusted /\ i \in DOMAIN c.rows /\ c.rows[i].ident = db.rows[i].ident
       => t.rows[i].ident = db.rows[i].ident
  /\ \/ t.rows[i].succ = db.rows[i].succ /\ t.rows[i].tags = db.rows[i].tags
     \/ /\ db.rows[i].succ = 0 /\ t.rows[i].tags = {}
        /\ \E k \in 1 .. Len(plan.ins) :
             /\ t.rows[i].succ = base + k /\ Handed(c, plan, i, k)
             /\ db.rows[i].tags \subseteq t.rows[base + k].tags

NewFits(base, plan, t, k) ==
  /\ RowFits(t.rows[base + k]) /\ t.rows[base + k].by >= hist.floor
  /\ t.rows[base + k].succ = 0 /\ t.rows[base + k].ident = plan.ins[k].ident
  /\ plan.ins[k].why # "none" => t.rows[base + k].why # "none"

\* A key is one on record as spent, or not below the mark the run read.
KeyFits(c, t, i) ==
  \/ <<t.rows[i].ident, t.rows[i].occ, i>> \in hist.spent
  \/ c.alloc[t.rows[i].ident] <= t.rows[i].occ

TableFits(base, c, plan, t) ==
  /\ DOMAIN t = TableFields
  /\ DOMAIN t.rows = DOMAIN db.rows \cup (base + 1 .. base + Len(plan.ins))
  /\ \A i \in DOMAIN db.rows : OldFits(base, c, plan, t, i)
  /\ \A k \in 1 .. Len(plan.ins) : NewFits(base, plan, t, k)
  /\ \A i \in DOMAIN t.rows : KeyFits(c, t, i)
  /\ KeysUnique(t.rows) /\ Marks(t.alloc) /\ BelowMarks(t)

\* An insert that no change so far was meant for is still bare.
BareAfter(base, plan, n, t) ==
  \A k \in 1 .. Len(plan.ins) :
    (\A m \in 1 .. n : plan.upd[m].op = "supersede" => plan.upd[m].by # k)
      => t.rows[base + k].tags = {}

OpChange(base, c, plan, t, u) ==
  IF t.ok THEN IF u.op = "supersede" THEN SupersedeOne(t, u, base + u.by) ELSE UpdateOne(t, u)
  ELSE t
GoodChange(base, c, plan, n, t) ==
  t.ok => TableFits(base, c, plan, t) /\ BareAfter(base, plan, n, t)
ChangeFold == INSTANCE Folding WITH Op <- OpChange, Good <- GoodChange

GoodAfter(base, c, plan, n, t) == t.ok => TableFits(base, c, plan, t)

OpCancel(base, c, plan, t, i) == IF t.ok THEN CancelOne(t, i) ELSE t
CancelFold == INSTANCE Folding WITH Op <- OpCancel, Good <- GoodAfter

OpFlag(base, c, plan, t, f) == IF t.ok THEN FlagOne(t, f) ELSE t
FlagFold == INSTANCE Folding WITH Op <- OpFlag, Good <- GoodAfter

OpRule(base, c, plan, t, id) == IF t.ok THEN RuleOne(t, id) ELSE t
RuleFold == INSTANCE Folding WITH Op <- OpRule, Good <- GoodAfter

RowIds(plan, base) == [n \in DOMAIN plan.ins |-> base + n]
Untouched == [ok |-> TRUE, rows |-> db.rows, alloc |-> db.alloc]

\* The landing as the five loops it is.
LandedBy(c, plan, base, life) ==
  RuleFold!Folded(base, c, plan,
    FlagFold!Folded(base, c, plan,
      CancelFold!Folded(base, c, plan,
        ChangeFold!Folded(base, c, plan,
          InsertFold!Folded(plan, base, life, Untouched, RowIds(plan, base)),
          plan.upd),
        plan.tomb),
      plan.flags),
    RowIds(plan, base))

LEMMA LandedIs ==
  ASSUME NEW c, NEW plan, NEW base, NEW life
  PROVE  Landed(plan, base, life) = LandedBy(c, plan, base, life)
BY DEF LandedBy, RowIds, Untouched, Landed, InsertFold!Folded, OpInsert, ChangeFold!Folded, OpChange, CancelFold!Folded,
       OpCancel, FlagFold!Folded, OpFlag, RuleFold!Folded, OpRule,
       FoldLeft,
       MapThenFoldSet,
       InsertFold!Top, ChangeFold!Top, CancelFold!Top, FlagFold!Top, RuleFold!Top, Max

-----------------------------------------------------------------------------
(* Every statement keeps the table fit.                                    *)

LEMMA NewRowFits ==
  ASSUME NEW c, NEW ins \in Inserts(c), NEW life \in Nat
  PROVE  /\ RowFits(NewRow(ins, life)) /\ NewRow(ins, life).by = life
         /\ NewRow(ins, life).succ = 0 /\ NewRow(ins, life).tags = {}
         /\ NewRow(ins, life).ident = ins.ident /\ NewRow(ins, life).occ = ins.occ
         /\ NewRow(ins, life).why = ins.why
<1>1. /\ ins.content \in Idents /\ ins.date \in Int /\ ins.ref \in Int /\ ins.status \in Statuses
      /\ ins.ident = ins.content /\ ins.occ \in Nat /\ ins.why \in Reasons
  BY DEF Inserts
<1>2. Plain({}) = {} /\ Cardinality(Plain({})) <= MaxTagsPerRow
  <2>1. Plain({}) = {}
    BY DEF Plain
  <2>2. 0 <= MaxTagsPerRow
    BY RulesAssumption
  <2> QED
    BY <2>1, <2>2, FS_EmptySet
<1> DEFINE r == NewRow(ins, life)
<1>3. /\ DOMAIN r = RowFields
      /\ r.content = ins.content /\ r.date = ins.date /\ r.ref = ins.ref /\ r.status = ins.status
      /\ r.state = "active" /\ r.succ = 0 /\ r.ident = ins.ident /\ r.occ = ins.occ
      /\ r.why = ins.why /\ r.tags = {} /\ r.by = life
  BY DEF NewRow, RowFields
<1> HIDE DEF r
<1>4. RowFits(r)
  BY <1>1, <1>2, <1>3 DEF RowFits
<1> QED
  BY <1>3, <1>4 DEF r

LEMMA InsertsFit ==
  ASSUME NEW c, NEW plan, GoodPlan(c, plan), NEW base \in Nat, NEW life \in Nat,
         hist.floor <= life, RowsFit, MarksFit, LivesFit, DOMAIN db.rows \subseteq 1 .. base,
         NEW t, t.ok, InsertedUpTo(plan, base, life, Len(plan.ins), t)
  PROVE  TableFits(base, c, plan, t) /\ BareAfter(base, plan, 0, t)
<1> DEFINE n == Len(plan.ins)
<1>1. n \in Nat /\ \A k \in 1 .. n : plan.ins[k] \in Inserts(c)
  <2>1. plan.ins \in Seq(Inserts(c))
    BY DEF GoodPlan
  <2> QED
    BY <2>1
<1>2. /\ DOMAIN t = TableFields
      /\ DOMAIN t.rows = DOMAIN db.rows \cup (base + 1 .. base + n)
      /\ \A i \in DOMAIN db.rows : t.rows[i] = db.rows[i]
      /\ \A k \in 1 .. n : t.rows[base + k] = NewRow(plan.ins[k], life)
      /\ KeysUnique(t.rows) /\ Marks(t.alloc) /\ BelowMarks(t)
  BY DEF InsertedUpTo
<1>3. ASSUME NEW i \in DOMAIN db.rows
      PROVE  OldFits(base, c, plan, t, i) /\ KeyFits(c, t, i)
  <2>1. t.rows[i] = db.rows[i] /\ RowFits(db.rows[i]) /\ db.rows[i].by >= hist.floor
    BY <1>2 DEF RowsFit, LivesFit, LandedSinceErasure
  <2>2. <<db.rows[i].ident, db.rows[i].occ, i>> \in hist.spent
    BY DEF MarksFit, SpentPairs
  <2> QED
    BY <2>1, <2>2 DEF OldFits, KeyFits
<1>4. ASSUME NEW k \in 1 .. n
      PROVE  /\ NewFits(base, plan, t, k) /\ KeyFits(c, t, base + k)
             /\ t.rows[base + k].tags = {}
  <2>1. plan.ins[k] \in Inserts(c) /\ t.rows[base + k] = NewRow(plan.ins[k], life)
    BY <1>1, <1>2
  <2>2. /\ RowFits(t.rows[base + k]) /\ t.rows[base + k].by = life
        /\ t.rows[base + k].succ = 0 /\ t.rows[base + k].tags = {}
        /\ t.rows[base + k].ident = plan.ins[k].ident /\ t.rows[base + k].occ = plan.ins[k].occ
        /\ t.rows[base + k].why = plan.ins[k].why
    BY <2>1, NewRowFits
  <2>3. hist.floor \in Int /\ life >= hist.floor
    BY DEF LivesFit
  <2>4. c.alloc[plan.ins[k].ident] <= plan.ins[k].occ
    BY <2>1 DEF Inserts
  <2> QED
    BY <2>2, <2>3, <2>4 DEF NewFits, KeyFits
<1>5. ASSUME NEW i \in DOMAIN t.rows PROVE KeyFits(c, t, i)
  <2>1. CASE i \in DOMAIN db.rows
    BY <2>1, <1>3
  <2>2. CASE i \in base + 1 .. base + n
    <3> DEFINE k == i - base
    <3>1. k \in 1 .. n /\ i = base + k
      BY <1>1, <2>2
    <3> HIDE DEF k
    <3> QED
      BY <3>1, <1>4
  <2> QED
    BY <1>2, <2>1, <2>2
<1> QED
  BY <1>2, <1>3, <1>4, <1>5 DEF TableFits, BareAfter

\* What a landing starts from.
Landable(base, c, plan) ==
  /\ GoodPlan(c, plan) /\ base \in Nat /\ RowsFit /\ RulesFit
  /\ DOMAIN db.rows \subseteq 1 .. base /\ DOMAIN c.rows \subseteq 1 .. base
  /\ SpentPairs(c) \subseteq hist.spent

\* A statement that leaves the keys of the rows alone.
KeysStay(t, d) ==
  /\ DOMAIN d = TableFields /\ DOMAIN d.rows = DOMAIN t.rows /\ d.alloc = t.alloc
  /\ \A i \in DOMAIN t.rows : d.rows[i].ident = t.rows[i].ident /\ d.rows[i].occ = t.rows[i].occ

LEMMA KeysStayFit ==
  ASSUME NEW base, NEW c, NEW plan, NEW t, TableFits(base, c, plan, t), NEW d, KeysStay(t, d)
  PROVE  /\ DOMAIN d = TableFields
         /\ DOMAIN d.rows = DOMAIN db.rows \cup (base + 1 .. base + Len(plan.ins))
         /\ \A i \in DOMAIN d.rows : KeyFits(c, d, i)
         /\ KeysUnique(d.rows) /\ Marks(d.alloc) /\ BelowMarks(d)
<1>1. /\ DOMAIN t.rows = DOMAIN db.rows \cup (base + 1 .. base + Len(plan.ins))
      /\ \A i \in DOMAIN t.rows : KeyFits(c, t, i)
      /\ KeysUnique(t.rows) /\ Marks(t.alloc) /\ BelowMarks(t)
  BY DEF TableFits
<1>2. \A i \in DOMAIN d.rows : KeyFits(c, d, i)
  BY <1>1 DEF KeysStay, KeyFits
<1>3. KeysUnique(d.rows)
  BY <1>1 DEF KeysStay, KeysUnique
<1>4. BelowMarks(d)
  BY <1>1 DEF KeysStay, BelowMarks
<1> QED
  BY <1>1, <1>2, <1>3, <1>4 DEF KeysStay

\* One that leaves identities, successors and findings too, and takes no tag
\* from an inserted row nor changes those of another.
Gentle(base, plan, t, d) ==
  /\ KeysStay(t, d)
  /\ \A i \in DOMAIN t.rows :
       /\ RowFits(d.rows[i]) /\ d.rows[i].by = t.rows[i].by /\ d.rows[i].succ = t.rows[i].succ
       /\ t.rows[i].why # "none" => d.rows[i].why # "none"
  /\ \A i \in DOMAIN db.rows : d.rows[i].tags = t.rows[i].tags
  /\ \A k \in 1 .. Len(plan.ins) : t.rows[base + k].tags \subseteq d.rows[base + k].tags

LEMMA InsertedRow ==
  ASSUME NEW base, NEW c, NEW plan, Landable(base, c, plan), NEW k \in 1 .. Len(plan.ins)
  PROVE  /\ Len(plan.ins) \in Nat /\ k \in Nat /\ 1 <= k /\ base + k \in Nat
         /\ base + k \in base + 1 .. base + Len(plan.ins) /\ base + k \notin 1 .. base
<1>1. Len(plan.ins) \in Nat
  BY DEF Landable, GoodPlan
<1>2. base \in Nat
  BY DEF Landable
<1> QED
  BY <1>1, <1>2

LEMMA GentleFits ==
  ASSUME NEW base, NEW c, NEW plan, Landable(base, c, plan),
         NEW t, TableFits(base, c, plan, t), NEW d, Gentle(base, plan, t, d)
  PROVE  TableFits(base, c, plan, d)
<1>1. /\ DOMAIN t.rows = DOMAIN db.rows \cup (base + 1 .. base + Len(plan.ins))
      /\ \A i \in DOMAIN db.rows : OldFits(base, c, plan, t, i)
      /\ \A k \in 1 .. Len(plan.ins) : NewFits(base, plan, t, k)
  BY DEF TableFits
<1>2. ASSUME NEW i \in DOMAIN db.rows PROVE OldFits(base, c, plan, d, i)
  <2>1. OldFits(base, c, plan, t, i) /\ i \in DOMAIN t.rows
    BY <1>1
  <2>2. /\ RowFits(d.rows[i]) /\ d.rows[i].by = t.rows[i].by
        /\ d.rows[i].succ = t.rows[i].succ /\ d.rows[i].ident = t.rows[i].ident
        /\ t.rows[i].why # "none" => d.rows[i].why # "none"
        /\ d.rows[i].tags = t.rows[i].tags
    BY <2>1 DEF Gentle, KeysStay
  <2>3. \A k \in 1 .. Len(plan.ins) : t.rows[base + k].tags \subseteq d.rows[base + k].tags
    BY DEF Gentle
  <2> QED
    BY <2>1, <2>2, <2>3 DEF OldFits
<1>3. ASSUME NEW k \in 1 .. Len(plan.ins) PROVE NewFits(base, plan, d, k)
  <2>1. NewFits(base, plan, t, k) /\ base + k \in DOMAIN t.rows
    BY <1>1, InsertedRow
  <2>2. /\ RowFits(d.rows[base + k]) /\ d.rows[base + k].by = t.rows[base + k].by
        /\ d.rows[base + k].succ = t.rows[base + k].succ
        /\ d.rows[base + k].ident = t.rows[base + k].ident
        /\ t.rows[base + k].why # "none" => d.rows[base + k].why # "none"
    BY <2>1 DEF Gentle, KeysStay
  <2> QED
    BY <2>1, <2>2 DEF NewFits
<1>4. /\ DOMAIN d = TableFields
      /\ DOMAIN d.rows = DOMAIN db.rows \cup (base + 1 .. base + Len(plan.ins))
      /\ \A i \in DOMAIN d.rows : KeyFits(c, d, i)
      /\ KeysUnique(d.rows) /\ Marks(d.alloc) /\ BelowMarks(d)
  <2>1. KeysStay(t, d)
    BY DEF Gentle
  <2> QED
    BY <2>1, KeysStayFit
<1> QED
  BY <1>2, <1>3, <1>4 DEF TableFits

\* A row of the table is fit, be it old or new.
LEMMA RowOfTable ==
  ASSUME NEW base, NEW c, NEW plan, Landable(base, c, plan),
         NEW t, TableFits(base, c, plan, t), NEW i \in DOMAIN t.rows
  PROVE  /\ RowFits(t.rows[i])
         /\ i \in DOMAIN db.rows \/ \E k \in 1 .. Len(plan.ins) : i = base + k
<1>1. /\ DOMAIN t.rows = DOMAIN db.rows \cup (base + 1 .. base + Len(plan.ins))
      /\ \A j \in DOMAIN db.rows : OldFits(base, c, plan, t, j)
      /\ \A k \in 1 .. Len(plan.ins) : NewFits(base, plan, t, k)
  BY DEF TableFits
<1>2. CASE i \in DOMAIN db.rows
  BY <1>1, <1>2 DEF OldFits
<1>3. CASE i \in base + 1 .. base + Len(plan.ins)
  <2>1. base \in Nat /\ Len(plan.ins) \in Nat
    BY DEF Landable, GoodPlan
  <2> DEFINE k == i - base
  <2>2. k \in 1 .. Len(plan.ins) /\ i = base + k
    BY <1>3, <2>1
  <2> HIDE DEF k
  <2> QED
    BY <2>2, <1>1 DEF NewFits
<1> QED
  BY <1>1, <1>2, <1>3

LEMMA CancelFits ==
  ASSUME NEW base, NEW c, NEW plan, Landable(base, c, plan),
         NEW t, TableFits(base, c, plan, t), NEW i, NEW d, d = CancelOne(t, i)
  PROVE  TableFits(base, c, plan, d)
<1>1. CASE ~(i \in DOMAIN t.rows /\ t.rows[i].state = "active")
  BY <1>1 DEF CancelOne
<1>2. CASE i \in DOMAIN t.rows /\ t.rows[i].state = "active"
  <2> DEFINE old == t.rows[i]
             r == [old EXCEPT !.state = "cancelled"]
  <2>1. d = [t EXCEPT !.rows[i] = r]
    BY <1>2 DEF CancelOne
  <2>2. RowFits(old) /\ old.state = "active"
    BY <1>2, RowOfTable
  <2>3. DOMAIN t = TableFields
    BY DEF TableFits
  <2> HIDE DEF old
  <2>4. /\ DOMAIN r = DOMAIN old /\ r.state = "cancelled"
        /\ \A x \in RowFields \ {"state"} : r[x] = old[x]
    BY <2>2 DEF RowFits, RowFields
  <2> HIDE DEF r
  <2>5. RowFits(r)
    BY <2>2, <2>4 DEF RowFits, RowFields
  <2>6. /\ r.ident = old.ident /\ r.occ = old.occ /\ r.by = old.by /\ r.succ = old.succ
        /\ r.why = old.why /\ r.tags = old.tags
    BY <2>4 DEF RowFields
  <2>7. /\ DOMAIN d = TableFields /\ DOMAIN d.rows = DOMAIN t.rows /\ d.alloc = t.alloc
        /\ d.rows[i] = r /\ \A j \in DOMAIN t.rows : j # i => d.rows[j] = t.rows[j]
    BY <1>2, <2>1, <2>3 DEF TableFields
  <2>8. Gentle(base, plan, t, d)
    <3>1. ASSUME NEW j \in DOMAIN t.rows
          PROVE  /\ RowFits(d.rows[j]) /\ d.rows[j].by = t.rows[j].by
                 /\ d.rows[j].succ = t.rows[j].succ /\ d.rows[j].tags = t.rows[j].tags
                 /\ t.rows[j].why # "none" => d.rows[j].why # "none"
                 /\ d.rows[j].ident = t.rows[j].ident /\ d.rows[j].occ = t.rows[j].occ
      <4>1. CASE j = i
        BY <4>1, <2>5, <2>6, <2>7 DEF old
      <4>2. CASE j # i
        BY <4>2, <2>7, RowOfTable
      <4> QED
        BY <4>1, <4>2
    <3>2. /\ \A j \in DOMAIN db.rows : j \in DOMAIN t.rows
          /\ \A k \in 1 .. Len(plan.ins) : base + k \in DOMAIN t.rows
      BY InsertedRow DEF TableFits
    <3> QED
      BY <2>7, <3>1, <3>2 DEF Gentle, KeysStay
  <2> QED
    BY <2>8, GentleFits
<1> QED
  BY <1>1, <1>2

LEMMA FlagFits ==
  ASSUME NEW base, NEW c, NEW plan, Landable(base, c, plan),
         NEW t, TableFits(base, c, plan, t), NEW f, f.why \in Raised, NEW d, d = FlagOne(t, f)
  PROVE  TableFits(base, c, plan, d)
<1> DEFINE i == f.id
<1>1. CASE i \notin DOMAIN t.rows
  BY <1>1 DEF FlagOne
<1>2. CASE i \in DOMAIN t.rows
  <2> DEFINE old == t.rows[i]
             r == [old EXCEPT !.why = f.why]
  <2>1. d = [t EXCEPT !.rows[i] = r]
    BY <1>2 DEF FlagOne
  <2>2. RowFits(old)
    BY <1>2, RowOfTable
  <2>3. DOMAIN t = TableFields
    BY DEF TableFits
  <2> HIDE DEF old
  <2>4. /\ DOMAIN r = DOMAIN old /\ r.why = f.why
        /\ \A x \in RowFields \ {"why"} : r[x] = old[x]
    BY <2>2 DEF RowFits, RowFields
  <2> HIDE DEF r
  <2>5. RowFits(r)
    BY <2>2, <2>4 DEF RowFits, RowFields, Raised
  <2>6. /\ r.ident = old.ident /\ r.occ = old.occ /\ r.by = old.by /\ r.succ = old.succ
        /\ r.why # "none" /\ r.tags = old.tags
    BY <2>4 DEF RowFields, Raised
  <2> HIDE DEF i
  <2>7. /\ DOMAIN d = TableFields /\ DOMAIN d.rows = DOMAIN t.rows /\ d.alloc = t.alloc
        /\ d.rows[i] = r /\ \A j \in DOMAIN t.rows : j # i => d.rows[j] = t.rows[j]
    BY <1>2, <2>1, <2>3 DEF TableFields
  <2>8. Gentle(base, plan, t, d)
    <3>1. ASSUME NEW j \in DOMAIN t.rows
          PROVE  /\ RowFits(d.rows[j]) /\ d.rows[j].by = t.rows[j].by
                 /\ d.rows[j].succ = t.rows[j].succ /\ d.rows[j].tags = t.rows[j].tags
                 /\ t.rows[j].why # "none" => d.rows[j].why # "none"
                 /\ d.rows[j].ident = t.rows[j].ident /\ d.rows[j].occ = t.rows[j].occ
      <4>1. CASE j = i
        BY <4>1, <2>5, <2>6, <2>7 DEF old
      <4>2. CASE j # i
        BY <4>2, <2>7, RowOfTable
      <4> QED
        BY <4>1, <4>2
    <3>2. /\ \A j \in DOMAIN db.rows : j \in DOMAIN t.rows
          /\ \A k \in 1 .. Len(plan.ins) : base + k \in DOMAIN t.rows
      BY InsertedRow DEF TableFits
    <3> QED
      BY <2>7, <3>1, <3>2 DEF Gentle, KeysStay
  <2> QED
    BY <2>8, GentleFits
<1> QED
  BY <1>1, <1>2

\* Rules add tags to a row, and stay within its budget.
LEMMA RulesKeep ==
  ASSUME RulesFit, NEW of, NEW date, NEW tags, tags \subseteq Tags,
         Cardinality(Plain(tags)) <= MaxTagsPerRow,
         NEW more, more = TagsByRules(db.rules, of, date, tags)
  PROVE  /\ tags \subseteq more /\ more \subseteq Tags
         /\ Cardinality(Plain(more)) <= MaxTagsPerRow
<1> DEFINE union == tags \cup UNION {r.tags : r \in {x \in db.rules : RuleMatches(x, of, date)}}
<1>1. union \subseteq Tags /\ tags \subseteq union
  BY DEF RulesFit
<1>2. more = IF CapProblem(tags, union) THEN tags ELSE union
  BY DEF TagsByRules
<1> HIDE DEF union
<1>3. CASE CapProblem(tags, union)
  BY <1>2, <1>3
<1>4. CASE ~CapProblem(tags, union)
  <2>1. more = union
    BY <1>2, <1>4
  <2>2. \/ Plain(union \ tags) = {}
        \/ ~(Cardinality(Plain(tags \cup union)) > MaxTagsPerRow)
    BY <1>4 DEF CapProblem
  <2>3. tags \cup union = union
    BY <1>1
  <2>4. IsFiniteSet(Plain(union)) /\ Cardinality(Plain(union)) \in Nat
    <3>1. IsFiniteSet(Tags) /\ Plain(union) \subseteq Tags
      BY <1>1, RulesAssumption DEF Plain
    <3> QED
      BY <3>1, FS_Subset, FS_CardinalityType
  <2>5. CASE Plain(union \ tags) = {}
    <3>1. Plain(union) = Plain(tags)
      BY <1>1, <2>5 DEF Plain
    <3> QED
      BY <1>1, <2>1, <3>1
  <2>6. CASE ~(Cardinality(Plain(tags \cup union)) > MaxTagsPerRow)
    <3> DEFINE n == Cardinality(Plain(union))
    <3>1. n \in Nat /\ MaxTagsPerRow \in Nat /\ ~(n > MaxTagsPerRow)
      BY <2>3, <2>4, <2>6, RulesAssumption
    <3> HIDE DEF n
    <3>2. n <= MaxTagsPerRow
      BY <3>1
    <3> QED
      BY <1>1, <2>1, <3>2 DEF n
  <2> QED
    BY <2>2, <2>5, <2>6
<1> QED
  BY <1>3, <1>4

LEMMA RuleFits ==
  ASSUME NEW base, NEW c, NEW plan, Landable(base, c, plan), NEW m \in 1 .. Len(plan.ins),
         NEW t, TableFits(base, c, plan, t), NEW d, d = RuleOne(t, base + m)
  PROVE  TableFits(base, c, plan, d)
<1> DEFINE i == base + m
<1>1. i \in DOMAIN t.rows /\ i \notin DOMAIN db.rows
  BY InsertedRow DEF TableFits, Landable
<1> DEFINE old == t.rows[i]
           of == Contents[old.content]
           date == old.date
           tags == TagsByRules(db.rules, of, date, old.tags)
           r == [old EXCEPT !.tags = tags]
<1>2. d = [t EXCEPT !.rows[i] = r]
  BY <1>1 DEF RuleOne
<1>3. RowFits(old) /\ old.succ = 0
  <2>1. NewFits(base, plan, t, m)
    BY DEF TableFits
  <2> QED
    BY <2>1 DEF NewFits
<1>4. DOMAIN t = TableFields
  BY DEF TableFits
<1> HIDE DEF old, of, date
<1>5. old.tags \subseteq tags /\ tags \subseteq Tags /\ Cardinality(Plain(tags)) <= MaxTagsPerRow
  <2>1. old.tags \subseteq Tags /\ Cardinality(Plain(old.tags)) <= MaxTagsPerRow
    BY <1>3 DEF RowFits
  <2>2. RulesFit
    BY DEF Landable
  <2> QED
    BY <2>1, <2>2, RulesKeep
<1> HIDE DEF tags
<1>6. /\ DOMAIN r = DOMAIN old /\ r.tags = tags
      /\ \A x \in RowFields \ {"tags"} : r[x] = old[x]
  BY <1>3 DEF RowFits, RowFields
<1> HIDE DEF r
<1>7. RowFits(r)
  BY <1>3, <1>5, <1>6 DEF RowFits, RowFields
<1>8. /\ r.ident = old.ident /\ r.occ = old.occ /\ r.by = old.by /\ r.succ = old.succ
      /\ r.why = old.why /\ old.tags \subseteq r.tags
  BY <1>5, <1>6 DEF RowFields
<1> HIDE DEF i
<1>9. /\ DOMAIN d = TableFields /\ DOMAIN d.rows = DOMAIN t.rows /\ d.alloc = t.alloc
      /\ d.rows[i] = r /\ \A j \in DOMAIN t.rows : j # i => d.rows[j] = t.rows[j]
  BY <1>1, <1>2, <1>4 DEF TableFields
<1>10. Gentle(base, plan, t, d)
  <2>1. ASSUME NEW j \in DOMAIN t.rows
        PROVE  /\ RowFits(d.rows[j]) /\ d.rows[j].by = t.rows[j].by
               /\ d.rows[j].succ = t.rows[j].succ /\ t.rows[j].tags \subseteq d.rows[j].tags
               /\ t.rows[j].why # "none" => d.rows[j].why # "none"
               /\ d.rows[j].ident = t.rows[j].ident /\ d.rows[j].occ = t.rows[j].occ
    <3>1. CASE j = i
      BY <3>1, <1>7, <1>8, <1>9 DEF old
    <3>2. CASE j # i
      BY <3>2, <1>9, RowOfTable
    <3> QED
      BY <3>1, <3>2
  <2>2. /\ \A j \in DOMAIN db.rows : j \in DOMAIN t.rows /\ j # i
        /\ \A k \in 1 .. Len(plan.ins) : base + k \in DOMAIN t.rows
    BY <1>1, InsertedRow DEF TableFits
  <2> QED
    BY <1>9, <2>1, <2>2 DEF Gentle, KeysStay
<1> QED
  BY <1>10, GentleFits

LEMMA UpdateFits ==
  ASSUME NEW base, NEW c, NEW plan, Landable(base, c, plan),
         NEW t, TableFits(base, c, plan, t), NEW u \in Rewrites(c),
         NEW d, d = UpdateOne(t, u), d.ok
  PROVE  /\ TableFits(base, c, plan, d)
         /\ \A k \in 1 .. Len(plan.ins) : d.rows[base + k] = t.rows[base + k]
<1> DEFINE i == u.id
<1>1. CASE i \notin DOMAIN t.rows
  BY <1>1 DEF UpdateOne
<1>2. CASE i \in DOMAIN t.rows
  <2>1. DOMAIN t = TableFields
    BY DEF TableFits
  <2>2. ~Taken(t, i, u.ident, u.occ)
    <3>1. Fail(t).ok = FALSE
      BY <2>1 DEF Fail, TableFields
    <3>2. Taken(t, i, u.ident, u.occ) => d = Fail(t)
      BY <1>2, Zenon DEF UpdateOne
    <3> QED
      BY <3>1, <3>2
  <2>3. /\ u.row.content \in Idents /\ u.row.date \in Int /\ u.row.ref \in Int
        /\ u.row.status \in Statuses /\ u.ident \in Idents /\ u.occ \in Nat /\ u.why \in Reasons
        /\ u.ident = u.row.content /\ i \in DOMAIN c.rows
        /\ \/ u.ident = c.rows[i].ident /\ u.occ = c.rows[i].occ
           \/ c.trusted /\ c.alloc[u.ident] <= u.occ
    BY DEF Rewrites, Pays
  <2>4. RowFits(t.rows[i]) /\ DOMAIN t.rows[i] = RowFields
    BY <1>2, RowOfTable DEF RowFits
  <2>5. i \in DOMAIN db.rows
    <3>1. i \in 1 .. base
      BY <2>3 DEF Landable
    <3> QED
      BY <1>2, <3>1, RowOfTable, InsertedRow
  <2> DEFINE r == d.rows[i]
  <2>6. /\ DOMAIN d = TableFields /\ DOMAIN d.rows = DOMAIN t.rows
        /\ \A j \in DOMAIN t.rows : j # i => d.rows[j] = t.rows[j]
        /\ d.alloc = Spend(t.alloc, u.ident, u.occ)
        /\ DOMAIN r = RowFields
        /\ r.content = u.row.content /\ r.date = u.row.date
        /\ r.ref = u.row.ref /\ r.status = u.row.status
        /\ r.ident = u.ident /\ r.occ = u.occ
        /\ r.why = (IF u.why = "none" THEN t.rows[i].why ELSE u.why)
        /\ r.state = t.rows[i].state /\ r.succ = t.rows[i].succ
        /\ r.tags = t.rows[i].tags /\ r.by = t.rows[i].by
    BY <1>2, <2>1, <2>2, <2>4, Updated
  <2>7. RowFits(r)
    BY <2>3, <2>4, <2>6 DEF RowFits
  <2> HIDE DEF i
  <2>8. \A k \in 1 .. Len(plan.ins) : base + k \in DOMAIN t.rows /\ base + k # i
    BY <2>5, InsertedRow DEF TableFits, Landable
  <2>9. \A k \in 1 .. Len(plan.ins) : d.rows[base + k] = t.rows[base + k]
    BY <2>6, <2>8
  <2>10. ASSUME NEW j \in DOMAIN db.rows PROVE OldFits(base, c, plan, d, j)
    <3>1. OldFits(base, c, plan, t, j) /\ j \in DOMAIN t.rows
      BY DEF TableFits
    <3>2. CASE j # i
      <4>1. d.rows[j] = t.rows[j]
        BY <2>6, <3>1, <3>2
      <4> QED
        BY <2>9, <3>1, <4>1 DEF OldFits
    <3>3. CASE j = i
      <4>1. /\ r.by = t.rows[j].by /\ r.succ = t.rows[j].succ /\ r.tags = t.rows[j].tags
            /\ t.rows[j].why # "none" => r.why # "none"
            /\ ~c.trusted => r.ident = c.rows[j].ident
        BY <2>3, <2>6, <3>3
      <4>2. d.rows[j] = r
        BY <3>3
      <4> HIDE DEF r
      <4> QED
        BY <2>7, <2>9, <3>1, <4>1, <4>2 DEF OldFits
    <3> QED
      BY <3>2, <3>3
  <2>11. ASSUME NEW k \in 1 .. Len(plan.ins) PROVE NewFits(base, plan, d, k)
    <3>1. NewFits(base, plan, t, k) /\ d.rows[base + k] = t.rows[base + k]
      BY <2>9 DEF TableFits
    <3> QED
      BY <3>1 DEF NewFits
  <2>12. ASSUME NEW j \in DOMAIN d.rows PROVE KeyFits(c, d, j)
    <3>1. CASE j # i
      <4>1. KeyFits(c, t, j) /\ d.rows[j] = t.rows[j]
        BY <2>6, <3>1 DEF TableFits
      <4> QED
        BY <4>1 DEF KeyFits
    <3>2. CASE j = i /\ u.ident = c.rows[i].ident /\ u.occ = c.rows[i].occ
      <4>1. <<c.rows[i].ident, c.rows[i].occ, i>> \in hist.spent
        BY <2>3 DEF Landable, SpentPairs
      <4> QED
        BY <2>6, <3>2, <4>1 DEF KeyFits
    <3>3. CASE j = i /\ c.alloc[u.ident] <= u.occ
      BY <2>6, <3>3 DEF KeyFits
    <3> QED
      BY <2>3, <3>1, <3>2, <3>3
  <2>13. KeysUnique(d.rows)
    <3>1. KeysUnique(t.rows)
      BY DEF TableFits
    <3>2. \A j \in DOMAIN t.rows \ {i} : ~(t.rows[j].ident = u.ident /\ t.rows[j].occ = u.occ)
      BY <2>2 DEF Taken, i
    <3> QED
      BY <2>6, <3>1, <3>2 DEF KeysUnique
  <2>14. /\ Marks(t.alloc) /\ Marks(d.alloc) /\ u.occ < d.alloc[u.ident]
         /\ \A y \in Idents : t.alloc[y] <= d.alloc[y]
    <3>1. Marks(t.alloc)
      BY DEF TableFits
    <3>2. u.ident \in Idents /\ u.occ \in Nat /\ d.alloc = Spend(t.alloc, u.ident, u.occ)
      BY <2>3, <2>6
    <3> QED
      BY <3>1, <3>2, Raise
  <2>15. ASSUME NEW j \in DOMAIN d.rows PROVE d.rows[j].occ < d.alloc[d.rows[j].ident]
    <3>1. CASE j = i
      BY <2>6, <2>14, <3>1
    <3>2. CASE j # i
      <4>1. d.rows[j] = t.rows[j] /\ j \in DOMAIN t.rows
        BY <2>6, <3>2
      <4>2. t.rows[j].ident \in Idents /\ t.rows[j].occ \in Nat
        BY <4>1, RowOfTable DEF RowFits
      <4>3. t.rows[j].occ < t.alloc[t.rows[j].ident]
        BY <4>1 DEF TableFits, BelowMarks
      <4>4. /\ t.alloc[t.rows[j].ident] \in Nat /\ d.alloc[t.rows[j].ident] \in Nat
            /\ t.alloc[t.rows[j].ident] <= d.alloc[t.rows[j].ident]
        BY <2>14, <4>2 DEF Marks
      <4>5. t.rows[j].occ < d.alloc[t.rows[j].ident]
        BY <4>2, <4>3, <4>4
      <4> QED
        BY <4>1, <4>5
    <3> QED
      BY <3>1, <3>2
  <2>16. DOMAIN d.rows = DOMAIN db.rows \cup (base + 1 .. base + Len(plan.ins))
    BY <2>6 DEF TableFits
  <2>17. BelowMarks(d)
    BY <2>15 DEF BelowMarks
  <2>18. TableFits(base, c, plan, d)
    BY <2>6, <2>10, <2>11, <2>12, <2>13, <2>14, <2>16, <2>17 DEF TableFits
  <2> QED
    BY <2>9, <2>18
<1> QED
  BY <1>1, <1>2

LEMMA OldStays ==
  ASSUME NEW base, NEW c, NEW plan, NEW t, NEW i, OldFits(base, c, plan, t, i),
         NEW d, d.rows[i] = t.rows[i],
         \A k \in 1 .. Len(plan.ins) : t.rows[base + k].tags \subseteq d.rows[base + k].tags
  PROVE  OldFits(base, c, plan, d, i)
<1> DEFINE r == t.rows[i]
           Follows(x, k) == /\ r.succ = base + k /\ Handed(c, plan, i, k)
                            /\ db.rows[i].tags \subseteq x.rows[base + k].tags
<1>1. /\ RowFits(r) /\ r.by >= hist.floor
      /\ db.rows[i].why # "none" => r.why # "none"
      /\ ~c.trusted /\ i \in DOMAIN c.rows /\ c.rows[i].ident = db.rows[i].ident
           => r.ident = db.rows[i].ident
      /\ \/ r.succ = db.rows[i].succ /\ r.tags = db.rows[i].tags
         \/ db.rows[i].succ = 0 /\ r.tags = {} /\ \E k \in 1 .. Len(plan.ins) : Follows(t, k)
  BY DEF OldFits
<1>2. \A k \in 1 .. Len(plan.ins) : Follows(t, k) => Follows(d, k)
  OBVIOUS
<1> HIDE DEF r
<1>3. \/ r.succ = db.rows[i].succ /\ r.tags = db.rows[i].tags
      \/ db.rows[i].succ = 0 /\ r.tags = {} /\ \E k \in 1 .. Len(plan.ins) : Follows(d, k)
  <2> HIDE DEF Follows
  <2> QED
    BY <1>1, <1>2
<1>4. d.rows[i] = r
  BY DEF r
<1> QED
  BY <1>1, <1>3, <1>4 DEF OldFits

LEMMA OldHanded ==
  ASSUME NEW base, NEW c, NEW plan, NEW t, NEW i, RowFits(t.rows[i]),
         t.rows[i].by >= hist.floor, db.rows[i].why # "none" => t.rows[i].why # "none",
         ~c.trusted /\ i \in DOMAIN c.rows /\ c.rows[i].ident = db.rows[i].ident
           => t.rows[i].ident = db.rows[i].ident,
         db.rows[i].succ = 0, t.rows[i].tags = {},
         NEW k \in 1 .. Len(plan.ins), t.rows[i].succ = base + k, Handed(c, plan, i, k),
         db.rows[i].tags \subseteq t.rows[base + k].tags
  PROVE  OldFits(base, c, plan, t, i)
<1>1. \E n \in 1 .. Len(plan.ins) :
        /\ t.rows[i].succ = base + n /\ Handed(c, plan, i, n)
        /\ db.rows[i].tags \subseteq t.rows[base + n].tags
  OBVIOUS
<1> QED
  BY <1>1 DEF OldFits

LEMMA SupersedeFits ==
  ASSUME NEW base, NEW c, NEW plan, Landable(base, c, plan), NEW m \in 1 .. Len(plan.upd),
         NEW t, TableFits(base, c, plan, t), BareAfter(base, plan, m - 1, t),
         NEW u, u = plan.upd[m], u.op = "supersede", u \in Successions(c),
         NEW id, id = base + u.by, NEW d, d = SupersedeOne(t, u, id), d.ok
  PROVE  TableFits(base, c, plan, d) /\ BareAfter(base, plan, m, d)
<1> DEFINE i == u.id
<1>0. /\ Len(plan.upd) \in Nat /\ m \in Nat /\ 1 <= m /\ Succeeds(c, plan.ins, u)
      /\ \A n \in 1 .. m - 1 : plan.upd[n].op = "supersede" => plan.upd[n].by # u.by
  <2>1. Len(plan.upd) \in Nat
    <3>1. plan.upd \in Seq(Rewrites(c) \cup Successions(c))
      BY DEF Landable, GoodPlan
    <3> QED
      BY <3>1
  <2>2. /\ \A n \in 1 .. Len(plan.upd) : plan.upd[n].op = "supersede"
                                         => Succeeds(c, plan.ins, plan.upd[n])
        /\ \A k, n \in 1 .. Len(plan.upd) :
             plan.upd[k].op = "supersede" /\ plan.upd[n].op = "supersede"
             /\ plan.upd[k].by = plan.upd[n].by => k = n
    BY DEF Landable, GoodPlan, Successors
  <2>3. \A n \in 1 .. m - 1 : n \in 1 .. Len(plan.upd) /\ n # m
    BY <2>1
  <2> QED
    BY <2>1, <2>2, <2>3
<1>1. /\ i \in DOMAIN c.rows /\ u.by \in 1 .. Len(plan.ins) /\ u.why \in Reasons
      /\ Handed(c, plan, i, u.by)
  BY <1>0 DEF Successions, Succeeds, Handed
<1>2. /\ i \in 1 .. base /\ id \in DOMAIN t.rows /\ id # i /\ id \notin DOMAIN db.rows
      /\ id \notin 1 .. base /\ id # 0 /\ id \in Nat /\ base \in Nat
  <2>1. /\ base \in Nat /\ DOMAIN c.rows \subseteq 1 .. base
        /\ DOMAIN db.rows \subseteq 1 .. base
    BY DEF Landable
  <2>2. i \in 1 .. base
    BY <1>1, <2>1
  <2>3. id \in Nat /\ id \in base + 1 .. base + Len(plan.ins) /\ id \notin 1 .. base
    BY <1>1, InsertedRow
  <2>4. id \in DOMAIN t.rows
    BY <2>3 DEF TableFits
  <2>5. id # 0
    BY <2>1, <2>3
  <2> HIDE DEF i
  <2> QED
    BY <2>1, <2>2, <2>3, <2>4, <2>5
<1>3. DOMAIN t = TableFields
  BY DEF TableFits
<1>4. CASE i \notin DOMAIN t.rows
  <2>1. d = t
    BY <1>4 DEF SupersedeOne
  <2>2. BareAfter(base, plan, m, t)
    <3>1. 1 .. m - 1 \subseteq 1 .. m
      BY <1>0
    <3> QED
      BY <3>1 DEF BareAfter
  <2> QED
    BY <2>1, <2>2
<1>5. CASE i \in DOMAIN t.rows
  <2>1. t.rows[i].state = "active" /\ t.rows[i].succ = 0
    <3>1. Fail(t).ok = FALSE
      BY <1>3 DEF Fail, TableFields
    <3>2. t.rows[i].state # "active" \/ t.rows[i].succ # 0 => d = Fail(t)
      BY <1>5, Zenon DEF SupersedeOne
    <3> QED
      BY <3>1, <3>2
  <2>2. RowFits(t.rows[i]) /\ RowFits(t.rows[id])
    BY <1>2, <1>5, RowOfTable
  <2>3. i \in DOMAIN db.rows
    BY <1>2, <1>5, RowOfTable, InsertedRow
  <2>4. OldFits(base, c, plan, t, i) /\ NewFits(base, plan, t, u.by)
    BY <1>1, <2>3 DEF TableFits
  <2>5. t.rows[id].tags = {}
    BY <1>0, <1>1 DEF BareAfter
  <2>23. Replaced(t, d, i, id, u.why)
    <3>1. DOMAIN t.rows[i] = RowFields /\ DOMAIN t.rows[id] = RowFields
      BY <2>2 DEF RowFits
    <3> QED
      BY <1>2, <1>3, <1>5, <2>1, <3>1, Superseded
  <2> DEFINE old == t.rows[i]
             new == t.rows[id]
             r == d.rows[i]
             s == d.rows[id]
  <2>6. /\ DOMAIN d = TableFields /\ DOMAIN d.rows = DOMAIN t.rows /\ d.alloc = t.alloc
        /\ \A j \in DOMAIN t.rows : j # i /\ j # id => d.rows[j] = t.rows[j]
        /\ DOMAIN r = RowFields /\ r.state = "superseded" /\ r.succ = id /\ r.tags = {}
        /\ r.why = (IF old.why = "none" THEN u.why ELSE old.why)
        /\ \A x \in {"content", "date", "ref", "status", "ident", "occ", "by"} : r[x] = old[x]
        /\ DOMAIN s = RowFields /\ s.tags = new.tags \cup old.tags
        /\ \A x \in RowFields \ {"tags"} : s[x] = new[x]
    BY <2>23 DEF Replaced
  <2>7. /\ db.rows[i].succ = 0 /\ old.tags = db.rows[i].tags
    <3>1. base \in Nat /\ \A k \in 1 .. Len(plan.ins) : base + k # 0
      BY InsertedRow DEF Landable
    <3> QED
      BY <2>1, <2>4, <3>1 DEF OldFits
  <2> HIDE DEF old, new
  <2>8. RowFits(old) /\ RowFits(new) /\ new.tags = {} /\ old.succ = 0
    BY <2>1, <2>2, <2>5 DEF old, new
  <2>9. /\ DOMAIN r = RowFields /\ r.state = "superseded" /\ r.succ = id /\ r.tags = {}
        /\ r.why = (IF old.why = "none" THEN u.why ELSE old.why)
        /\ \A x \in {"content", "date", "ref", "status", "ident", "occ", "by"} : r[x] = old[x]
    BY <2>6 DEF old
  <2>22. /\ DOMAIN d = TableFields /\ DOMAIN d.rows = DOMAIN t.rows /\ d.alloc = t.alloc
         /\ \A j \in DOMAIN t.rows : j # i /\ j # id => d.rows[j] = t.rows[j]
         /\ d.rows[i] = r /\ d.rows[id] = s
    BY <2>6
  <2> HIDE DEF r, s
  <2>10. /\ DOMAIN s = RowFields /\ s.tags = old.tags
         /\ \A x \in RowFields \ {"tags"} : s[x] = new[x]
    BY <2>6, <2>8
  <2>11. RowFits(r)
    <3>1. Plain({}) = {} /\ Cardinality(Plain({})) <= MaxTagsPerRow
      <4>1. Plain({}) = {}
        BY DEF Plain
      <4>2. 0 <= MaxTagsPerRow
        BY RulesAssumption
      <4> QED
        BY <4>1, <4>2, FS_EmptySet
    <3> QED
      BY <1>1, <1>2, <2>8, <2>9, <3>1 DEF RowFits
  <2>12. RowFits(s)
    <3>1. new.succ = 0
      BY <2>4 DEF NewFits, new
    <3> QED
      BY <2>8, <2>10, <3>1 DEF RowFits, RowFields
  <2>13. /\ r.ident = old.ident /\ r.occ = old.occ /\ r.by = old.by
         /\ old.why # "none" => r.why # "none"
    BY <2>9
  <2>14. /\ s.ident = new.ident /\ s.occ = new.occ /\ s.by = new.by /\ s.succ = new.succ
         /\ s.why = new.why
    BY <2>10 DEF RowFields
  <2> HIDE DEF i
  <2>15. ASSUME NEW k \in 1 .. Len(plan.ins), k # u.by
         PROVE  base + k \in DOMAIN t.rows /\ d.rows[base + k] = t.rows[base + k]
    <3>1. base + k \in DOMAIN t.rows /\ base + k # i
      BY <1>2, InsertedRow DEF TableFits
    <3>2. base + k # id
      BY <1>1, <1>2, <2>15, InsertedRow
    <3> QED
      BY <2>22, <3>1, <3>2
  <2>16. \A k \in 1 .. Len(plan.ins) : t.rows[base + k].tags \subseteq d.rows[base + k].tags
    BY <2>5, <2>22, <2>15
  <2>17. KeysStay(t, d)
    <3>1. ASSUME NEW j \in DOMAIN t.rows
          PROVE  d.rows[j].ident = t.rows[j].ident /\ d.rows[j].occ = t.rows[j].occ
      <4>1. CASE j = i
        BY <4>1, <2>22, <2>13 DEF old
      <4>2. CASE j = id
        BY <4>2, <2>22, <2>14 DEF new
      <4> QED
        BY <4>1, <4>2, <2>22
    <3> QED
      BY <2>22, <3>1 DEF KeysStay
  <2>18. ASSUME NEW j \in DOMAIN db.rows PROVE OldFits(base, c, plan, d, j)
    <3>1. OldFits(base, c, plan, t, j) /\ j \in DOMAIN t.rows
      BY DEF TableFits
    <3>2. CASE j # i
      <4>1. d.rows[j] = t.rows[j]
        BY <1>2, <2>22, <3>1, <3>2
      <4> QED
        BY <2>16, <3>1, <4>1, OldStays
    <3>3. CASE j = i
      <4>1. /\ r.by = t.rows[j].by /\ r.ident = t.rows[j].ident
            /\ t.rows[j].why # "none" => r.why # "none"
        BY <2>13, <3>3 DEF old
      <4>2. d.rows[j] = r
        BY <2>22, <3>3
      <4>3. db.rows[j].succ = 0 /\ r.tags = {}
        BY <2>7, <2>9, <3>3
      <4>4. /\ u.by \in 1 .. Len(plan.ins) /\ r.succ = base + u.by /\ Handed(c, plan, j, u.by)
            /\ db.rows[j].tags \subseteq d.rows[base + u.by].tags
        <5>1. u.by \in 1 .. Len(plan.ins) /\ r.succ = base + u.by /\ Handed(c, plan, j, u.by)
          BY <1>1, <2>9, <3>3
        <5>2. d.rows[id] = s /\ s.tags = old.tags /\ old.tags = db.rows[j].tags
          BY <2>22, <2>7, <2>10, <3>3
        <5> QED
          BY <5>1, <5>2
      <4>5. /\ RowFits(d.rows[j]) /\ d.rows[j].by >= hist.floor
            /\ db.rows[j].why # "none" => d.rows[j].why # "none"
            /\ ~c.trusted /\ j \in DOMAIN c.rows /\ c.rows[j].ident = db.rows[j].ident
                 => d.rows[j].ident = db.rows[j].ident
        BY <2>11, <3>1, <4>1, <4>2 DEF OldFits
      <4> QED
        BY <4>2, <4>3, <4>4, <4>5, OldHanded
    <3> QED
      BY <3>2, <3>3
  <2>19. ASSUME NEW k \in 1 .. Len(plan.ins) PROVE NewFits(base, plan, d, k)
    <3>1. NewFits(base, plan, t, k)
      BY DEF TableFits
    <3>2. CASE k # u.by
      <4>1. d.rows[base + k] = t.rows[base + k]
        BY <2>15, <3>2
      <4> QED
        BY <3>1, <4>1 DEF NewFits
    <3>3. CASE k = u.by
      <4>1. d.rows[base + k] = s /\ t.rows[base + k] = new
        BY <2>22, <3>3 DEF new
      <4> QED
        BY <2>12, <2>14, <3>1, <4>1 DEF NewFits
    <3> QED
      BY <3>2, <3>3
  <2>20. TableFits(base, c, plan, d)
    <3>1. /\ DOMAIN d = TableFields
          /\ DOMAIN d.rows = DOMAIN db.rows \cup (base + 1 .. base + Len(plan.ins))
          /\ \A j \in DOMAIN d.rows : KeyFits(c, d, j)
          /\ KeysUnique(d.rows) /\ Marks(d.alloc) /\ BelowMarks(d)
      BY <2>17, KeysStayFit
    <3> QED
      BY <2>18, <2>19, <3>1 DEF TableFits
  <2>21. BareAfter(base, plan, m, d)
    <3> SUFFICES ASSUME NEW k \in 1 .. Len(plan.ins),
                        \A n \in 1 .. m : plan.upd[n].op = "supersede" => plan.upd[n].by # k
                 PROVE  d.rows[base + k].tags = {}
      BY DEF BareAfter
    <3>1. m \in 1 .. m /\ 1 .. m - 1 \subseteq 1 .. m
      BY <1>0
    <3>2. k # u.by
      BY <3>1
    <3>3. t.rows[base + k].tags = {}
      BY <3>1 DEF BareAfter
    <3> QED
      BY <2>15, <3>2, <3>3
  <2> QED
    BY <2>20, <2>21
<1> QED
  BY <1>4, <1>5

LEMMA ListedIs ==
  ASSUME NEW s, Listed(s)
  PROVE  Len(s) \in Nat /\ DOMAIN s = 1 .. Len(s)
<1>1. PICK S : s \in Seq(S)
  BY DEF Listed
<1> QED
  BY <1>1

LEMMA ChangesFit ==
  ASSUME NEW base, NEW c, NEW plan, Landable(base, c, plan),
         NEW t1, GoodChange(base, c, plan, 0, t1),
         NEW t2, t2 = ChangeFold!Folded(base, c, plan, t1, plan.upd)
  PROVE  GoodAfter(base, c, plan, 0, t2)
<1> DEFINE n == Len(plan.upd)
<1>1. n \in Nat /\ DOMAIN plan.upd = 1 .. n
      /\ \A m \in 1 .. n : plan.upd[m] \in Rewrites(c) \cup Successions(c)
  <2>1. plan.upd \in Seq(Rewrites(c) \cup Successions(c))
    BY DEF Landable, GoodPlan
  <2> QED
    BY <2>1
<1>2. ASSUME NEW m \in 1 .. n, NEW t, GoodChange(base, c, plan, m - 1, t)
      PROVE  GoodChange(base, c, plan, m, OpChange(base, c, plan, t, plan.upd[m]))
  <2> DEFINE u == plan.upd[m]
             d == OpChange(base, c, plan, t, u)
  <2> SUFFICES ASSUME d.ok PROVE TableFits(base, c, plan, d) /\ BareAfter(base, plan, m, d)
    BY DEF GoodChange
  <2>1. t.ok
    BY DEF OpChange
  <2>2. TableFits(base, c, plan, t) /\ BareAfter(base, plan, m - 1, t)
    BY <1>2, <2>1 DEF GoodChange
  <2>3. CASE u.op = "supersede"
    <3>1. u \in Successions(c)
      BY <1>1, <2>3 DEF Rewrites
    <3>2. d = SupersedeOne(t, u, base + u.by)
      BY <2>1, <2>3 DEF OpChange
    <3> HIDE DEF u, d
    <3>3. m \in 1 .. Len(plan.upd) /\ u = plan.upd[m]
      BY DEF u
    <3> QED
      BY <2>2, <2>3, <3>1, <3>2, <3>3, SupersedeFits
  <2>4. CASE u.op # "supersede"
    <3>1. u \in Rewrites(c)
      BY <1>1, <2>4 DEF Successions
    <3>2. d = UpdateOne(t, u)
      BY <2>1, <2>4 DEF OpChange
    <3> HIDE DEF d
    <3>3. /\ TableFits(base, c, plan, d)
          /\ \A k \in 1 .. Len(plan.ins) : d.rows[base + k] = t.rows[base + k]
      BY <2>2, <3>1, <3>2, UpdateFits
    <3>4. BareAfter(base, plan, m, d)
      <4>1. 1 .. m - 1 \subseteq 1 .. m
        BY <1>1
      <4> QED
        BY <2>2, <3>3, <4>1 DEF BareAfter
    <3> QED
      BY <3>3, <3>4
  <2> QED
    BY <2>3, <2>4
<1> HIDE DEF n
<1>3. GoodChange(base, c, plan, n, ChangeFold!Folded(base, c, plan, t1, plan.upd))
  BY <1>1, <1>2, ChangeFold!FoldKeeps
<1> QED
  BY <1>3 DEF GoodChange, GoodAfter

\* A landed plan leaves a table that fits.
LEMMA LandingFits ==
  ASSUME NEW base, NEW c, NEW plan, Landable(base, c, plan), MarksFit, LivesFit,
         NEW life \in Nat, hist.floor <= life,
         NEW t, t = Landed(plan, base, life), t.ok
  PROVE  TableFits(base, c, plan, t)
<1> DEFINE ids == RowIds(plan, base)
           t0 == Untouched
           t1 == InsertFold!Folded(plan, base, life, t0, ids)
           t2 == ChangeFold!Folded(base, c, plan, t1, plan.upd)
           t3 == CancelFold!Folded(base, c, plan, t2, plan.tomb)
           t4 == FlagFold!Folded(base, c, plan, t3, plan.flags)
           t5 == RuleFold!Folded(base, c, plan, t4, ids)
<1>0. t = t5
  <2>1. t = LandedBy(c, plan, base, life)
    BY LandedIs
  <2> QED
    BY <2>1 DEF LandedBy
<1>7. /\ ids = [n \in DOMAIN plan.ins |-> base + n]
      /\ t0 = [ok |-> TRUE, rows |-> db.rows, alloc |-> db.alloc]
  BY DEF RowIds, Untouched
<1>2. DOMAIN ids = 1 .. Len(plan.ins) /\ Len(plan.ins) \in Nat
      /\ \A m \in 1 .. Len(plan.ins) : ids[m] = base + m
  BY <1>7 DEF Landable, GoodPlan
<1> HIDE DEF ids, t0
<1>1. GoodChange(base, c, plan, 0, t1)
  <2>1. InsertedUpTo(plan, base, life, Len(plan.ins), t1)
    BY <1>7, InsertsStand DEF Landable
  <2> HIDE DEF t1
  <2>2. t1.ok => TableFits(base, c, plan, t1) /\ BareAfter(base, plan, 0, t1)
    BY <2>1, InsertsFit DEF Landable
  <2> QED
    BY <2>2 DEF GoodChange
<1> HIDE DEF t1
<1>3. GoodAfter(base, c, plan, 0, t2)
  BY <1>1, ChangesFit
<1> HIDE DEF t2
<1>4. GoodAfter(base, c, plan, 0, t3)
  <2> DEFINE n == Len(plan.tomb)
  <2>1. n \in Nat /\ DOMAIN plan.tomb = 1 .. n
    BY ListedIs DEF Landable, GoodPlan
  <2>2. ASSUME NEW m \in 1 .. n, NEW s, GoodAfter(base, c, plan, m - 1, s)
        PROVE  GoodAfter(base, c, plan, m, OpCancel(base, c, plan, s, plan.tomb[m]))
    <3>1. s.ok => TableFits(base, c, plan, CancelOne(s, plan.tomb[m]))
      BY <2>2, CancelFits DEF GoodAfter
    <3> QED
      BY <3>1 DEF GoodAfter, OpCancel
  <2> HIDE DEF n
  <2>3. GoodAfter(base, c, plan, n, CancelFold!Folded(base, c, plan, t2, plan.tomb))
    BY <1>3, <2>1, <2>2, CancelFold!FoldKeeps
  <2> QED
    BY <2>3 DEF GoodAfter
<1> HIDE DEF t3
<1>5. GoodAfter(base, c, plan, 0, t4)
  <2> DEFINE n == Len(plan.flags)
  <2>1. n \in Nat /\ DOMAIN plan.flags = 1 .. n /\ \A m \in 1 .. n : plan.flags[m].why \in Raised
    BY ListedIs DEF Landable, GoodPlan, Disclosed
  <2>2. ASSUME NEW m \in 1 .. n, NEW s, GoodAfter(base, c, plan, m - 1, s)
        PROVE  GoodAfter(base, c, plan, m, OpFlag(base, c, plan, s, plan.flags[m]))
    <3>1. s.ok => TableFits(base, c, plan, FlagOne(s, plan.flags[m]))
      BY <2>1, <2>2, FlagFits DEF GoodAfter
    <3> QED
      BY <3>1 DEF GoodAfter, OpFlag
  <2> HIDE DEF n
  <2>3. GoodAfter(base, c, plan, n, FlagFold!Folded(base, c, plan, t3, plan.flags))
    BY <1>4, <2>1, <2>2, FlagFold!FoldKeeps
  <2> QED
    BY <2>3 DEF GoodAfter
<1> HIDE DEF t4
<1>6. GoodAfter(base, c, plan, 0, t5)
  <2> DEFINE n == Len(plan.ins)
  <2>1. n \in Nat /\ DOMAIN ids = 1 .. n /\ \A m \in 1 .. n : ids[m] = base + m
    BY <1>2
  <2>2. ASSUME NEW m \in 1 .. n, NEW s, GoodAfter(base, c, plan, m - 1, s)
        PROVE  GoodAfter(base, c, plan, m, OpRule(base, c, plan, s, ids[m]))
    <3>1. s.ok => TableFits(base, c, plan, RuleOne(s, base + m))
      BY <2>2, RuleFits DEF GoodAfter
    <3>2. ids[m] = base + m
      BY <2>1
    <3> QED
      BY <3>1, <3>2 DEF GoodAfter, OpRule
  <2> HIDE DEF n
  <2>3. GoodAfter(base, c, plan, n, RuleFold!Folded(base, c, plan, t4, ids))
    BY <1>5, <2>1, <2>2, RuleFold!FoldKeeps
  <2> QED
    BY <2>3 DEF GoodAfter
<1> QED
  BY <1>0, <1>6 DEF GoodAfter

-----------------------------------------------------------------------------
(* What a step leaves of the rows and of the runs.                         *)

\* The run goes on with what it was told; only one at a reading or at its landing
\* has anything more to keep.
RunKeeps(q) ==
  /\ run'[q].page = run[q].page /\ run'[q].from = run[q].from /\ run'[q].end = run[q].end
  /\ run'[q].life = run[q].life /\ run'[q].started = run[q].started
  /\ run'[q].pc \in {"measure", "apply", "cover"} =>
       /\ run'[q].pc = run[q].pc /\ run'[q].view = run[q].view /\ run'[q].alloc = run[q].alloc

Held(q) == run'[q] = Idle \/ RunKeeps(q)

\* The numbers only grow, and whatever an account that lives on had spent and
\* proven is on record still.
Grows ==
  /\ issued'.life \in Nat /\ issued'.row \in Nat /\ issued'.tick \in Nat
  /\ issued.life <= issued'.life /\ issued.row <= issued'.row /\ issued.tick <= issued'.tick
LivesOn ==
  \A n \in 0 .. issued.life :
    db'.acct.live /\ db'.acct.life = n =>
      /\ db.acct.live /\ db.acct.life = n
      /\ hist.spent \subseteq hist'.spent /\ hist.proven \subseteq hist'.proven

LEMMA HeldFits ==
  ASSUME RowsInv, Typed, Grows, LivesOn, NEW q \in Procs, Held(q)
  PROVE  RunFits(run[q])'
<1>1. /\ run[q].page \in Seq(Pays) /\ run[q].from \in Int /\ run[q].end \in Int
      /\ run[q].life \in 0 .. issued.life /\ run[q].started <= issued.tick
      /\ run[q].started \in Nat
      /\ issued.life \in Nat /\ issued.row \in Nat /\ issued.tick \in Nat
      /\ run[q].pc \in {"measure", "apply"} => ViewFits(run[q])
      /\ run[q].pc = "apply" => run[q].alloc \in [Idents -> Nat]
      /\ run[q].pc = "cover" /\ Current(run[q]) => ProvedDays(run[q]) \subseteq hist.proven
  BY DEF RowsInv, RunsFit, RunFits, RowsFit, LivesFit, Typed, RunTyped, IssuedTyped
<1>2. CASE run'[q] = Idle
  <2>1. Idle.page = <<>> /\ Idle.from = 0 /\ Idle.end = 0 /\ Idle.life = 0 /\ Idle.started = 0
        /\ Idle.pc = "idle"
    BY DEF Idle
  <2>2. <<>> \in Seq(Pays)
    OBVIOUS
  <2> QED
    BY <1>2, <2>1, <2>2 DEF RunFits, Grows
<1>3. CASE RunKeeps(q)
  <2>1. /\ run'[q].page = run[q].page /\ run'[q].from = run[q].from /\ run'[q].end = run[q].end
        /\ run'[q].life = run[q].life /\ run'[q].started = run[q].started
        /\ run'[q].pc \in {"measure", "apply", "cover"} =>
             /\ run'[q].pc = run[q].pc /\ run'[q].view = run[q].view
             /\ run'[q].alloc = run[q].alloc
    BY <1>3 DEF RunKeeps
  <2>2. run'[q].life \in 0 .. issued'.life /\ run'[q].started <= issued'.tick
    BY <1>1, <2>1 DEF Grows
  <2>3. Current(run[q])' => /\ Current(run[q]) /\ hist.spent \subseteq hist'.spent
                            /\ hist.proven \subseteq hist'.proven
    <3>1. (db'.acct.live /\ db'.acct.life = run[q].life) =>
            /\ db.acct.live /\ db.acct.life = run[q].life
            /\ hist.spent \subseteq hist'.spent /\ hist.proven \subseteq hist'.proven
      BY <1>1 DEF LivesOn
    <3> QED
      BY <2>1, <3>1 DEF Current
  <2>4. run'[q].pc \in {"measure", "apply"} => ViewFits(run[q])'
    <3> SUFFICES ASSUME run'[q].pc \in {"measure", "apply"} PROVE ViewFits(run[q])'
      OBVIOUS
    <3>1. ViewFits(run[q]) /\ run'[q].view = run[q].view
      BY <1>1, <2>1
    <3>2. DOMAIN run[q].view.rows \subseteq 1 .. issued'.row
      BY <1>1, <3>1 DEF ViewFits, Grows
    <3>3. \A i \in DOMAIN run[q].view.rows : RowFits(run[q].view.rows[i])'
      BY <3>1 DEF ViewFits, RowFits
    <3> QED
      BY <2>3, <3>1, <3>2, <3>3 DEF ViewFits, SpentPairs
  <2>5. run'[q].pc = "cover" /\ Current(run[q])' => ProvedDays(run[q])' \subseteq hist'.proven
    <3>1. ProvedDays(run[q])' = ProvedDays(run[q])
      BY <2>1 DEF ProvedDays, ProvedFrom
    <3> QED
      BY <1>1, <2>1, <2>3, <3>1
  <2> QED
    BY <1>1, <2>1, <2>2, <2>4, <2>5 DEF RunFits
<1> QED
  BY <1>2, <1>3 DEF Held

\* Nothing that RowsInv speaks of changes, the clock and the runs apart.
Still ==
  /\ db'.rows = db.rows /\ db'.alloc = db.alloc /\ db'.rules = db.rules /\ db'.cover = db.cover
  /\ db'.bals = db.bals /\ db'.acct.live = db.acct.live /\ db'.acct.life = db.acct.life
  /\ hist'.spent = hist.spent /\ hist'.proven = hist.proven /\ hist'.floor = hist.floor
  /\ issued'.life = issued.life /\ issued'.row = issued.row
  /\ issued'.tick \in Nat /\ issued.tick <= issued'.tick

LEMMA StillGrows ==
  ASSUME RowsInv, Typed, Still
  PROVE  Grows /\ LivesOn
<1>1. issued.life \in Nat /\ issued.row \in Nat
  BY DEF RowsInv, RowsFit, LivesFit
<1> QED
  BY <1>1 DEF Still, Grows, LivesOn

\* A step after which the invariant holds, and that lands nothing: whatever stays
\* on record keeps its finding, its identity and its successor.
NoLanding == \A q \in Procs : ~Landing(q)
Unmoved ==
  \A i \in DOMAIN db.rows \cap DOMAIN db'.rows :
    /\ db'.rows[i].why = db.rows[i].why /\ db'.rows[i].ident = db.rows[i].ident
    /\ db'.rows[i].succ = db.rows[i].succ
Calm == RowsInv' /\ NoLanding /\ Unmoved

LEMMA StillKeeps ==
  ASSUME RowsInv, Still, BankFits', \A q \in Procs : RunFits(run[q])'
  PROVE  RowsInv' /\ Unmoved
<1>1. RulesFit' /\ RowsFit'
  BY DEF RowsInv, Still, RulesFit, RowsFit, RowFits
<1>2. MarksFit'
  BY DEF RowsInv, Still, MarksFit, KeysUnique, SpentPairs
<1>3. LivesFit'
  BY DEF RowsInv, Still, LivesFit, LandedSinceErasure
<1>4. CoverFits' /\ BalancesOfOneAnswer'
  BY DEF RowsInv, Still, CoverFits, CoverageProved, BalancesOfOneAnswer
<1>5. RunsFit'
  BY DEF RunsFit
<1>6. Unmoved
  BY DEF Unmoved, Still
<1> QED
  BY <1>1, <1>2, <1>3, <1>4, <1>5, <1>6 DEF RowsInv

LEMMA HeldLandsNot ==
  ASSUME NEW q, Held(q)
  PROVE  ~Landing(q)
<1>1. Idle.pc = "idle"
  BY DEF Idle
<1> QED
  BY <1>1 DEF Held, RunKeeps, Landing

LEMMA AllHeld ==
  ASSUME RowsInv, Typed, Still, BankFits', \A q \in Procs : Held(q)
  PROVE  Calm
<1>1. \A q \in Procs : RunFits(run[q])' /\ ~Landing(q)
  BY StillGrows, HeldFits, HeldLandsNot
<1> QED
  BY <1>1, StillKeeps DEF Calm, NoLanding

LEMMA Others ==
  ASSUME NEW p \in Procs, OthersStay(p), NEW q \in Procs \ {p}
  PROVE  Held(q)
BY DEF OthersStay, Held, RunKeeps

\* A step of one run.
LEMMA OneSteps ==
  ASSUME RowsInv, Typed, Still, BankFits', NEW p \in Procs, OthersStay(p),
         RunFits(run[p])', ~Landing(p)
  PROVE  Calm
<1>1. ASSUME NEW q \in Procs PROVE RunFits(run[q])' /\ ~Landing(q)
  <2>1. CASE q # p
    BY <2>1, Others, StillGrows, HeldFits, HeldLandsNot
  <2> QED
    BY <2>1
<1> QED
  BY <1>1, StillKeeps DEF Calm, NoLanding

LEMMA OneHeld ==
  ASSUME RowsInv, Typed, Still, BankFits', NEW p \in Procs, OthersStay(p), Held(p)
  PROVE  Calm
BY StillGrows, HeldFits, HeldLandsNot, OneSteps

-----------------------------------------------------------------------------
(* The steps that touch neither rows nor coverage nor balances.            *)

RowsStay(d) ==
  /\ d.rows = db.rows /\ d.alloc = db.alloc /\ d.rules = db.rules /\ d.cover = db.cover
  /\ d.bals = db.bals /\ d.acct.live = db.acct.live /\ d.acct.life = db.acct.life

LEMMA ClockKept == ASSUME RowsInv, UNCHANGED <<today, bank>> PROVE BankFits'
BY DEF RowsInv, BankFits

LEMMA Rests ==
  ASSUME RowsInv, Typed, RowsStay(db'), issued' = issued,
         hist'.spent = hist.spent, hist'.proven = hist.proven, hist'.floor = hist.floor
  PROVE  Still
<1>1. issued.tick \in Nat
  BY DEF Typed, IssuedTyped
<1> QED
  BY <1>1 DEF Still, RowsStay

LEMMA RunRests ==
  ASSUME RowsInv, Typed, NEW p \in Procs, OthersStay(p), Held(p), RowsStay(db'),
         UNCHANGED <<today, bank, issued>>,
         hist'.spent = hist.spent, hist'.proven = hist.proven, hist'.floor = hist.floor
  PROVE  Calm
BY Rests, OneHeld, ClockKept

\* A statement on the claim, the sync or the health record.
LEMMA OtherFields ==
  ASSUME Typed, NEW d, NEW s, NEW h, NEW m, d = [db EXCEPT !.sync = s, !.health = h, !.claim = m]
  PROVE  RowsStay(d)
BY DEF Typed, DbTyped, RowsStay

LEMMA SessionField ==
  ASSUME Typed, NEW d, NEW n, d = [db EXCEPT !.acct.session = n]
  PROVE  RowsStay(d)
BY DEF Typed, DbTyped, AcctTyped, RowsStay

LEMMA DbItself == db' = db => RowsStay(db')
BY DEF RowsStay

LEMMA FencedRests ==
  ASSUME NEW p, NEW d, Fenced(p, d), RowsStay(d)
  PROVE  RowsStay(db')
BY DEF Fenced, RowsStay

Elsewhere(pc) == pc \notin {"measure", "apply", "cover"}

LEMMA GotoHeld ==
  ASSUME Typed, NEW p \in Procs, NEW pc, Goto(p, pc), Elsewhere(pc)
  PROVE  OthersStay(p) /\ Held(p)
BY DEF Typed, RunTyped, Runs, Goto, OthersStay, Held, RunKeeps, Elsewhere

LEMMA ReplyHeld ==
  ASSUME Typed, NEW p \in Procs, NEW out, NEW pc, Reply(p, out, pc), Elsewhere(pc)
  PROVE  OthersStay(p) /\ Held(p)
BY DEF Typed, RunTyped, Runs, Reply, OthersStay, Held, RunKeeps, Elsewhere

LEMMA StopHeld ==
  ASSUME Typed, NEW p \in Procs, run' = [run EXCEPT ![p] = Idle]
  PROVE  OthersStay(p) /\ Held(p)
BY DEF Typed, OthersStay, Held

LEMMA AfterElsewhere == ASSUME NEW p PROVE Elsewhere(AfterFetch(p)) /\ Elsewhere(AfterError(p))
BY DEF AfterFetch, AfterError, Elsewhere

LEMMA AdmitCalm ==
  ASSUME RowsInv, Typed, NEW p \in Procs, NEW kind, NEW automatic, Admit(p, kind, automatic)
  PROVE  Calm
<1>1. OthersStay(p) /\ Held(p)
  BY DEF Admit, Typed, RunTyped, Runs, OthersStay, Held, RunKeeps
<1>2. RowsStay(db') /\ UNCHANGED <<today, bank, issued, hist>>
  BY DEF Admit, RowsStay
<1> QED
  BY <1>1, <1>2, RunRests

LEMMA ClaimCalm ==
  ASSUME RowsInv, Typed, NEW p \in Procs, ReadClaim(p) \/ WriteClaim(p) \/ Preempt(p)
  PROVE  Calm
<1>1. OthersStay(p) /\ Held(p)
  <2>1. Elsewhere("claiming") /\ Elsewhere("claimed") /\ Elsewhere("window")
    BY DEF Elsewhere
  <2>2. run' = [run EXCEPT ![p] = Idle] \/ \E pc : Goto(p, pc) /\ Elsewhere(pc)
    BY <2>1 DEF ReadClaim, WriteClaim, Preempt
  <2> QED
    BY <2>2, GotoHeld, StopHeld
<1>2. RowsStay(db') /\ UNCHANGED <<today, bank, issued, hist>>
  BY DEF ReadClaim, WriteClaim, Preempt, RowsStay, Typed, DbTyped
<1> QED
  BY <1>1, <1>2, RunRests

LEMMA StampCalm ==
  ASSUME RowsInv, Typed, NEW p \in Procs, Stamp(p)
  PROVE  Calm
<1>1. OthersStay(p) /\ Held(p)
  <2> DEFINE pc == IF run[p].kind = "balances" THEN "figures" ELSE "window"
             standing == [db.sync EXCEPT !.wait = FALSE, !.recent = FALSE]
  <2>1. run' = [run EXCEPT ![p].standing = standing, ![p].pc = pc]
    BY DEF Stamp
  <2>2. Elsewhere(pc)
    BY DEF Elsewhere
  <2> HIDE DEF pc, standing
  <2> QED
    BY <2>1, <2>2 DEF Typed, RunTyped, Runs, OthersStay, Held, RunKeeps, Elsewhere
<1>2. RowsStay(db')
  <2> DEFINE row == db.sync.row \/ run[p].kind # "balances"
             d == [db EXCEPT !.sync.row = row, !.sync.recent = TRUE]
  <2>1. Fenced(p, d)
    BY DEF Stamp
  <2> HIDE DEF row
  <2>2. RowsStay(d)
    BY DEF Typed, DbTyped, RowsStay
  <2> QED
    BY <2>1, <2>2, FencedRests
<1>3. UNCHANGED <<today, bank, issued, hist>>
  BY DEF Stamp
<1> QED
  BY <1>1, <1>2, <1>3, RunRests

LEMMA IncompleteCalm ==
  ASSUME RowsInv, Typed, NEW p \in Procs, Incomplete(p)
  PROVE  Calm
<1>1. OthersStay(p) /\ Held(p)
  <2> DEFINE pc == IF run[p].out = "capped" THEN AfterFetch(p) ELSE AfterError(p)
  <2>1. Goto(p, pc) /\ Elsewhere(pc)
    BY AfterElsewhere DEF Incomplete
  <2> HIDE DEF pc
  <2> QED
    BY <2>1, GotoHeld
<1>2. RowsStay(db')
  <2> DEFINE s == [row |-> TRUE, comp |-> "partial", wait |-> FALSE,
                   session |-> db.sync.session, recent |-> TRUE]
             d == [db EXCEPT !.sync = s]
  <2>1. Fenced(p, d)
    BY DEF Incomplete
  <2> HIDE DEF s
  <2>2. RowsStay(d)
    BY DEF Typed, DbTyped, RowsStay
  <2> QED
    BY <2>1, <2>2, FencedRests
<1>3. UNCHANGED <<today, bank, issued, hist>>
  BY DEF Incomplete
<1> QED
  BY <1>1, <1>2, <1>3, RunRests

LEMMA NoteFailureCalm ==
  ASSUME RowsInv, Typed, NEW p \in Procs, NoteFailure(p)
  PROVE  Calm
<1>1. OthersStay(p) /\ Held(p)
  <2> DEFINE pc == IF run[p].kind = "balances" THEN "release" ELSE "health"
  <2>1. Goto(p, pc) /\ Elsewhere(pc)
    BY DEF NoteFailure, Elsewhere
  <2> HIDE DEF pc
  <2> QED
    BY <2>1, GotoHeld
<1>2. RowsStay(db')
  <2> DEFINE row == db.sync.row \/ run[p].kind # "balances"
             wait == db.sync.wait \/ run[p].out = "limited"
             d == [db EXCEPT !.sync.row = row, !.sync.wait = wait]
  <2>1. Fenced(p, d)
    BY DEF NoteFailure
  <2> HIDE DEF row, wait
  <2>2. RowsStay(d)
    BY DEF Typed, DbTyped, RowsStay
  <2> QED
    BY <2>1, <2>2, FencedRests
<1>3. UNCHANGED <<today, bank, issued, hist>>
  BY DEF NoteFailure
<1> QED
  BY <1>1, <1>2, <1>3, RunRests

LEMMA FinishCalm ==
  ASSUME RowsInv, Typed, NEW p \in Procs, Finish(p)
  PROVE  Calm
<1>1. OthersStay(p) /\ Held(p)
  <2>1. Goto(p, AfterFetch(p)) /\ Elsewhere(AfterFetch(p))
    BY AfterElsewhere DEF Finish
  <2> QED
    BY <2>1, GotoHeld
<1>2. RowsStay(db')
  <2> DEFINE s == [row |-> TRUE, comp |-> "complete", wait |-> FALSE,
                   session |-> run[p].session, recent |-> TRUE]
             d == [db EXCEPT !.sync = s]
  <2>1. Fenced(p, d)
    BY DEF Finish
  <2> HIDE DEF s
  <2>2. RowsStay(d)
    BY DEF Typed, DbTyped, RowsStay
  <2> QED
    BY <2>1, <2>2, FencedRests
<1>3. UNCHANGED <<today, bank, issued, hist>>
  BY DEF Finish
<1> QED
  BY <1>1, <1>2, <1>3, RunRests

LEMMA RestoreCalm ==
  ASSUME RowsInv, Typed, NEW p \in Procs, Restore(p)
  PROVE  Calm
<1>1. OthersStay(p) /\ Held(p)
  <2>1. Goto(p, "health") /\ Elsewhere("health")
    BY DEF Restore, Elsewhere
  <2> QED
    BY <2>1, GotoHeld
<1>2. RowsStay(db')
  <2> DEFINE comp == run[p].standing.comp
             session == run[p].standing.session
             d == [db EXCEPT !.sync.comp = comp, !.sync.session = session]
  <2>1. Fenced(p, d) \/ db' = db
    BY DEF Restore
  <2> HIDE DEF comp, session
  <2>2. RowsStay(d)
    BY DEF Typed, DbTyped, RowsStay
  <2> QED
    BY <2>1, <2>2, FencedRests, DbItself
<1>3. UNCHANGED <<today, bank, issued, hist>>
  BY DEF Restore
<1> QED
  BY <1>1, <1>2, <1>3, RunRests

LEMMA RecordHealthCalm ==
  ASSUME RowsInv, Typed, NEW p \in Procs, RecordHealth(p)
  PROVE  Calm
<1>1. OthersStay(p) /\ Held(p)
  <2> DEFINE pc == IF run[p].out = "refused" THEN "check" ELSE "release"
  <2>1. Goto(p, pc) /\ Elsewhere(pc)
    BY DEF RecordHealth, Elsewhere
  <2> HIDE DEF pc
  <2> QED
    BY <2>1, GotoHeld
<1>2. db' = db \/ \E h : db' = [db EXCEPT !.health = h]
  BY DEF RecordHealth
<1>3. hist' = hist \/ \E o : hist' = [hist EXCEPT !.okAt = o]
  BY DEF RecordHealth
<1>4. RowsStay(db')
  BY <1>2 DEF RowsStay, Typed, DbTyped
<1>5. hist'.spent = hist.spent /\ hist'.proven = hist.proven /\ hist'.floor = hist.floor
  BY <1>3 DEF Typed, HistTyped
<1>6. UNCHANGED <<today, bank, issued>>
  BY DEF RecordHealth
<1> QED
  BY <1>1, <1>4, <1>5, <1>6, RunRests

LEMMA CheckConsentCalm ==
  ASSUME RowsInv, Typed, NEW p \in Procs, NEW answer, CheckConsent(p, answer)
  PROVE  Calm
<1>1. Elsewhere("told") /\ Elsewhere("release")
  BY DEF Elsewhere
<1>2. Reply(p, answer, "told") \/ Goto(p, "release")
  BY DEF CheckConsent
<1>3. OthersStay(p) /\ Held(p)
  BY <1>1, <1>2, GotoHeld, ReplyHeld
<1>4. RowsStay(db') /\ UNCHANGED <<today, bank, issued, hist>>
  BY DEF CheckConsent, RowsStay
<1> QED
  BY <1>3, <1>4, RunRests

LEMMA RecordAnswerCalm ==
  ASSUME RowsInv, Typed, NEW p \in Procs, RecordAnswer(p)
  PROVE  Calm
<1>1. Goto(p, "release") /\ Elsewhere("release")
  BY DEF RecordAnswer, Elsewhere
<1>2. RowsStay(db')
  <2>1. db' = db \/ \E gone : db' = [db EXCEPT !.health.gone = gone]
    BY DEF RecordAnswer
  <2> QED
    BY <2>1 DEF RowsStay, Typed, DbTyped
<1>3. UNCHANGED <<today, bank, issued, hist>>
  BY DEF RecordAnswer
<1> QED
  BY <1>1, <1>2, <1>3, GotoHeld, RunRests

LEMMA EndCalm ==
  ASSUME RowsInv, Typed, NEW p \in Procs, Release(p) \/ Crash(p)
  PROVE  Calm
<1>1. run' = [run EXCEPT ![p] = Idle]
  BY DEF Release, Crash
<1>2. RowsStay(db')
  BY DEF Release, Crash, RowsStay, Typed, DbTyped
<1>3. UNCHANGED <<today, bank, issued, hist>>
  BY DEF Release, Crash
<1> QED
  BY <1>1, <1>2, <1>3, StopHeld, RunRests

LEMMA ReadyCalm ==
  ASSUME RowsInv, Typed, NEW p \in Procs, Ready(p)
  PROVE  Calm
<1>1. OthersStay(p) /\ Held(p)
  <2> DEFINE pc == IF Lives(p) /\ DeepFetchComplete(p) THEN "switch" ELSE "release"
  <2>1. Goto(p, pc) /\ Elsewhere(pc)
    BY DEF Ready, Elsewhere
  <2> HIDE DEF pc
  <2> QED
    BY <2>1, GotoHeld
<1>2. RowsStay(db') /\ UNCHANGED <<today, bank, issued, hist>>
  BY DEF Ready, RowsStay
<1> QED
  BY <1>1, <1>2, RunRests

LEMMA SwitchCalm ==
  ASSUME RowsInv, Typed, NEW p \in Procs, Switch(p)
  PROVE  Calm
<1>1. Goto(p, "release") /\ Elsewhere("release")
  BY DEF Switch, Elsewhere
<1>2. RowsStay(db')
  <2>1. db' = db \/ \E n : db' = [db EXCEPT !.acct.session = n]
    BY DEF Switch
  <2> QED
    BY <2>1, SessionField, DbItself
<1>3. hist'.spent = hist.spent /\ hist'.proven = hist.proven /\ hist'.floor = hist.floor
  <2>1. hist' = hist \/ \E s : hist' = [hist EXCEPT !.switched = s]
    BY DEF Switch
  <2> QED
    BY <2>1 DEF Typed, HistTyped
<1>4. UNCHANGED <<today, bank, issued>>
  BY DEF Switch
<1> QED
  BY <1>1, <1>2, <1>3, <1>4, GotoHeld, RunRests

LEMMA NoAnswerCalm ==
  ASSUME RowsInv, Typed, NEW p \in Procs, NEW out, NoAnswer(p, out)
  PROVE  Calm
<1>1. Reply(p, out, "incomplete") /\ Elsewhere("incomplete")
  BY DEF NoAnswer, Elsewhere
<1>2. RowsStay(db') /\ UNCHANGED <<today, bank, issued, hist>>
  BY DEF NoAnswer, RowsStay
<1> QED
  BY <1>1, <1>2, ReplyHeld, RunRests

LEMMA ApplyErasedCalm ==
  ASSUME RowsInv, Typed, NEW p \in Procs, ApplyErased(p)
  PROVE  Calm
<1>1. OthersStay(p) /\ Held(p)
  <2> DEFINE pc == AfterFetch(p)
  <2>1. run' = [run EXCEPT ![p].view = NoView, ![p].alloc = NoAlloc, ![p].pc = pc]
    BY DEF ApplyErased
  <2>2. Elsewhere(pc)
    BY AfterElsewhere
  <2> HIDE DEF pc
  <2> QED
    BY <2>1, <2>2 DEF Typed, RunTyped, Runs, OthersStay, Held, RunKeeps, Elsewhere
<1>2. RowsStay(db') /\ UNCHANGED <<today, bank, issued, hist>>
  BY DEF ApplyErased, RowsStay
<1> QED
  BY <1>1, <1>2, RunRests

\* The numbers of sessions and answers are nobody's concern here.
LEMMA NumbersRest ==
  ASSUME RowsInv, Typed, NEW p \in Procs, OthersStay(p),
         Held(p) \/ (RunFits(run[p])' /\ ~Landing(p)),
         UNCHANGED <<today, bank, db, hist>>,
         issued'.life = issued.life, issued'.row = issued.row,
         issued'.tick \in Nat, issued.tick <= issued'.tick
  PROVE  Calm
<1>1. Still
  BY DEF Still
<1>2. BankFits'
  BY ClockKept
<1> QED
  BY <1>1, <1>2, OneHeld, OneSteps

LEMMA FiguresCalm ==
  ASSUME RowsInv, Typed, NEW p \in Procs, NEW types, NEW bad, Figures(p, types, bad)
  PROVE  Calm
<1>1. OthersStay(p) /\ Held(p)
  <2> DEFINE f == [answer |-> issued.answer + 1, types |-> types, bad |-> bad]
  <2>1. run' = [run EXCEPT ![p].pc = "write", ![p].figures = f]
    BY DEF Figures
  <2> HIDE DEF f
  <2> QED
    BY <2>1 DEF Typed, RunTyped, Runs, OthersStay, Held, RunKeeps
<1>2. /\ issued'.life = issued.life /\ issued'.row = issued.row
      /\ issued'.tick \in Nat /\ issued.tick <= issued'.tick
  BY DEF Figures, Typed, IssuedTyped
<1>3. UNCHANGED <<today, bank, db, hist>>
  BY DEF Figures
<1> QED
  BY <1>1, <1>2, <1>3, NumbersRest

\* A run that is before its readings.
LEMMA FreshFits ==
  ASSUME NEW p \in Procs, run'[p].page \in Seq(Pays), run'[p].from \in Int, run'[p].end \in Int,
         run'[p].life \in 0 .. issued'.life, run'[p].started <= issued'.tick,
         run'[p].pc \notin {"measure", "apply", "cover"}
  PROVE  RunFits(run[p])' /\ ~Landing(p)
BY DEF RunFits, Landing

LEMMA AuthorizeCalm ==
  ASSUME RowsInv, Typed, NEW p \in Procs, LinkRead(p) \/ RenewRead(p)
  PROVE  Calm
<1>1. issued' = [issued EXCEPT !.session = @ + 1] /\ UNCHANGED <<today, bank, db, hist>>
  BY DEF LinkRead, RenewRead
<1>2. /\ issued'.life = issued.life /\ issued'.row = issued.row /\ issued'.tick = issued.tick
      /\ issued.tick \in Nat
  BY <1>1 DEF Typed, IssuedTyped
<1>3. issued.life \in Nat /\ db.acct.life \in 0 .. issued.life
  BY DEF RowsInv, LivesFit
<1>4. /\ OthersStay(p) /\ run'[p].page = <<>> /\ run'[p].from = 0 /\ run'[p].end = 0
      /\ run'[p].started = 0 /\ run'[p].pc \in {"binding", "preempt"}
      /\ run'[p].life \in {0, db.acct.life}
  <2>1. CASE LinkRead(p)
    <3> DEFINE life == IF db.acct.live THEN db.acct.life ELSE 0
               n == issued.session + 1
    <3>1. run' = [run EXCEPT ![p] = [Idle EXCEPT !.kind = "link", !.pc = "binding", !.out = "ok",
                    !.session = n, !.life = life]]
      BY <2>1 DEF LinkRead
    <3>2. life \in {0, db.acct.life}
      OBVIOUS
    <3> HIDE DEF life, n
    <3> QED
      BY <3>1, <3>2 DEF Idle, OthersStay, Typed
  <2>2. CASE RenewRead(p)
    <3> DEFINE n == issued.session + 1
    <3>1. run' = [run EXCEPT ![p] = [Idle EXCEPT !.kind = "renew", !.pc = "preempt", !.out = "ok",
                    !.session = n, !.old = db.acct.session, !.life = db.acct.life]]
      BY <2>2 DEF RenewRead
    <3> HIDE DEF n
    <3> QED
      BY <3>1 DEF Idle, OthersStay, Typed
  <2> QED
    BY <2>1, <2>2
<1>5. RunFits(run[p])' /\ ~Landing(p)
  <2>1. <<>> \in Seq(Pays)
    OBVIOUS
  <2>2. /\ run'[p].page \in Seq(Pays) /\ run'[p].from \in Int /\ run'[p].end \in Int
        /\ run'[p].life \in 0 .. issued'.life /\ run'[p].started <= issued'.tick
        /\ run'[p].pc \notin {"measure", "apply", "cover"}
    BY <2>1, <1>2, <1>3, <1>4
  <2> QED
    BY <2>2, FreshFits
<1> QED
  BY <1>1, <1>2, <1>4, <1>5, NumbersRest

-----------------------------------------------------------------------------
(* What a run captures, asks for and loads.                                *)

LEMMA RunNow ==
  ASSUME RowsInv, Typed, NEW p \in Procs
  PROVE  /\ RunFits(run[p]) /\ DOMAIN run[p] = Runs /\ DOMAIN run = Procs
         /\ issued.life \in Nat /\ issued.row \in Nat /\ issued.tick \in Nat
         /\ today \in Nat /\ db.acct.life \in 0 .. issued.life
BY DEF RowsInv, RunsFit, RowsFit, LivesFit, BankFits, Typed, RunTyped, IssuedTyped

LEMMA CaptureCalm ==
  ASSUME RowsInv, Typed, NEW p \in Procs, Capture(p)
  PROVE  Calm
<1>1. CASE db.claim = NoClaim
  <2>1. run' = [run EXCEPT ![p] = Idle] /\ UNCHANGED <<today, bank, issued, db, hist>>
    BY <1>1 DEF Capture
  <2>2. RowsStay(db')
    BY <2>1, DbItself
  <2> QED
    BY <2>1, <2>2, StopHeld, RunRests
<1>2. CASE db.claim # NoClaim
  <2> DEFINE out == IF db.acct.session = 0 THEN "failed" ELSE "ok"
             pc == CASE ~db.acct.live -> "release"
                     [] db.acct.live /\ db.acct.session = 0 -> "note"
                     [] OTHER -> "bound"
  <2>1. /\ issued' = [issued EXCEPT !.tick = @ + 1] /\ UNCHANGED <<today, bank, db, hist>>
        /\ run' = [run EXCEPT ![p].held = db.claim.by, ![p].life = db.acct.life,
                     ![p].session = db.acct.session, ![p].started = issued.tick + 1,
                     ![p].out = out, ![p].pc = pc]
    BY <1>2 DEF Capture
  <2>2. pc \in {"release", "note", "bound"}
    OBVIOUS
  <2> HIDE DEF out, pc
  <2>3. /\ issued'.life = issued.life /\ issued'.row = issued.row
        /\ issued'.tick = issued.tick + 1 /\ issued'.tick \in Nat /\ issued.tick <= issued'.tick
    BY <2>1, RunNow DEF Typed, IssuedTyped
  <2>4. /\ OthersStay(p) /\ run'[p].page = run[p].page /\ run'[p].from = run[p].from
        /\ run'[p].end = run[p].end /\ run'[p].life = db.acct.life
        /\ run'[p].started = issued.tick + 1 /\ run'[p].pc = pc
    BY <2>1, RunNow DEF OthersStay, Runs
  <2>5. /\ run'[p].page \in Seq(Pays) /\ run'[p].from \in Int /\ run'[p].end \in Int
        /\ run'[p].life \in 0 .. issued'.life /\ run'[p].started <= issued'.tick
        /\ run'[p].pc \notin {"measure", "apply", "cover"}
    BY <2>2, <2>3, <2>4, RunNow DEF RunFits
  <2>6. RunFits(run[p])' /\ ~Landing(p)
    BY <2>5, FreshFits
  <2> QED
    BY <2>1, <2>3, <2>4, <2>6, NumbersRest
<1> QED
  BY <1>1, <1>2

LEMMA Reaching ==
  ASSUME NEW ages \in SUBSET Int, IsFiniteSet(ages),
         NEW near, near = {x \in ages : x >= 0 /\ x + Margin <= DefaultWindow}
  PROVE  Max({0} \cup {a + Margin : a \in near}) \in Int
<1> DEFINE reach == [x \in near |-> x + Margin]
           far == {reach[x] : x \in near}
<1>1. IsFiniteSet(near) /\ near \subseteq ages
  BY FS_Subset
<1>2. {a + Margin : a \in near} = far
  OBVIOUS
<1>3. far \in SUBSET Int
  BY <1>1, LimitsAssumption
<1> HIDE DEF reach
<1>4. IsFiniteSet(far)
  BY <1>1, ImageFinite
<1> HIDE DEF far
<1>5. IsFiniteSet({0} \cup far)
  BY <1>4, FS_Singleton, FS_Union
<1>6. {0} \cup far \in SUBSET Int /\ {0} \cup far # {}
  BY <1>3
<1>7. Max({0} \cup far) \in Int
  BY <1>5, <1>6, Greatest
<1> QED
  BY <1>2, <1>7

LEMMA ReachInt ==
  ASSUME RowsFit, today \in Nat
  PROVE  PendingReach \in Int /\ RefreshWindowDays \in Int
<1>1. /\ IsFiniteSet(DOMAIN db.rows) /\ \A i \in DOMAIN db.rows : db.rows[i].date \in Int
  <2>1. IsFiniteSet(1 .. issued.row)
    BY FS_Interval DEF RowsFit
  <2> QED
    BY <2>1, FS_Subset DEF RowsFit, RowFits
<1>2. Margin \in Nat /\ DefaultWindow \in Nat
  BY LimitsAssumption
<1>3. PendingReach \in Int
  <2> DEFINE anchors == {i \in DOMAIN db.rows :
                           \/ i \in ActiveRows /\ (Pending(db.rows[i]) \/ Cancelled(db.rows[i]))
                           \/ db.rows[i].state = "cancelled"}
             age == [i \in anchors |-> today - db.rows[i].date]
             ages == {age[i] : i \in anchors}
             near == {x \in ages : x >= 0 /\ x + Margin <= DefaultWindow}
  <2>1. PendingReach = Max({0} \cup {a + Margin : a \in near})
    <3>1. {today - db.rows[i].date : i \in anchors} = ages
      OBVIOUS
    <3> QED
      BY <3>1 DEF PendingReach
  <2>2. IsFiniteSet(anchors) /\ anchors \subseteq DOMAIN db.rows
    BY <1>1, FS_Subset
  <2> HIDE DEF anchors
  <2>4. \A i \in anchors : age[i] \in Int
    BY <1>1, <2>2
  <2> HIDE DEF age
  <2>3. IsFiniteSet(ages)
    BY <2>2, ImageFinite
  <2>5. ages \in SUBSET Int
    BY <2>4
  <2> HIDE DEF ages
  <2> QED
    BY <2>1, <2>3, <2>5, Reaching
<1>4. RefreshWindowDays \in Int
  <2> DEFINE date == [i \in ActiveRows |-> db.rows[i].date]
             dates == {date[i] : i \in ActiveRows}
             newest == Max(dates)
             days == today - newest + Margin
  <2>1. RefreshWindowDays = IF ActiveRows = {} \/ newest > today THEN DefaultWindow
                            ELSE Max({days, PendingReach})
    <3>1. {db.rows[i].date : i \in ActiveRows} = dates
      OBVIOUS
    <3> QED
      BY <3>1 DEF RefreshWindowDays
  <2>2. IsFiniteSet(ActiveRows) /\ ActiveRows \subseteq DOMAIN db.rows
    BY <1>1, FS_Subset DEF ActiveRows
  <2>3. IsFiniteSet(dates) /\ dates \in SUBSET Int
    BY <1>1, <2>2, ImageFinite
  <2>4. ActiveRows # {} => dates # {}
    OBVIOUS
  <2> HIDE DEF dates, date
  <2>5. ActiveRows # {} => newest \in Int
    BY <2>3, <2>4, Greatest
  <2> HIDE DEF newest
  <2>6. ActiveRows # {} => days \in Int
    BY <1>2, <2>5
  <2> HIDE DEF days
  <2>7. ActiveRows # {} => Max({days, PendingReach}) \in Int
    BY <1>3, <2>6, MaxOfTwo
  <2> QED
    BY <1>2, <2>1, <2>7
<1> QED
  BY <1>3, <1>4

LEMMA WindowCalm ==
  ASSUME RowsInv, Typed, NEW p \in Procs, Window(p)
  PROVE  Calm
<1> DEFINE days == IF Deep(p) THEN DeepWindow ELSE RefreshWindowDays
           from == today - days
<1>1. run' = [run EXCEPT ![p].from = from, ![p].end = today + 1, ![p].pc = "asking"]
  BY DEF Window
<1>2. days \in Int
  <2>1. RefreshWindowDays \in Int
    BY RunNow, ReachInt DEF RowsInv
  <2> QED
    BY <2>1, LimitsAssumption
<1> HIDE DEF days
<1>3. from \in Int
  BY <1>2, RunNow
<1> HIDE DEF from
<1>4. /\ OthersStay(p) /\ run'[p].page = run[p].page /\ run'[p].from = from
      /\ run'[p].end = today + 1 /\ run'[p].life = run[p].life
      /\ run'[p].started = run[p].started /\ run'[p].pc = "asking"
  BY <1>1, RunNow DEF OthersStay, Runs
<1>5. UNCHANGED <<today, bank, issued, db, hist>>
  BY DEF Window
<1>6. /\ run'[p].page \in Seq(Pays) /\ run'[p].from \in Int /\ run'[p].end \in Int
      /\ run'[p].life \in 0 .. issued'.life /\ run'[p].started <= issued'.tick
      /\ run'[p].pc \notin {"measure", "apply", "cover"}
  BY <1>3, <1>4, <1>5, RunNow DEF RunFits
<1>7. RunFits(run[p])' /\ ~Landing(p)
  BY <1>6, FreshFits
<1>8. issued'.tick \in Nat /\ issued.tick <= issued'.tick
  BY <1>5, RunNow
<1> QED
  BY <1>4, <1>5, <1>7, <1>8, NumbersRest

OpList(from, older, e, page, r) == IF older \/ r.date >= from THEN Append(page, r) ELSE page
GoodList(from, older, e, n, page) == page \in Seq(Pays)
ListFold == INSTANCE Folding WITH Op <- OpList, Good <- GoodList

LEMMA ListingIs ==
  ASSUME bank \in Seq(Pays), NEW from, NEW older
  PROVE  Listing(from, older) \in Seq(Pays)
<1>1. /\ Len(bank) \in Nat /\ DOMAIN bank = 1 .. Len(bank)
      /\ \A n \in 1 .. Len(bank) : bank[n] \in Pays
  OBVIOUS
<1>2. \A n \in 1 .. Len(bank) : \A a :
        GoodList(from, older, 0, n - 1, a)
          => GoodList(from, older, 0, n, OpList(from, older, 0, a, bank[n]))
  BY <1>1 DEF GoodList, OpList
<1>3. GoodList(from, older, 0, 0, <<>>)
  BY DEF GoodList
<1>4. ListFold!Folded(from, older, 0, <<>>, bank) \in Seq(Pays)
  BY <1>1, <1>2, <1>3, ListFold!FoldKeeps DEF GoodList
<1>5. ListFold!Folded(from, older, 0, <<>>, bank) = Listing(from, older)
  BY DEF Listing, OpList, ListFold!Folded, FoldLeft,
          MapThenFoldSet, ListFold!Top, Max
<1> QED
  BY <1>4, <1>5

LEMMA AnswerCalm ==
  ASSUME RowsInv, Typed, NEW p \in Procs, NEW older, Answer(p, older)
  PROVE  Calm
<1> DEFINE page == Listing(run[p].from, older)
<1>1. run' = [run EXCEPT ![p].page = page, ![p].pc = "load"]
  BY DEF Answer
<1>2. page \in Seq(Pays)
  BY ListingIs DEF RowsInv, BankFits
<1> HIDE DEF page
<1>4. /\ OthersStay(p) /\ run'[p].page = page /\ run'[p].from = run[p].from
      /\ run'[p].end = run[p].end /\ run'[p].life = run[p].life
      /\ run'[p].started = run[p].started /\ run'[p].pc = "load"
  BY <1>1, RunNow DEF OthersStay, Runs
<1>5. UNCHANGED <<today, bank, issued, db, hist>>
  BY DEF Answer
<1>6. /\ run'[p].page \in Seq(Pays) /\ run'[p].from \in Int /\ run'[p].end \in Int
      /\ run'[p].life \in 0 .. issued'.life /\ run'[p].started <= issued'.tick
      /\ run'[p].pc \notin {"measure", "apply", "cover"}
  BY <1>2, <1>4, <1>5, RunNow DEF RunFits
<1>7. RunFits(run[p])' /\ ~Landing(p)
  BY <1>6, FreshFits
<1>8. issued'.tick \in Nat /\ issued.tick <= issued'.tick
  BY <1>5, RunNow
<1> QED
  BY <1>4, <1>5, <1>7, <1>8, NumbersRest

LEMMA LoadCalm ==
  ASSUME RowsInv, Typed, NEW p \in Procs, Load(p)
  PROVE  Calm
<1>1. PICK win, below, ends :
        /\ run' = [run EXCEPT
             ![p].view = [rows |-> db.rows, win |-> win, below |-> below, trusted |-> FALSE,
                          ends |-> ends],
             ![p].pc = "measure"]
        /\ win \subseteq DOMAIN db.rows /\ below \subseteq DOMAIN db.rows
  <2> DEFINE r == run[p]
             older == {r.page[k].date : k \in DOMAIN r.page} \cap (Min({0, r.from}) .. r.from - 1)
             floor == Min({r.from} \cup older) - DriftBound
             W == {i \in DOMAIN db.rows : db.rows[i].date >= r.from /\ db.rows[i].date < r.end}
             B == {i \in DOMAIN db.rows :
                     /\ db.rows[i].state \in {"active", "superseded"}
                     /\ db.rows[i].date >= floor /\ db.rows[i].date < r.from}
             chained == {i \in W \cup B :
                           db.rows[i].state = "superseded" /\ ActiveEnds[i] # 0}
             E == [i \in chained |-> ActiveEnds[i]]
  <2>1. run' = [run EXCEPT
           ![p].view = [rows |-> db.rows, win |-> W, below |-> B, trusted |-> FALSE,
                        ends |-> E],
           ![p].pc = "measure"]
    BY Zenon DEF Load
  <2>2. W \subseteq DOMAIN db.rows /\ B \subseteq DOMAIN db.rows
    <3> HIDE DEF floor
    <3> QED
      OBVIOUS
  <2> HIDE DEF W, B, E
  <2> QED
    BY <2>1, <2>2
<1> DEFINE view == [rows |-> db.rows, win |-> win, below |-> below, trusted |-> FALSE,
                    ends |-> ends]
<1>2. /\ DOMAIN view = DOMAIN NoView /\ view.rows = db.rows
      /\ view.win \subseteq DOMAIN db.rows /\ view.below \subseteq DOMAIN db.rows
  BY <1>1 DEF NoView
<1>3. run' = [run EXCEPT ![p].view = view, ![p].pc = "measure"]
  BY <1>1
<1> HIDE DEF view
<1>4. /\ OthersStay(p) /\ run'[p].page = run[p].page /\ run'[p].from = run[p].from
      /\ run'[p].end = run[p].end /\ run'[p].life = run[p].life
      /\ run'[p].started = run[p].started /\ run'[p].pc = "measure" /\ run'[p].view = view
  BY <1>3, RunNow DEF OthersStay, Runs
<1>5. UNCHANGED <<today, bank, issued, db, hist>>
  BY DEF Load
<1>6. ViewFits(run[p])'
  <2>1. /\ DOMAIN db.rows \subseteq 1 .. issued.row
        /\ \A i \in DOMAIN db.rows : RowFits(db.rows[i])
        /\ SpentPairs(db) \subseteq hist.spent
    BY DEF RowsInv, RowsFit, MarksFit
  <2>2. SpentPairs(view) = SpentPairs(db)
    BY <1>2 DEF SpentPairs
  <2>3. \A i \in DOMAIN view.rows : RowFits(run[p].view.rows[i])'
    BY <1>2, <1>4, <2>1 DEF RowFits
  <2> QED
    BY <1>2, <1>4, <1>5, <2>1, <2>2, <2>3 DEF ViewFits, SpentPairs
<1>7. RunFits(run[p])' /\ ~Landing(p)
  BY <1>4, <1>5, <1>6, RunNow DEF RunFits, Landing
<1>8. issued'.tick \in Nat /\ issued.tick <= issued'.tick
  BY <1>5, RunNow
<1> QED
  BY <1>4, <1>5, <1>7, <1>8, NumbersRest

MarkOf(x) == Max({db.alloc[x]} \cup {db.rows[i].occ + 1 :
                    i \in {j \in DOMAIN db.rows : db.rows[j].ident = x}})

LEMMA MarkIs ==
  ASSUME RowsInv, NEW x \in Idents
  PROVE  MarkOf(x) \in Nat
<1> DEFINE own == {j \in DOMAIN db.rows : db.rows[j].ident = x}
           next == [i \in own |-> db.rows[i].occ + 1]
           used == {next[i] : i \in own}
<1>1. IsFiniteSet(own)
  <2>1. IsFiniteSet(1 .. issued.row) /\ own \subseteq 1 .. issued.row
    BY FS_Interval DEF RowsInv, RowsFit
  <2> QED
    BY <2>1, FS_Subset
<1>2. MarkOf(x) = Max({db.alloc[x]} \cup used)
  <2>1. {db.rows[i].occ + 1 : i \in own} = used
    OBVIOUS
  <2> QED
    BY <2>1 DEF MarkOf
<1>3. \A i \in own : next[i] \in Nat
  BY DEF RowsInv, RowsFit, RowFits
<1> HIDE DEF own, next
<1>4. IsFiniteSet(used)
  BY <1>1, ImageFinite
<1>5. used \subseteq Nat
  BY <1>3
<1> HIDE DEF used
<1> DEFINE mark == db.alloc[x]
<1>6. mark \in Nat
  BY DEF RowsInv, MarksFit
<1> HIDE DEF mark
<1>7. IsFiniteSet({mark} \cup used)
  BY <1>4, FS_Singleton, FS_Union
<1>8. {mark} \cup used \subseteq Nat /\ {mark} \cup used # {}
  BY <1>5, <1>6
<1>9. {mark} \cup used \in SUBSET Int
  BY <1>8
<1>10. Max({mark} \cup used) \in {mark} \cup used
  BY <1>7, <1>8, <1>9, Greatest
<1> QED
  BY <1>2, <1>8, <1>10 DEF mark

LEMMA AllocateCalm ==
  ASSUME RowsInv, Typed, NEW p \in Procs, Allocate(p)
  PROVE  Calm
<1> DEFINE trusted == Trusted(db.evid) /\ ~Measure(run[p].page).reused
           marks == [x \in Idents |-> MarkOf(x)]
<1>1. run[p].pc = "measure"
      /\ run' = [run EXCEPT ![p].view.trusted = trusted, ![p].alloc = marks, ![p].pc = "apply"]
  BY DEF Allocate, MarkOf
<1>2. marks \in [Idents -> Nat]
  BY MarkIs
<1>3. ViewFits(run[p]) /\ DOMAIN run[p].view = DOMAIN NoView
  BY <1>1, RunNow DEF RunFits, ViewFits
<1> HIDE DEF trusted, marks
<1>4. /\ OthersStay(p) /\ run'[p].page = run[p].page /\ run'[p].from = run[p].from
      /\ run'[p].end = run[p].end /\ run'[p].life = run[p].life
      /\ run'[p].started = run[p].started /\ run'[p].pc = "apply" /\ run'[p].alloc = marks
      /\ run'[p].view = [run[p].view EXCEPT !.trusted = trusted]
  BY <1>1, RunNow DEF OthersStay, Runs
<1>5. UNCHANGED <<today, bank, issued, db, hist>>
  BY DEF Allocate
<1>6. ViewFits(run[p])'
  <2>1. /\ DOMAIN run'[p].view = DOMAIN NoView /\ run'[p].view.rows = run[p].view.rows
        /\ run'[p].view.win = run[p].view.win /\ run'[p].view.below = run[p].view.below
    BY <1>3, <1>4 DEF NoView
  <2>2. \A i \in DOMAIN run[p].view.rows : RowFits(run[p].view.rows[i])'
    BY <1>3, <2>1 DEF ViewFits, RowFits
  <2> QED
    BY <1>3, <1>4, <1>5, <2>1, <2>2 DEF ViewFits, SpentPairs, Current
<1>7. RunFits(run[p])' /\ ~Landing(p)
  BY <1>2, <1>4, <1>5, <1>6, RunNow DEF RunFits, Landing
<1>8. issued'.tick \in Nat /\ issued.tick <= issued'.tick
  BY <1>5, RunNow
<1> QED
  BY <1>4, <1>5, <1>7, <1>8, NumbersRest

=============================================================================
