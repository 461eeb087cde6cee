-------------------------- MODULE CollectionProofs --------------------------
(* Proofs about Collection, for every value of its constants: the leases   *)
(* and verdicts of an authorization, and then its sessions and bindings.   *)
EXTENDS Collection, FiniteSetTheorems, WellFoundedInduction, TLAPS


-----------------------------------------------------------------------------
(* A finite set of generations has a highest one.                          *)

LEMMA LeastNat ==
  ASSUME NEW T \in SUBSET Nat, T # {}
  PROVE  \E m \in T : \A n \in T : m <= n
<1>1. PICK m \in T : \A n \in T : ~(<<n, m>> \in OpToRel(<, Nat))
  BY NatLessThanWellFounded, WFMin
<1>2. ASSUME NEW n \in T PROVE m <= n
  <2>1. m \in Nat /\ n \in Nat
    OBVIOUS
  <2>2. ~(n < m)
    BY <1>1, <2>1 DEF OpToRel
  <2> QED
    BY <2>1, <2>2
<1> QED
  BY <1>2

LEMMA InitialBound ==
  ASSUME NEW k \in Nat, NEW f \in [1..k -> Nat]
  PROVE  \E b \in Nat : \A i \in 1..k : f[i] <= b
<1> DEFINE Bounded(m) == \E b \in Nat : \A i \in 1..m : f[i] <= b
           bad == {m \in 0..k : ~Bounded(m)}
<1> HIDE DEF Bounded
<1>1. SUFFICES ASSUME bad # {} PROVE FALSE
  <2>1. k \in 0..k
    OBVIOUS
  <2>2. Bounded(k)
    BY <1>1, <2>1
  <2> QED
    BY <2>2 DEF Bounded
<1>2. PICK m \in bad : \A n \in bad : m <= n
  <2>1. bad \in SUBSET Nat
    OBVIOUS
  <2> QED
    BY <1>1, <2>1, LeastNat
<1>3. m # 0
  <2>1. Bounded(0)
    <3>1. 0 \in Nat /\ \A i \in 1..0 : f[i] <= 0
      OBVIOUS
    <3> QED
      BY <3>1 DEF Bounded
  <2> QED
    BY <2>1
<1>4. Bounded(m - 1)
  <2>1. m - 1 \in 0..k /\ ~(m <= m - 1)
    BY <1>3
  <2> QED
    BY <1>2, <2>1
<1>5. PICK b \in Nat : \A i \in 1..(m - 1) : f[i] <= b
  BY <1>4 DEF Bounded
<1>6. \A i \in 1..m : f[i] <= b + f[m]
  <2>1. m \in 1..k /\ f[m] \in Nat
    BY <1>3
  <2>2. ASSUME NEW i \in 1..m PROVE f[i] <= b + f[m]
    <3>1. CASE i = m
      BY <2>1, <3>1
    <3>2. CASE i \in 1..(m - 1)
      <4>1. f[i] \in Nat /\ f[i] <= b
        BY <1>5, <3>2, <2>1
      <4> QED
        BY <2>1, <4>1
    <3> QED
      BY <2>1, <3>1, <3>2
  <2> QED
    BY <2>2
<1>7. b + f[m] \in Nat
  BY <1>3
<1>8. Bounded(m)
  BY <1>6, <1>7 DEF Bounded
<1> QED
  BY <1>8

LEMMA FiniteBound ==
  ASSUME NEW S \in SUBSET Nat, IsFiniteSet(S)
  PROVE  \E b \in Nat : \A n \in S : n <= b
<1>1. PICK k \in Nat : ExistsSurjection(1..k, S)
  BY FS_NatSurjection
<1>2. PICK f \in Surjection(1..k, S) : TRUE
  BY <1>1 DEF ExistsSurjection
<1>3. f \in [1..k -> Nat] /\ \A n \in S : \E i \in 1..k : f[i] = n
  BY <1>2 DEF Surjection
<1>4. PICK b \in Nat : \A i \in 1..k : f[i] <= b
  BY <1>3, InitialBound
<1> QED
  BY <1>3, <1>4

LEMMA HighestNat ==
  ASSUME NEW S \in SUBSET Nat, IsFiniteSet(S), S # {}
  PROVE  \E g \in S : \A h \in S : h <= g
<1> DEFINE bounds == {b \in Nat : \A n \in S : n <= b}
<1>1. bounds # {}
  BY FiniteBound
<1>2. PICK m \in bounds : \A n \in bounds : m <= n
  BY <1>1, LeastNat
<1>3. CASE m \in S
  BY <1>3
<1>4. CASE m \notin S
  <2>1. \A n \in S : n <= m - 1 /\ m >= 1
    BY <1>4
  <2>2. m - 1 \in Nat
    <3>1. PICK n \in S : m >= 1
      BY <2>1
    <3> QED
      BY <3>1
  <2>3. m - 1 \in bounds /\ ~(m <= m - 1)
    BY <2>1, <2>2
  <2> QED
    BY <1>2, <2>3
<1> QED
  BY <1>3, <1>4

LEMMA NextGenerationNat ==
  ASSUME sess \in [Attempts -> Session],
         NEW s \in Attempts
  PROVE  NextGeneration(s) \in Nat
<1> DEFINE older == {u \in Attempts \ {s} : sess[u].status # "none"}
           others == {sess[t].gen : t \in older}
<1>1. IsFiniteSet(others)
  <2>1. IsFiniteSet(older)
    BY FS_Subset, CollectionAssumption
  <2>2. [t \in older |-> sess[t].gen] \in Surjection(older, others)
    BY DEF Surjection
  <2> QED
    BY <2>1, <2>2, FS_Surjection
<1>2. others \in SUBSET Nat
  BY DEF Session
<1>3. NextGeneration(s) = IF others = {} THEN 1
        ELSE 1 + CHOOSE g \in others : \A h \in others : h <= g
  BY DEF NextGeneration
<1> HIDE DEF others
<1>4. CASE others = {}
  BY <1>3, <1>4
<1>5. CASE others # {}
  <2> DEFINE top == CHOOSE g \in others : \A h \in others : h <= g
  <2>1. \E g \in others : \A h \in others : h <= g
    BY <1>1, <1>2, <1>5, HighestNat
  <2>2. top \in others
    BY <2>1
  <2>3. NextGeneration(s) = 1 + top
    BY <1>3, <1>5
  <2> HIDE DEF top
  <2> QED
    BY <1>2, <2>2, <2>3
<1> QED
  BY <1>4, <1>5

-----------------------------------------------------------------------------
(* What the helpers return.                                                *)

LEMMA PcNames ==
  /\ "idle" \in Pcs /\ "read" \in Pcs /\ "held" \in Pcs /\ "ack" \in Pcs
  /\ "post" \in Pcs /\ "note" \in Pcs /\ "verify" \in Pcs /\ "insert" \in Pcs
  /\ "bind" \in Pcs /\ "write" \in Pcs /\ "fetch" \in Pcs /\ "page" \in Pcs /\ "switch" \in Pcs
  /\ "revoke" \in Pcs /\ "record" \in Pcs /\ "declare" \in Pcs
  /\ "tail" \in Pcs /\ "fail" \in Pcs
BY DEF Pcs, Calls

LEMMA IdleTyped == Idle \in Collector
BY PcNames DEF Idle, Collector, Records

LEMMA GotoTyped ==
  ASSUME proc \in [Procs -> Collector], NEW p \in Procs, NEW pc \in Pcs,
         Goto(p, pc)
  PROVE  proc' \in [Procs -> Collector]
<1>1. [proc[p] EXCEPT !.pc = pc] \in Collector
  BY DEF Collector
<1>2. proc' = [proc EXCEPT ![p] = [proc[p] EXCEPT !.pc = pc]]
  BY DEF Goto
<1> QED
  BY <1>1, <1>2

LEMMA EnterTyped ==
  ASSUME proc \in [Procs -> Collector], NEW p \in Procs, NEW pc \in Pcs,
         Enter(p, pc)
  PROVE  proc' \in [Procs -> Collector]
<1>1. [Idle EXCEPT !.pc = pc, !.a = proc[p].a] \in Collector
  BY IdleTyped DEF Collector
<1> QED
  BY <1>1 DEF Enter

LEMMA StopTyped ==
  ASSUME proc \in [Procs -> Collector], NEW p \in Procs, Stop(p)
  PROVE  proc' \in [Procs -> Collector]
BY IdleTyped DEF Stop

LEMMA VerifiedTyped ==
  ASSUME NEW r \in Collector, NEW s \in Attempts \cup {Nobody},
         NEW f \in [Accounts -> Nat]
  PROVE  [r EXCEPT !.pc = "insert", !.left = Accounts, !.prior = s, !.lives = f]
           \in Collector
BY PcNames DEF Collector

LEMMA CountTyped ==
  ASSUME events \in 0..MaxEvents, NEW event, Happens(event)
  PROVE  events' \in 0..MaxEvents
BY CollectionAssumption DEF Happens, CollectionAssumption

LEMMA UpdateTyped ==
  ASSUME proc \in [Procs -> Collector], NEW p \in Procs, NEW r \in Collector,
         proc' = [proc EXCEPT ![p] = r]
  PROVE  proc' \in [Procs -> Collector]
OBVIOUS

LEMMA UpsertedTyped ==
  ASSUME acct \in [Accounts -> Account], NEW x \in Accounts, NEW a \in Attempts
  PROVE  Upserted(x, a) \in Account /\ Upserted(x, a).life \in Nat
<1> DEFINE life == IF acct[x].present THEN acct[x].life ELSE acct[x].life + 1
<1>1. life \in Nat
  BY DEF Account
<1>2. Upserted(x, a)
        = [acct[x] EXCEPT !.present = TRUE, !.bound = a, !.life = life]
  BY DEF Upserted
<1> HIDE DEF life
<1>3. [acct[x] EXCEPT !.present = TRUE, !.bound = a, !.life = life] \in Account
  BY <1>1 DEF Account
<1>4. Upserted(x, a) \in Account
  BY <1>2, <1>3
<1> QED
  BY <1>4 DEF Account

LEMMA SwitchedTyped ==
  ASSUME sess \in [Attempts -> Session], NEW a \in Attempts, NEW old \in Attempts
  PROVE  Switched(a, old) \in [Attempts -> Session]
<1> DEFINE g == sess[old].gen + 1
<1>1. g \in Nat
  BY DEF Session
<1> HIDE DEF g
<1>2. [sess[a] EXCEPT !.status = "AUTHORIZED", !.gen = g] \in Session
  BY <1>1 DEF Session, Statuses
<1>3. [sess[old] EXCEPT !.status = "REVOKE_PENDING"] \in Session
  BY DEF Session, Statuses
<1> QED
  BY <1>2, <1>3 DEF Switched, g

LEMMA SettleTyped ==
  ASSUME att \in [Attempts -> Attempt], NEW a \in Attempts,
         NEW phase \in Phases, NEW outcome \in Outcomes,
         SettleAs(a, phase, outcome)
  PROVE  att' \in [Attempts -> Attempt]
<1>1. [att[a] EXCEPT !.phase = phase, !.outcome = outcome, !.token = Nobody,
                     !.lapsed = FALSE] \in Attempt
  BY DEF Attempt
<1>2. att' = [att EXCEPT ![a] = [att[a] EXCEPT !.phase = phase,
                !.outcome = outcome, !.token = Nobody, !.lapsed = FALSE]]
  BY DEF SettleAs
<1> QED
  BY <1>1, <1>2

LEMMA FreeTyped ==
  ASSUME att \in [Attempts -> Attempt], NEW a \in Attempts
  PROVE  Free(a) \in [Attempts -> Attempt]
<1>1. [att[a] EXCEPT !.token = Nobody, !.lapsed = FALSE] \in Attempt
  BY DEF Attempt
<1>2. Free(a) = [att EXCEPT ![a] = [att[a] EXCEPT !.token = Nobody,
                                                  !.lapsed = FALSE]]
  BY DEF Free
<1> QED
  BY <1>1, <1>2

LEMMA BoundTyped ==
  ASSUME acct \in [Accounts -> Account], NEW x \in Accounts
  PROVE  acct[x].bound \in Attempts \cup {Nobody}
BY DEF Account

LEMMA ContainSessionTyped ==
  ASSUME NEW S \in [Attempts -> Session], NEW a \in Attempts,
         NEW isNoted \in BOOLEAN
  PROVE  ContainSession(S, a, isNoted) \in [Attempts -> Session]
<1>1. [S[a] EXCEPT !.status = "REVIEW_REQUIRED", !.gen = 0] \in Session
  BY DEF Session, Statuses
<1>2. [S EXCEPT ![a].status = "REVIEW_REQUIRED", ![a].gen = 0]
        = [S EXCEPT ![a] = [S[a] EXCEPT !.status = "REVIEW_REQUIRED", !.gen = 0]]
  OBVIOUS
<1> QED
  BY <1>1, <1>2 DEF ContainSession

LEMMA ReleasedTyped ==
  ASSUME NEW A \in [Accounts -> Account], NEW s
  PROVE  [x \in Accounts |-> IF A[x].bound = s THEN LetGo(A[x]) ELSE A[x]]
           \in [Accounts -> Account]
<1>1. \A x \in Accounts : LetGo(A[x]) \in Account
  BY DEF Account, LetGo
<1> QED
  BY <1>1

LEMMA LetGoFields ==
  ASSUME NEW row \in Account
  PROVE  /\ LetGo(row).bound = Nobody /\ LetGo(row).life = row.life
         /\ LetGo(row).present = row.present /\ LetGo(row).released
BY DEF Account, LetGo

LEMMA ContainAccountsTyped ==
  ASSUME NEW S, NEW A \in [Accounts -> Account], NEW a \in Attempts, NEW isNoted
  PROVE  ContainAccounts(S, A, a, isNoted) \in [Accounts -> Account]
BY ReleasedTyped DEF ContainAccounts

LEMMA PromotedTyped ==
  ASSUME sess \in [Attempts -> Session], NEW s \in Attempts
  PROVE  Promoted(s) \in [Attempts -> Session]
<1> DEFINE g == NextGeneration(s)
<1>1. g \in Nat
  BY NextGenerationNat
<1> HIDE DEF g
<1>2. [sess[s] EXCEPT !.status = "AUTHORIZED", !.gen = g] \in Session
  BY <1>1 DEF Session, Statuses
<1>3. [sess EXCEPT ![s].status = "AUTHORIZED", ![s].gen = g]
        = [sess EXCEPT ![s] = [sess[s] EXCEPT !.status = "AUTHORIZED", !.gen = g]]
  OBVIOUS
<1> QED
  BY <1>2, <1>3 DEF Promoted, g

LEMMA ClosedTyped ==
  ASSUME sess \in [Attempts -> Session], NEW s, NEW status \in Statuses
  PROVE  /\ [sess EXCEPT ![s].status = status, ![s].closed = TRUE]
              \in [Attempts -> Session]
         /\ [sess EXCEPT ![s].status = status] \in [Attempts -> Session]
<1>1. CASE s \in Attempts
  <2>1. /\ [sess[s] EXCEPT !.status = status, !.closed = TRUE] \in Session
        /\ [sess[s] EXCEPT !.status = status] \in Session
    BY <1>1 DEF Session
  <2>2. [sess EXCEPT ![s].status = status, ![s].closed = TRUE]
          = [sess EXCEPT ![s] = [sess[s] EXCEPT !.status = status, !.closed = TRUE]]
    OBVIOUS
  <2> QED
    BY <1>1, <2>1, <2>2
<1>2. CASE s \notin Attempts
  BY <1>2
<1> QED
  BY <1>1, <1>2

LEMMA RecordedTyped ==
  ASSUME sess \in [Attempts -> Session], NEW s, NEW gone \in BOOLEAN
  PROVE  Recorded(s, gone) \in [Attempts -> Session]
<1>1. "CLOSED" \in Statuses /\ "REVOKE_FAILED" \in Statuses
  BY DEF Statuses
<1> QED
  BY <1>1, ClosedTyped DEF Recorded

LEMMA AfterFetchTyped ==
  ASSUME proc \in [Procs -> Collector], NEW p \in Procs, NEW a, NEW ok \in BOOLEAN,
         AfterFetch(p, a, ok)
  PROVE  proc' \in [Procs -> Collector]
<1> DEFINE rest == proc[p].left \ {proc[p].cur}
           isShort == proc[p].short \/ ~ok
           on(pc, x) == [proc[p] EXCEPT !.pc = pc, !.left = rest, !.cur = x,
                                        !.short = isShort]
<1>1. ASSUME NEW pc \in Pcs, NEW x \in Accounts \cup {Nobody}
      PROVE  on(pc, x) \in Collector
  <2>1. rest \in SUBSET Accounts /\ isShort \in BOOLEAN
    BY DEF Collector
  <2> HIDE DEF rest, isShort
  <2> QED
    BY <2>1 DEF Collector
<1>2. \E pc \in Pcs, x \in Accounts \cup {Nobody} :
        proc' = [proc EXCEPT ![p] = on(pc, x)]
  BY PcNames DEF AfterFetch, Collector
<1> HIDE DEF on
<1> QED
  BY <1>1, <1>2

LEMMA PhaseNames ==
  /\ SETTLED_PHASES \subseteq Phases /\ "minted" \in Phases
  /\ "exchange_started" \in Phases /\ "none" \in Phases /\ "erased" \in Phases
  /\ "abandoned" \in Phases /\ "closed" \in Phases /\ "declined" \in Phases
  /\ "indeterminate" \in Phases /\ "review_required" \in Phases
  /\ "exchanged" \in Phases
  /\ "other" \in Outcomes /\ "verified" \in Outcomes
  /\ "verified_partial" \in Outcomes
BY DEF Phases, SETTLED_PHASES, Outcomes

LEMMA AttemptUpdates ==
  ASSUME att \in [Attempts -> Attempt], NEW a \in Attempts
  PROVE  /\ \A p \in Procs :
              [att EXCEPT ![a].token = p, ![a].lapsed = FALSE]
                \in [Attempts -> Attempt]
         /\ [att EXCEPT ![a].session = TRUE, ![a].lapsed = FALSE]
              \in [Attempts -> Attempt]
         /\ \A phase \in Phases :
              [att EXCEPT ![a].phase = phase, ![a].lapsed = FALSE]
                \in [Attempts -> Attempt]
         /\ \A outcome \in Outcomes :
              [att EXCEPT ![a].outcome = outcome, ![a].lapsed = FALSE]
                \in [Attempts -> Attempt]
         /\ [att EXCEPT ![a].lapsed = FALSE] \in [Attempts -> Attempt]
         /\ [att EXCEPT ![a].lapsed = TRUE] \in [Attempts -> Attempt]
<1>1. att[a] \in Attempt
  OBVIOUS
<1>2. \A p \in Procs : [att[a] EXCEPT !.token = p, !.lapsed = FALSE] \in Attempt
  BY <1>1 DEF Attempt
<1>3. [att[a] EXCEPT !.session = TRUE, !.lapsed = FALSE] \in Attempt
  BY <1>1 DEF Attempt
<1>4. \A phase \in Phases :
        [att[a] EXCEPT !.phase = phase, !.lapsed = FALSE] \in Attempt
  BY <1>1 DEF Attempt
<1>5. \A outcome \in Outcomes :
        [att[a] EXCEPT !.outcome = outcome, !.lapsed = FALSE] \in Attempt
  BY <1>1 DEF Attempt
<1>6. /\ [att[a] EXCEPT !.lapsed = FALSE] \in Attempt
      /\ [att[a] EXCEPT !.lapsed = TRUE] \in Attempt
  BY <1>1 DEF Attempt
<1>7. \A p \in Procs :
        [att EXCEPT ![a].token = p, ![a].lapsed = FALSE] \in [Attempts -> Attempt]
  <2>1. \A p \in Procs : [att EXCEPT ![a].token = p, ![a].lapsed = FALSE]
          = [att EXCEPT ![a] = [att[a] EXCEPT !.token = p, !.lapsed = FALSE]]
    OBVIOUS
  <2> QED
    BY <1>2, <2>1
<1>8. [att EXCEPT ![a].session = TRUE, ![a].lapsed = FALSE]
        \in [Attempts -> Attempt]
  <2>1. [att EXCEPT ![a].session = TRUE, ![a].lapsed = FALSE]
          = [att EXCEPT ![a] = [att[a] EXCEPT !.session = TRUE, !.lapsed = FALSE]]
    OBVIOUS
  <2> QED
    BY <1>3, <2>1
<1>9. \A phase \in Phases :
        [att EXCEPT ![a].phase = phase, ![a].lapsed = FALSE]
          \in [Attempts -> Attempt]
  <2>1. \A phase \in Phases :
          [att EXCEPT ![a].phase = phase, ![a].lapsed = FALSE]
          = [att EXCEPT ![a] = [att[a] EXCEPT !.phase = phase, !.lapsed = FALSE]]
    OBVIOUS
  <2> QED
    BY <1>4, <2>1
<1>10. \A outcome \in Outcomes :
        [att EXCEPT ![a].outcome = outcome, ![a].lapsed = FALSE]
          \in [Attempts -> Attempt]
  <2>1. \A outcome \in Outcomes :
          [att EXCEPT ![a].outcome = outcome, ![a].lapsed = FALSE]
          = [att EXCEPT ![a] = [att[a] EXCEPT !.outcome = outcome,
                                             !.lapsed = FALSE]]
    OBVIOUS
  <2> QED
    BY <1>5, <2>1
<1> QED
  BY <1>6, <1>7, <1>8, <1>9, <1>10

LEMMA MintTyped ==
  ASSUME att \in [Attempts -> Attempt], NEW a \in Attempts,
         NEW phase \in Phases, NEW x \in Accounts, NEW g \in Nat
  PROVE  /\ [att EXCEPT ![a].phase = phase, ![a].purpose = "link"]
              \in [Attempts -> Attempt]
         /\ [att EXCEPT ![a].phase = phase, ![a].purpose = "renew",
                        ![a].account = x, ![a].expected = g]
              \in [Attempts -> Attempt]
<1>1. att[a] \in Attempt
  OBVIOUS
<1>2. /\ [att[a] EXCEPT !.phase = phase, !.purpose = "link"] \in Attempt
      /\ [att[a] EXCEPT !.phase = phase, !.purpose = "renew", !.account = x,
                        !.expected = g] \in Attempt
  BY <1>1 DEF Attempt
<1>3. [att EXCEPT ![a].phase = phase, ![a].purpose = "link"]
        = [att EXCEPT ![a] = [att[a] EXCEPT !.phase = phase, !.purpose = "link"]]
  OBVIOUS
<1>4. [att EXCEPT ![a].phase = phase, ![a].purpose = "renew", ![a].account = x,
                  ![a].expected = g]
        = [att EXCEPT ![a] = [att[a] EXCEPT !.phase = phase, !.purpose = "renew",
                                 !.account = x, !.expected = g]]
  OBVIOUS
<1> QED
  BY <1>2, <1>3, <1>4

LEMMA WithdrawTyped ==
  ASSUME grant \in [Attempts -> {"none", "live", "gone"}], NEW s, NEW ok,
         Withdraw(s, ok)
  PROVE  grant' \in [Attempts -> {"none", "live", "gone"}]
BY DEF Withdraw

-----------------------------------------------------------------------------
(* A renewal knows the account it is fenced by and, once it was verified,  *)
(* the consent it renews.                                                  *)

Fenced ==
  \A a \in Attempts : att[a].purpose = "renew" => att[a].account \in Accounts

HasPrior ==
  \A p \in Procs :
    /\ proc[p].pc # "idle" =>
         proc[p].a \in Attempts /\ att[proc[p].a].phase # "none"
    /\ proc[p].pc \in {"insert", "bind", "write", "fetch", "page"}
       /\ att[proc[p].a].purpose = "renew" => proc[p].prior \in Attempts
    /\ proc[p].pc = "switch" => proc[p].prior \in Attempts

LEMMA TypeNext == TypeOK /\ Fenced /\ HasPrior /\ [Next]_vars => TypeOK'
<1> SUFFICES ASSUME TypeOK, Fenced, HasPrior, [Next]_vars PROVE TypeOK'
  OBVIOUS
<1> USE DEF vars, db, casa, bank
<1>1. ASSUME NEW p \in Procs, NEW a \in Attempts, Vanished(p, a)
     PROVE  TypeOK'
  <2>1. proc' \in [Procs -> Collector]
    BY <1>1, StopTyped DEF Vanished, TypeOK
  <2> QED
    BY <1>1, <2>1 DEF TypeOK, Vanished
<1>2. ASSUME NEW p \in Procs, NEW a \in Attempts, AckAgain(p, a)
     PROVE  TypeOK'
  <2>1. att' \in [Attempts -> Attempt]
    BY <1>2, FreeTyped DEF AckAgain, TypeOK
  <2>2. proc' \in [Procs -> Collector]
    BY <1>2, EnterTyped, PcNames DEF AckAgain, TypeOK
  <2> QED
    BY <1>2, <2>1, <2>2 DEF TypeOK, AckAgain
<1>3. ASSUME NEW p \in Procs, NEW a \in Attempts, Abandon(p, a)
     PROVE  TypeOK'
  <2>1. att' \in [Attempts -> Attempt]
    BY <1>3, SettleTyped, PhaseNames DEF Abandon, TypeOK
  <2>2. proc' \in [Procs -> Collector]
    BY <1>3, EnterTyped, PcNames DEF Abandon, TypeOK
  <2>3. events' \in 0..MaxEvents
    BY <1>3, CollectionAssumption DEF Abandon, TypeOK, Happens
  <2> QED
    BY <1>3, <2>1, <2>2, <2>3 DEF TypeOK, Abandon
<1>4. ASSUME NEW p \in Procs, NEW a \in Attempts, CasaEnded(p, a)
     PROVE  TypeOK'
  <2>1. att' \in [Attempts -> Attempt]
    BY <1>4, SettleTyped, PhaseNames DEF CasaEnded, TypeOK
  <2>2. proc' \in [Procs -> Collector]
    BY <1>4, EnterTyped, PcNames DEF CasaEnded, TypeOK
  <2> QED
    BY <1>4, <2>1, <2>2 DEF TypeOK, CasaEnded
<1>5. ASSUME NEW p \in Procs, NEW a \in Attempts, NotYet(p, a)
     PROVE  TypeOK'
  <2>1. att' \in [Attempts -> Attempt]
    BY <1>5, FreeTyped DEF NotYet, TypeOK
  <2>2. proc' \in [Procs -> Collector]
    BY <1>5, StopTyped DEF NotYet, TypeOK
  <2> QED
    BY <1>5, <2>1, <2>2 DEF TypeOK, NotYet
<1>6. ASSUME NEW p \in Procs, NEW a \in Attempts, Discard(p, a)
     PROVE  TypeOK'
  <2>1. att' \in [Attempts -> Attempt]
    BY <1>6, SettleTyped, PhaseNames DEF Discard, TypeOK
  <2>2. proc' \in [Procs -> Collector]
    BY <1>6, EnterTyped, PcNames DEF Discard, TypeOK
  <2> QED
    BY <1>6, <2>1, <2>2 DEF TypeOK, Discard
<1>7. ASSUME NEW p \in Procs, NEW a \in Attempts, Begin(p, a)
     PROVE  TypeOK'
  <2>1. att' \in [Attempts -> Attempt]
    BY <1>7, AttemptUpdates, PhaseNames DEF Begin, TypeOK
  <2>2. proc' \in [Procs -> Collector]
    BY <1>7, EnterTyped, PcNames DEF Begin, TypeOK
  <2> QED
    BY <1>7, <2>1, <2>2 DEF TypeOK, Begin
<1>8. ASSUME NEW p \in Procs, NEW a \in Attempts, Interrupted(p, a)
     PROVE  TypeOK'
  <2>1. att[a].session \in BOOLEAN
    BY <1>8 DEF Interrupted, TypeOK, Attempt
  <2>2. sess' \in [Attempts -> Session]
    BY <1>8, <2>1, ContainSessionTyped DEF Interrupted, TypeOK
  <2>3. acct' \in [Accounts -> Account]
    BY <1>8, ContainAccountsTyped DEF Interrupted, TypeOK
  <2>4. att' \in [Attempts -> Attempt]
    BY <1>8, SettleTyped, PhaseNames DEF Interrupted, TypeOK
  <2>5. proc' \in [Procs -> Collector]
    BY <1>8, EnterTyped, PcNames DEF Interrupted, TypeOK
  <2> QED
    BY <1>8, <2>1, <2>2, <2>3, <2>4, <2>5 DEF TypeOK, Interrupted
<1>9. ASSUME NEW p \in Procs, NEW a \in Attempts, Ack(p, a)
     PROVE  TypeOK'
  <2>1. proc' \in [Procs -> Collector]
    BY <1>9, StopTyped DEF Ack, TypeOK
  <2> QED
    BY <1>9, <2>1 DEF TypeOK, Ack
<1>10. ASSUME NEW p \in Procs, NEW a \in Attempts, Read(p, a)
     PROVE  TypeOK'
  <2>1. [Idle EXCEPT !.pc = "read", !.a = a, !.saw = rec[a]] \in Collector
    BY <1>10, IdleTyped, PcNames DEF Read, TypeOK, Collector
  <2>2. proc' \in [Procs -> Collector]
    BY <1>10, <2>1 DEF Read, TypeOK
  <2> QED
    BY <1>10, <2>1, <2>2 DEF TypeOK, Read
<1>11. ASSUME NEW p \in Procs, NEW a \in Attempts, Take(p, a)
     PROVE  TypeOK'
  <2>1. att' = att \/ att' = [att EXCEPT ![a].token = p, ![a].lapsed = FALSE]
    BY <1>11 DEF Take
  <2>2. att' \in [Attempts -> Attempt]
    <3>1. CASE att' = att
      BY <3>1 DEF TypeOK
    <3>2. CASE att' = [att EXCEPT ![a].token = p, ![a].lapsed = FALSE]
      BY <3>2, AttemptUpdates DEF TypeOK
    <3> QED
      BY <2>1, <3>1, <3>2
  <2>3. proc' \in [Procs -> Collector]
    BY <1>11, GotoTyped, StopTyped, PcNames DEF Take, TypeOK
  <2> QED
    BY <1>11, <2>1, <2>2, <2>3 DEF TypeOK, Take
<1>12. ASSUME NEW p \in Procs, NEW a \in Attempts, Post(p, a)
     PROVE  TypeOK'
  <2>1. proc' \in [Procs -> Collector]
    BY <1>12, GotoTyped, EnterTyped, PcNames DEF Post, TypeOK, Raise
  <2>2. /\ posted' \in [Attempts -> Nat]
        /\ grant' \in [Attempts -> {"none", "live", "gone"}]
    BY <1>12 DEF Post, TypeOK
  <2> QED
    BY <1>12, <2>1, <2>2 DEF TypeOK, Post
<1>13. ASSUME NEW p \in Procs, NEW a \in Attempts, Note(p, a)
     PROVE  TypeOK'
  <2>1. att' = att \/ att' = [att EXCEPT ![a].session = TRUE, ![a].lapsed = FALSE]
    BY <1>13 DEF Note, LostFence
  <2>2. att' \in [Attempts -> Attempt]
    <3>1. CASE att' = att
      BY <3>1 DEF TypeOK
    <3>2. CASE att' = [att EXCEPT ![a].session = TRUE, ![a].lapsed = FALSE]
      BY <3>2, AttemptUpdates DEF TypeOK
    <3> QED
      BY <2>1, <3>1, <3>2
  <2>3. proc' \in [Procs -> Collector]
    BY <1>13, GotoTyped, EnterTyped, PcNames DEF Note, TypeOK, Raise, LostFence
  <2>4. UNCHANGED <<sess, acct>>
    BY <1>13 DEF Note, LostFence
  <2> QED
    BY <1>13, <2>1, <2>2, <2>3, <2>4 DEF TypeOK, Note
<1>14. ASSUME NEW p \in Procs, NEW a \in Attempts, Verify(p, a)
     PROVE  TypeOK'
  <2>1. \/ att' = att
        \/ att' = [att EXCEPT ![a].outcome = "verified", ![a].lapsed = FALSE]
        \/ att' = [att EXCEPT ![a].lapsed = FALSE]
    BY <1>14 DEF Verify, Beats
  <2>2. att' \in [Attempts -> Attempt]
    <3>1. CASE att' = att
      BY <3>1 DEF TypeOK
    <3>2. CASE att' = [att EXCEPT ![a].outcome = "verified", ![a].lapsed = FALSE]
      BY <3>2, AttemptUpdates, PhaseNames DEF TypeOK
    <3>3. CASE att' = [att EXCEPT ![a].lapsed = FALSE]
      BY <3>3, AttemptUpdates DEF TypeOK
    <3> QED
      BY <2>1, <3>1, <3>2, <3>3
  <2> DEFINE prior == IF att[a].purpose = "renew"
                      THEN acct[att[a].account].bound ELSE Nobody
             lives == [x \in Accounts |-> acct[x].life]
  <2>3. proc' \in [Procs -> Collector]
    <3>1. CASE Enter(p, "tail") \/ Enter(p, "fail")
      BY <3>1, EnterTyped, PcNames DEF TypeOK
    <3>2. CASE /\ att[a].purpose = "renew" => MayRenew(a)
               /\ proc' = [proc EXCEPT ![p].pc = "insert", ![p].left = Accounts,
                             ![p].prior = prior, ![p].lives = lives]
      <4>1. prior \in Attempts \cup {Nobody}
        BY <3>2 DEF Fenced, TypeOK, Account
      <4>2. lives \in [Accounts -> Nat]
        BY DEF TypeOK, Account
      <4> HIDE DEF prior, lives
      <4> DEFINE r == [proc[p] EXCEPT !.pc = "insert", !.left = Accounts,
                                      !.prior = prior, !.lives = lives]
      <4>3. proc[p] \in Collector
        BY DEF TypeOK
      <4>4. r \in Collector
        BY <4>1, <4>2, <4>3, VerifiedTyped
      <4>5. proc' = [proc EXCEPT ![p] = r]
        BY <3>2
      <4> HIDE DEF r
      <4> QED
        BY <4>4, <4>5, UpdateTyped DEF TypeOK
    <3> QED
      BY <1>14, <3>1, <3>2 DEF Verify, Raise
  <2> QED
    BY <1>14, <2>2, <2>3 DEF TypeOK, Verify
<1>15. ASSUME NEW p \in Procs, NEW a \in Attempts, InsertSession(p, a)
     PROVE  TypeOK'
  <2>1. att' = att \/ att' = [att EXCEPT ![a].lapsed = FALSE]
    BY <1>15 DEF InsertSession, Beats, LostFence
  <2>2. att' \in [Attempts -> Attempt]
    <3>1. CASE att' = att
      BY <3>1 DEF TypeOK
    <3>2. CASE att' = [att EXCEPT ![a].lapsed = FALSE]
      BY <3>2, AttemptUpdates, PhaseNames DEF TypeOK
    <3> QED
      BY <2>1, <3>1, <3>2
  <2>3. sess' \in [Attempts -> Session]
    <3>1. Staged \in Session
      BY DEF Staged, NoSession, Session, Statuses
    <3> QED
      BY <1>15, <3>1 DEF InsertSession, LostFence, TypeOK
  <2>4. proc' \in [Procs -> Collector]
    <3>1. CASE Goto(p, "bind")
      BY <3>1, GotoTyped, PcNames DEF TypeOK
    <3>2. ASSUME NEW x \in Accounts,
                 proc' = [proc EXCEPT ![p].pc = "fetch", ![p].cur = x]
          PROVE  proc' \in [Procs -> Collector]
      <4> DEFINE r == [proc[p] EXCEPT !.pc = "fetch", !.cur = x]
      <4>1. proc[p] \in Collector
        BY DEF TypeOK
      <4>2. r \in Collector
        BY <4>1, PcNames DEF Collector
      <4>3. proc' = [proc EXCEPT ![p] = r]
        BY <3>2
      <4> HIDE DEF r
      <4> QED
        BY <4>2, <4>3, UpdateTyped DEF TypeOK
    <3>3. CASE Enter(p, "fail")
      BY <3>3, EnterTyped, PcNames DEF TypeOK
    <3> QED
      BY <1>15, <3>1, <3>2, <3>3 DEF InsertSession, LostFence, Raise
  <2>5. acct' = acct
    BY <1>15 DEF InsertSession, LostFence
  <2> QED
    BY <1>15, <2>2, <2>3, <2>4, <2>5 DEF TypeOK, InsertSession
<1>16. ASSUME NEW p \in Procs, NEW a \in Attempts, BindRead(p, a)
     PROVE  TypeOK'
  <2>1. att' = att \/ att' = [att EXCEPT ![a].lapsed = FALSE]
    BY <1>16 DEF BindRead, Beats, LostFence
  <2>2. att' \in [Attempts -> Attempt]
    <3>1. CASE att' = att
      BY <3>1 DEF TypeOK
    <3>2. CASE att' = [att EXCEPT ![a].lapsed = FALSE]
      BY <3>2, AttemptUpdates, PhaseNames DEF TypeOK
    <3> QED
      BY <2>1, <3>1, <3>2
  <2>3. UNCHANGED <<sess, acct>>
    BY <1>16 DEF BindRead, LostFence
  <2>4. CASE Enter(p, "fail")
    <3>1. proc' \in [Procs -> Collector]
      BY <2>4, EnterTyped, PcNames DEF TypeOK
    <3> QED
      BY <1>16, <2>2, <2>3, <3>1 DEF TypeOK, BindRead
  <2>5. ASSUME NEW x \in proc[p].left,
               proc' = [proc EXCEPT
                 ![p].pc = "write", ![p].cur = x,
                 ![p].fresh = ~acct[x].present,
                 ![p].lives = [@ EXCEPT ![x] = acct[x].life]]
        PROVE  TypeOK'
    <3>1. proc[p] \in Collector
      BY DEF TypeOK
    <3>2. x \in Accounts
      BY <2>5, <3>1 DEF Collector
    <3>3. acct[x].present \in BOOLEAN /\ acct[x].life \in Nat
      BY <3>2 DEF TypeOK, Account
    <3> DEFINE lives == [proc[p].lives EXCEPT ![x] = acct[x].life]
               fresh == ~acct[x].present
               r == [proc[p] EXCEPT !.pc = "write", !.cur = x, !.fresh = fresh,
                                    !.lives = lives]
    <3>4. lives \in [Accounts -> Nat]
      BY <3>1, <3>2, <3>3 DEF Collector
    <3>5. fresh \in BOOLEAN
      OBVIOUS
    <3>6. proc' = [proc EXCEPT ![p] = r]
      BY <2>5
    <3> HIDE DEF lives, fresh
    <3>7. r \in Collector
      BY <3>1, <3>2, <3>4, <3>5, PcNames DEF Collector
    <3> HIDE DEF r
    <3>8. proc' \in [Procs -> Collector]
      BY <3>6, <3>7, UpdateTyped DEF TypeOK
    <3> QED
      BY <1>16, <2>2, <2>3, <3>8 DEF TypeOK, BindRead
  <2> QED
    BY <1>16, <2>4, <2>5 DEF BindRead, LostFence, Raise
<1>40. ASSUME NEW p \in Procs, NEW a \in Attempts, BindWrite(p, a)
     PROVE  TypeOK'
  <2> DEFINE x == proc[p].cur
  <2>1. UNCHANGED <<att, sess>>
    BY <1>40 DEF BindWrite
  <2>2. CASE UNCHANGED acct /\ Enter(p, "fail")
    <3>1. proc' \in [Procs -> Collector]
      BY <2>2, EnterTyped, PcNames DEF TypeOK
    <3> QED
      BY <1>40, <2>1, <2>2, <3>1 DEF TypeOK, BindWrite
  <2>3. CASE /\ acct' = [acct EXCEPT ![x] = Upserted(x, a)]
             /\ proc' = [proc EXCEPT
                  ![p].pc = "fetch",
                  ![p].lives = [@ EXCEPT ![x] = Upserted(x, a).life]]
    <3>1. proc[p] \in Collector
      BY DEF TypeOK
    <3> DEFINE lives == [proc[p].lives EXCEPT ![x] = Upserted(x, a).life]
               r == [proc[p] EXCEPT !.pc = "fetch", !.lives = lives]
    <3>2. /\ acct' \in [Accounts -> Account]
          /\ lives \in [Accounts -> Nat]
      <4>1. proc[p].lives \in [Accounts -> Nat] /\ acct \in [Accounts -> Account]
        BY <3>1 DEF Collector, TypeOK
      <4>2. CASE x \in Accounts
        <5>1. Upserted(x, a) \in Account /\ Upserted(x, a).life \in Nat
          BY <4>1, <4>2, UpsertedTyped
        <5> HIDE DEF x
        <5> QED
          BY <2>3, <4>1, <4>2, <5>1
      <4>3. CASE x \notin Accounts
        <5> HIDE DEF x
        <5>1. acct' = acct /\ lives = proc[p].lives
          BY <2>3, <4>1, <4>3
        <5> QED
          BY <4>1, <5>1
      <4> QED
        BY <4>2, <4>3
    <3>3. proc' = [proc EXCEPT ![p] = r]
      BY <2>3
    <3> HIDE DEF lives
    <3>4. r \in Collector
      BY <3>1, <3>2, PcNames DEF Collector
    <3> HIDE DEF r
    <3>5. proc' \in [Procs -> Collector]
      BY <3>3, <3>4, UpdateTyped DEF TypeOK
    <3> QED
      BY <1>40, <2>1, <3>2, <3>5 DEF TypeOK, BindWrite
  <2> QED
    BY <1>40, <2>2, <2>3 DEF BindWrite, Raise
<1>17. ASSUME NEW p \in Procs, NEW a \in Attempts, Page(p, a)
     PROVE  TypeOK'
  <2>1. att' = att \/ att' = [att EXCEPT ![a].lapsed = FALSE]
    BY <1>17 DEF Page, Beats, LostFence
  <2>2. att' \in [Attempts -> Attempt]
    <3>1. CASE att' = att
      BY <3>1 DEF TypeOK
    <3>2. CASE att' = [att EXCEPT ![a].lapsed = FALSE]
      BY <3>2, AttemptUpdates DEF TypeOK
    <3> QED
      BY <2>1, <3>1, <3>2
  <2>3. proc' \in [Procs -> Collector]
    BY <1>17, GotoTyped, EnterTyped, PcNames DEF Page, TypeOK, Raise, LostFence
  <2>4. UNCHANGED <<sess, acct>>
    BY <1>17 DEF Page, LostFence
  <2> QED
    BY <1>17, <2>1, <2>2, <2>3, <2>4 DEF TypeOK, Page
<1>18. ASSUME NEW p \in Procs, NEW a \in Attempts, Fetched(p, a)
     PROVE  TypeOK'
  <2>1. proc' \in [Procs -> Collector]
    <3>1. CASE \E ok \in BOOLEAN : AfterFetch(p, a, ok)
      BY <3>1, AfterFetchTyped DEF TypeOK
    <3>2. CASE Enter(p, "fail")
      BY <3>2, EnterTyped, PcNames DEF TypeOK
    <3>3. (/\ acct[proc[p].cur].present
           /\ acct[proc[p].cur].life = proc[p].lives[proc[p].cur]) \in BOOLEAN
      OBVIOUS
    <3> QED
      BY <1>18, <3>1, <3>2, <3>3 DEF Fetched, Raise
  <2>2. acct' \in [Accounts -> Account]
    <3> DEFINE x == proc[p].cur
    <3>1. \/ acct' = acct
          \/ \E s \in {a, Nobody} : acct' = [acct EXCEPT ![x].fetched = s]
      BY <1>18 DEF Fetched
    <3>2. ASSUME NEW s \in {a, Nobody}, acct' = [acct EXCEPT ![x].fetched = s]
          PROVE  acct' \in [Accounts -> Account]
      <4>1. \A y \in Accounts : [acct[y] EXCEPT !.fetched = s] \in Account
        BY DEF TypeOK, Account
      <4> QED
        BY <3>2, <4>1 DEF TypeOK
    <3> QED
      BY <3>1, <3>2 DEF TypeOK
  <2> QED
    BY <1>18, <2>1, <2>2 DEF TypeOK, Fetched
<1>19. ASSUME NEW p \in Procs, NEW a \in Attempts, Switch(p, a)
     PROVE  TypeOK'
  <2> DEFINE old == proc[p].prior
  <2>1. CASE UNCHANGED <<sess, acct>>
    <3>1. proc' \in [Procs -> Collector]
      <4>1. CASE proc' = [proc EXCEPT ![p].pc = "declare", ![p].short = TRUE]
        <5> DEFINE r == [proc[p] EXCEPT !.pc = "declare", !.short = TRUE]
        <5>1. proc[p] \in Collector
          BY DEF TypeOK
        <5>2. r \in Collector
          BY <5>1, PcNames DEF Collector
        <5>3. proc' = [proc EXCEPT ![p] = r]
          BY <4>1
        <5> HIDE DEF r
        <5> QED
          BY <5>2, <5>3, UpdateTyped DEF TypeOK
      <4>2. CASE Enter(p, "fail")
        BY <4>2, EnterTyped, PcNames DEF TypeOK
      <4>3. CASE Goto(p, "revoke")
        BY <4>3, GotoTyped, PcNames DEF TypeOK
      <4> QED
        BY <1>19, <4>1, <4>2, <4>3 DEF Switch, Raise
    <3> QED
      BY <1>19, <2>1, <3>1 DEF TypeOK, Switch
  <2>2. CASE /\ sess' = Switched(a, old)
             /\ acct' = Moved(a)
             /\ Goto(p, "revoke")
    <3>1. proc' \in [Procs -> Collector]
      BY <2>2, GotoTyped, PcNames DEF TypeOK
    <3>2. acct' \in [Accounts -> Account]
      <4>1. \A x \in Accounts : [acct[x] EXCEPT !.bound = a] \in Account
        BY DEF TypeOK, Account
      <4> QED
        BY <2>2, <4>1 DEF Moved
    <3>3. sess' \in [Attempts -> Session]
      <4>1. old \in Attempts
        BY <1>19 DEF Switch, At, HasPrior
      <4> QED
        BY <2>2, <4>1, SwitchedTyped DEF TypeOK
    <3> QED
      BY <1>19, <3>1, <3>2, <3>3 DEF TypeOK, Switch
  <2> QED
    BY <1>19, <2>1, <2>2 DEF Switch
<1>20. ASSUME NEW p \in Procs, NEW a \in Attempts, Revoke(p, a)
     PROVE  TypeOK'
  <2>1. PICK ok \in BOOLEAN :
          /\ Withdraw(proc[p].prior, ok)
          /\ proc' = [proc EXCEPT ![p].pc = "record", ![p].answer = ok]
    BY <1>20 DEF Revoke
  <2>2. [proc[p] EXCEPT !.pc = "record", !.answer = ok] \in Collector
    <3>1. proc[p] \in Collector
      BY DEF TypeOK
    <3> QED
      BY <3>1, PcNames DEF Collector
  <2>3. proc' = [proc EXCEPT ![p] = [proc[p] EXCEPT !.pc = "record", !.answer = ok]]
    BY <2>1
  <2>4. proc' \in [Procs -> Collector]
    BY <2>2, <2>3, UpdateTyped DEF TypeOK
  <2>5. grant' \in [Attempts -> {"none", "live", "gone"}]
    BY <2>1, WithdrawTyped DEF TypeOK
  <2> QED
    BY <1>20, <2>4, <2>5 DEF TypeOK, Revoke
<1>21. ASSUME NEW p \in Procs, NEW a \in Attempts, RecordRevocation(p, a)
     PROVE  TypeOK'
  <2>1. proc' \in [Procs -> Collector]
    BY <1>21, GotoTyped, PcNames DEF TypeOK, RecordRevocation
  <2>2. proc[p].answer \in BOOLEAN
    BY DEF TypeOK, Collector
  <2>3. sess' \in [Attempts -> Session]
    BY <1>21, <2>2, RecordedTyped DEF TypeOK, RecordRevocation
  <2> QED
    BY <1>21, <2>1, <2>3 DEF TypeOK, RecordRevocation
<1>22. ASSUME NEW p \in Procs, NEW a \in Attempts, Declare(p, a)
     PROVE  TypeOK'
  <2>1. \/ att' = att
        \/ \E outcome \in Outcomes :
             att' = [att EXCEPT ![a].outcome = outcome, ![a].lapsed = FALSE]
    <3> DEFINE short == \/ proc[p].short
                        \/ att[a].purpose = "renew"
                           /\ \E x \in Accounts : ~DeepFetched(x, a)
               outcome == IF short THEN "verified_partial" ELSE att[a].outcome
    <3>1. outcome \in Outcomes
      BY PhaseNames DEF TypeOK, Attempt
    <3>2. \/ att' = att
          \/ att' = [att EXCEPT ![a].outcome = outcome, ![a].lapsed = FALSE]
      BY <1>22 DEF Declare, LostFence, TypeOK
    <3> HIDE DEF outcome
    <3> QED
      BY <3>1, <3>2
  <2>2. att' \in [Attempts -> Attempt]
    <3>1. CASE att' = att
      BY <3>1 DEF TypeOK
    <3>2. ASSUME NEW outcome \in Outcomes,
                 att' = [att EXCEPT ![a].outcome = outcome, ![a].lapsed = FALSE]
          PROVE  att' \in [Attempts -> Attempt]
      BY <3>2, AttemptUpdates DEF TypeOK
    <3> QED
      BY <2>1, <3>1, <3>2
  <2>3. proc' \in [Procs -> Collector]
    BY <1>22, EnterTyped, PcNames DEF TypeOK, Declare, LostFence, Raise
  <2>4. UNCHANGED <<sess, acct>>
    BY <1>22 DEF Declare, LostFence
  <2> QED
    BY <1>22, <2>2, <2>3, <2>4 DEF TypeOK, Declare
<1>23. ASSUME NEW p \in Procs, NEW a \in Attempts, Tail(p, a)
     PROVE  TypeOK'
  <2>1. proc' \in [Procs -> Collector]
    BY <1>23, EnterTyped, PcNames DEF TypeOK, Tail
  <2>2. att[a].session \in BOOLEAN
    BY DEF TypeOK, Attempt
  <2>3. att' \in [Attempts -> Attempt]
    <3>1. \E phase \in Phases : SettleAs(a, phase, "other")
      BY <1>23, PhaseNames DEF Tail
    <3> QED
      BY <3>1, SettleTyped, PhaseNames DEF TypeOK
  <2>4. sess' \in [Attempts -> Session]
    <3>1. \/ sess' = ContainSession(sess, a, att[a].session)
          \/ sess' = Promoted(a)
          \/ sess' = ContainSession(Promoted(a), a, att[a].session)
      BY <1>23 DEF Tail
    <3>2. /\ ContainSession(sess, a, att[a].session) \in [Attempts -> Session]
          /\ Promoted(a) \in [Attempts -> Session]
      BY <2>2, PromotedTyped, ContainSessionTyped DEF TypeOK
    <3>3. ContainSession(Promoted(a), a, att[a].session) \in [Attempts -> Session]
      BY <2>2, <3>2, ContainSessionTyped
    <3> QED
      BY <3>1, <3>2, <3>3
  <2>5. acct' \in [Accounts -> Account]
    <3>1. \/ acct' = acct
          \/ acct' = ContainAccounts(sess, acct, a, att[a].session)
          \/ acct' = ContainAccounts(Promoted(a), acct, a, att[a].session)
      BY <1>23 DEF Tail
    <3> DEFINE isNoted == att[a].session
    <3>2. /\ ContainAccounts(sess, acct, a, isNoted) \in [Accounts -> Account]
          /\ ContainAccounts(Promoted(a), acct, a, isNoted) \in [Accounts -> Account]
      BY ContainAccountsTyped DEF TypeOK
    <3> QED
      BY <3>1, <3>2 DEF TypeOK
  <2> QED
    BY <1>23, <2>1, <2>3, <2>4, <2>5 DEF TypeOK, Tail
<1>24. ASSUME NEW p \in Procs, NEW a \in Attempts, Fail(p, a)
     PROVE  TypeOK'
  <2>1. att[a].session \in BOOLEAN
    BY <1>24 DEF Fail, TypeOK, Attempt
  <2>2. sess' \in [Attempts -> Session]
    BY <1>24, <2>1, ContainSessionTyped DEF Fail, TypeOK
  <2>3. acct' \in [Accounts -> Account]
    BY <1>24, ContainAccountsTyped DEF Fail, TypeOK
  <2>4. att' \in [Attempts -> Attempt]
    BY <1>24, SettleTyped, PhaseNames DEF Fail, TypeOK
  <2>5. proc' \in [Procs -> Collector]
    BY <1>24, EnterTyped, PcNames DEF Fail, TypeOK
  <2> QED
    BY <1>24, <2>1, <2>2, <2>3, <2>4, <2>5 DEF TypeOK, Fail
<1>25. ASSUME NEW p \in Procs, NEW a \in Attempts, Stale(p, a)
     PROVE  TypeOK'
  <2>1. proc' \in [Procs -> Collector]
    BY <1>25, StopTyped DEF Stale, TypeOK
  <2> QED
    BY <1>25, <2>1 DEF TypeOK, Stale
<1>26. ASSUME NEW a \in Attempts, Mint(a)
     PROVE  TypeOK'
  <2>1. rec' \in [Attempts -> Records]
    BY <1>26 DEF Mint, TypeOK, Records
  <2>2. att' \in [Attempts -> Attempt]
    <3>1. \E phase \in {"minted", "abandoned"} :
            \/ att' = [att EXCEPT ![a].phase = phase, ![a].purpose = "link"]
            \/ \E s \in Attempts, x \in Accounts :
                 att' = [att EXCEPT ![a].phase = phase, ![a].purpose = "renew",
                           ![a].account = x, ![a].expected = sess[s].gen]
      BY <1>26 DEF Mint, BoundTo
    <3>2. ASSUME NEW phase \in {"minted", "abandoned"},
                 att' = [att EXCEPT ![a].phase = phase, ![a].purpose = "link"]
          PROVE  att' \in [Attempts -> Attempt]
      <4>1. phase \in Phases
        BY PhaseNames
      <4>2. CollectionAssumption
        BY CollectionAssumption
      <4>3. [att EXCEPT ![a].phase = phase, ![a].purpose = "link"]
              \in [Attempts -> Attempt]
        BY <4>1, <4>2, MintTyped DEF CollectionAssumption, TypeOK
      <4> QED
        BY <3>2, <4>3
    <3>3. ASSUME NEW phase \in {"minted", "abandoned"}, NEW s \in Attempts,
                 NEW x \in Accounts,
                 att' = [att EXCEPT ![a].phase = phase, ![a].purpose = "renew",
                           ![a].account = x, ![a].expected = sess[s].gen]
          PROVE  att' \in [Attempts -> Attempt]
      <4>1. phase \in Phases
        BY PhaseNames
      <4> DEFINE g == sess[s].gen
      <4>2. g \in Nat
        BY DEF TypeOK, Session
      <4> HIDE DEF g
      <4>3. [att EXCEPT ![a].phase = phase, ![a].purpose = "renew",
                        ![a].account = x, ![a].expected = g]
              \in [Attempts -> Attempt]
        BY <4>1, <4>2, MintTyped DEF TypeOK
      <4> QED
        BY <3>3, <4>3 DEF g
    <3> QED
      BY <3>1, <3>2, <3>3
  <2> QED
    BY <1>26, <2>1, <2>2 DEF TypeOK, Mint
<1>27. ASSUME NEW a \in Attempts, Casa(a)
     PROVE  TypeOK'
  BY <1>27 DEF TypeOK, Casa, Redirect, Land, CasaEnds, Records
<1>28. ASSUME NEW a \in Attempts, Lapse(a)
     PROVE  TypeOK'
  <2>1. att' = [att EXCEPT ![a].lapsed = TRUE]
    BY <1>28 DEF Lapse
  <2>2. att' \in [Attempts -> Attempt]
    BY <2>1, AttemptUpdates DEF TypeOK
  <2> QED
    BY <1>28, <2>2 DEF TypeOK, Lapse
<1>29. ASSUME NEW p \in Procs, Crash(p)
     PROVE  TypeOK'
  <2>1. proc' \in [Procs -> Collector]
    BY <1>29, StopTyped DEF TypeOK, Crash
  <2>2. events' \in 0..MaxEvents
    BY <1>29, CollectionAssumption DEF TypeOK, Crash, Happens
  <2> QED
    BY <1>29, <2>1, <2>2 DEF TypeOK, Crash
<1>30. ASSUME NEW s \in Attempts, UnlinkCall(s)
     PROVE  TypeOK'
  <2>1. grant' \in [Attempts -> {"none", "live", "gone"}]
    BY <1>30, WithdrawTyped DEF TypeOK, UnlinkCall
  <2>2. events' \in 0..MaxEvents
    BY <1>30, CollectionAssumption DEF TypeOK, UnlinkCall, Happens
  <2>3. unlink' \in [s : Attempts \cup {Nobody}, answer : {"gone", "kept", "word"}]
    <3>1. \E answer \in {"gone", "kept", "word"} :
            unlink' = [s |-> s, answer |-> answer]
      BY <1>30 DEF UnlinkCall
    <3> QED
      BY <3>1
  <2> QED
    BY <1>30, <2>1, <2>2, <2>3 DEF TypeOK, UnlinkCall
<1>31. ASSUME NEW s \in Attempts, UnlinkWrite(s)
     PROVE  TypeOK'
  <2>1. sess' \in [Attempts -> Session]
    <3>1. "WITHDRAWN_BY_OPERATOR" \in Statuses
      BY DEF Statuses
    <3>2. (unlink.answer = "gone") \in BOOLEAN
      OBVIOUS
    <3>3. \/ sess' = Recorded(s, unlink.answer = "gone")
          \/ sess' = [sess EXCEPT ![s].status = "WITHDRAWN_BY_OPERATOR",
                                  ![s].closed = TRUE]
      BY <1>31 DEF UnlinkWrite
    <3>4. CASE sess' = Recorded(s, unlink.answer = "gone")
      BY <3>2, <3>4, RecordedTyped DEF TypeOK
    <3>5. CASE sess' = [sess EXCEPT ![s].status = "WITHDRAWN_BY_OPERATOR",
                                    ![s].closed = TRUE]
      BY <3>1, <3>5, ClosedTyped DEF TypeOK
    <3> QED
      BY <3>3, <3>4, <3>5
  <2>2. acct' \in [Accounts -> Account]
    <3>1. acct \in [Accounts -> Account]
      BY DEF TypeOK
    <3>2. [x \in Accounts |-> IF acct[x].bound = s THEN LetGo(acct[x]) ELSE acct[x]]
            \in [Accounts -> Account]
      BY <3>1, ReleasedTyped
    <3> QED
      BY <1>31, <3>1, <3>2 DEF UnlinkWrite
  <2> QED
    BY <1>31, <2>1, <2>2 DEF TypeOK, UnlinkWrite, NoUnlink
<1>32. CASE UnlinkDies
  BY <1>32 DEF TypeOK, UnlinkDies, NoUnlink
<1>33. ASSUME NEW x \in Accounts, Forget(x)
     PROVE  TypeOK'
  <2>1. att' \in [Attempts -> Attempt]
    <3>1. \A a \in Attempts :
            [att[a] EXCEPT !.phase = "erased", !.outcome = "none",
                           !.session = FALSE, !.token = Nobody,
                           !.lapsed = FALSE] \in Attempt
      <4>1. \A r \in Attempt :
              [r EXCEPT !.phase = "erased", !.outcome = "none", !.session = FALSE,
                        !.token = Nobody, !.lapsed = FALSE] \in Attempt
        BY PhaseNames DEF Attempt, Outcomes
      <4> QED
        BY <4>1 DEF TypeOK
    <3> QED
      BY <1>33, <3>1 DEF TypeOK, Forget
  <2>2. acct' \in [Accounts -> Account]
    <3>1. [NoRowYet EXCEPT !.life = acct[x].life] \in Account
      BY DEF TypeOK, Account, NoRowYet
    <3> QED
      BY <1>33, <3>1 DEF TypeOK, Forget
  <2>3. events' \in 0..MaxEvents
    <3>1. events \in 0..MaxEvents /\ Happens("forget")
      BY <1>33 DEF TypeOK, Forget
    <3> QED
      BY <3>1, CountTyped
  <2> QED
    BY <1>33, <2>1, <2>2, <2>3 DEF TypeOK, Forget
<1>34. CASE UNCHANGED vars
  BY <1>34 DEF TypeOK
<1> QED
  BY <1>1, <1>2, <1>3, <1>4, <1>5, <1>6, <1>7, <1>8, <1>9, <1>10, <1>11,
     <1>12, <1>13, <1>14, <1>15, <1>16, <1>17, <1>18, <1>19, <1>20, <1>21,
     <1>22, <1>23, <1>24, <1>25, <1>26, <1>27, <1>28, <1>29, <1>30, <1>31,
     <1>32, <1>33, <1>34, <1>40 DEF Next, Pass, Exchange, Settle

-----------------------------------------------------------------------------
(* What a step does to one row of the attempts table.                     *)

\* Every other row stays as it is.
Others(a) == \A b \in Attempts \ {a} : att'[b] = att[b]

SameAttempt(a) == /\ att'[a].purpose = att[a].purpose
                  /\ att'[a].account = att[a].account

\* No decision: the lease stays or is given up.
Retained(a) == /\ SameAttempt(a) /\ att'[a].phase = att[a].phase
               /\ att'[a].token \in {att[a].token, Nobody}

\* A process takes the lease of an attempt there is to collect.
Taken(a) == /\ SameAttempt(a) /\ att'[a].phase = att[a].phase
            /\ att'[a].token \in Procs /\ Row(a)

\* A settlement, which gives up the lease.
Decided(a) == /\ SameAttempt(a) /\ Row(a)
              /\ att'[a].phase \in SETTLED_PHASES /\ att'[a].token = Nobody

\* The exchange begins, under the lease.
Begun(a) == /\ SameAttempt(a) /\ att[a].phase = "minted"
            /\ att'[a].phase = "exchange_started"
            /\ att'[a].token = att[a].token

RowStep ==
  \/ att' = att
  \/ \E x \in Accounts : Forget(x)
  \/ \E a \in Attempts :
       Others(a) /\ (Retained(a) \/ Taken(a) \/ Decided(a) \/ Begun(a) \/ Mint(a))

\* The lease is free where there is no attempt to collect.
NoLease ==
  \A a \in Attempts : att[a].phase \in {"none", "erased"} => att[a].token = Nobody

LEMMA SettleEffect ==
  ASSUME att \in [Attempts -> Attempt], NEW a \in Attempts,
         NEW phase, NEW outcome, SettleAs(a, phase, outcome)
  PROVE  /\ Others(a) /\ SameAttempt(a)
         /\ att'[a].phase = phase /\ att'[a].token = Nobody
BY DEF SettleAs, Others, SameAttempt, Attempt

LEMMA FreeEffect ==
  ASSUME att \in [Attempts -> Attempt], NEW a \in Attempts, att' = Free(a)
  PROVE  Others(a) /\ Retained(a)
BY DEF Free, Others, Retained, SameAttempt, Attempt

LEMMA StampEffect ==
  ASSUME att \in [Attempts -> Attempt], NEW a \in Attempts, NEW v, NEW flag,
         \/ att' = [att EXCEPT ![a].lapsed = flag]
         \/ att' = [att EXCEPT ![a].session = v, ![a].lapsed = flag]
         \/ att' = [att EXCEPT ![a].outcome = v, ![a].lapsed = flag]
  PROVE  Others(a) /\ Retained(a)
<1>1. CASE att' = [att EXCEPT ![a].lapsed = flag]
  BY <1>1 DEF Others, Retained, SameAttempt, Attempt
<1>2. CASE att' = [att EXCEPT ![a].session = v, ![a].lapsed = flag]
  BY <1>2 DEF Others, Retained, SameAttempt, Attempt
<1>3. CASE att' = [att EXCEPT ![a].outcome = v, ![a].lapsed = flag]
  BY <1>3 DEF Others, Retained, SameAttempt, Attempt
<1> QED
  BY <1>1, <1>2, <1>3

LEMMA TakeEffect ==
  ASSUME att \in [Attempts -> Attempt], NEW a \in Attempts, NEW p \in Procs,
         Row(a), att' = [att EXCEPT ![a].token = p, ![a].lapsed = FALSE]
  PROVE  Others(a) /\ Taken(a)
BY DEF Others, Taken, SameAttempt, Attempt

LEMMA BeginEffect ==
  ASSUME att \in [Attempts -> Attempt], NEW a \in Attempts,
         att[a].phase = "minted",
         att' = [att EXCEPT ![a].phase = "exchange_started", ![a].lapsed = FALSE]
  PROVE  Others(a) /\ Begun(a)
BY DEF Others, Begun, SameAttempt, Attempt

LEMMA LeasedRow ==
  ASSUME TypeOK, NoLease, NEW p \in Procs, NEW a \in Attempts, Holds(p, a)
  PROVE  Row(a)
BY CollectionAssumption DEF CollectionAssumption, NoLease, Holds, Row

LEMMA RowSteps ==
  ASSUME TypeOK, NoLease, [Next]_vars
  PROVE  RowStep
<1> USE DEF vars, db, casa, bank
<1>1. ASSUME NEW p \in Procs, NEW a \in Attempts, Read(p, a)
     PROVE  RowStep
  BY <1>1 DEF Read, RowStep
<1>2. ASSUME NEW p \in Procs, NEW a \in Attempts, Vanished(p, a)
     PROVE  RowStep
  BY <1>2 DEF Vanished, RowStep
<1>3. ASSUME NEW p \in Procs, NEW a \in Attempts, Ack(p, a)
     PROVE  RowStep
  BY <1>3 DEF Ack, RowStep
<1>4. ASSUME NEW p \in Procs, NEW a \in Attempts, Post(p, a)
     PROVE  RowStep
  BY <1>4 DEF Post, RowStep
<1>5. ASSUME NEW p \in Procs, NEW a \in Attempts, Fetched(p, a)
     PROVE  RowStep
  BY <1>5 DEF Fetched, RowStep
<1>6. ASSUME NEW p \in Procs, NEW a \in Attempts, Switch(p, a)
     PROVE  RowStep
  BY <1>6 DEF Switch, RowStep
<1>7. ASSUME NEW p \in Procs, NEW a \in Attempts, Revoke(p, a)
     PROVE  RowStep
  BY <1>7 DEF Revoke, RowStep
<1>8. ASSUME NEW p \in Procs, NEW a \in Attempts, RecordRevocation(p, a)
     PROVE  RowStep
  BY <1>8 DEF RecordRevocation, RowStep
<1>9. ASSUME NEW p \in Procs, NEW a \in Attempts, Stale(p, a)
     PROVE  RowStep
  BY <1>9 DEF Stale, RowStep
<1>10. ASSUME NEW p \in Procs, NEW a \in Attempts, AckAgain(p, a)
     PROVE  RowStep
  BY <1>10, FreeEffect DEF AckAgain, RowStep, TypeOK
<1>11. ASSUME NEW p \in Procs, NEW a \in Attempts, NotYet(p, a)
     PROVE  RowStep
  BY <1>11, FreeEffect DEF NotYet, RowStep, TypeOK
<1>12. ASSUME NEW p \in Procs, NEW a \in Attempts, Abandon(p, a)
     PROVE  RowStep
  <2>1. Row(a)
    BY <1>12, LeasedRow DEF Abandon, Held
  <2>2. \E phase \in SETTLED_PHASES : SettleAs(a, phase, "other")
    BY <1>12 DEF Abandon, SETTLED_PHASES
  <2>3. Others(a) /\ Decided(a)
    BY <2>1, <2>2, SettleEffect DEF Decided, TypeOK
  <2> QED
    BY <2>3 DEF RowStep
<1>13. ASSUME NEW p \in Procs, NEW a \in Attempts, CasaEnded(p, a)
     PROVE  RowStep
  <2>1. Row(a)
    BY <1>13, LeasedRow DEF CasaEnded, Held
  <2>2. \E phase \in SETTLED_PHASES : SettleAs(a, phase, "other")
    BY <1>13 DEF CasaEnded, SETTLED_PHASES
  <2>3. Others(a) /\ Decided(a)
    BY <2>1, <2>2, SettleEffect DEF Decided, TypeOK
  <2> QED
    BY <2>3 DEF RowStep
<1>14. ASSUME NEW p \in Procs, NEW a \in Attempts, Discard(p, a)
     PROVE  RowStep
  <2>1. Row(a)
    BY <1>14, LeasedRow DEF Discard, Published, Held
  <2>2. \E phase \in SETTLED_PHASES : SettleAs(a, phase, "other")
    BY <1>14 DEF Discard, SETTLED_PHASES
  <2>3. Others(a) /\ Decided(a)
    BY <2>1, <2>2, SettleEffect DEF Decided, TypeOK
  <2> QED
    BY <2>3 DEF RowStep
<1>15. ASSUME NEW p \in Procs, NEW a \in Attempts, Interrupted(p, a)
     PROVE  RowStep
  <2>1. Row(a)
    BY <1>15, LeasedRow DEF Interrupted, Published, Held
  <2>2. \E phase \in SETTLED_PHASES : SettleAs(a, phase, "other")
    BY <1>15 DEF Interrupted, SETTLED_PHASES
  <2>3. Others(a) /\ Decided(a)
    BY <2>1, <2>2, SettleEffect DEF Decided, TypeOK
  <2> QED
    BY <2>3 DEF RowStep
<1>16. ASSUME NEW p \in Procs, NEW a \in Attempts, Tail(p, a)
     PROVE  RowStep
  <2>1. Row(a)
    BY <1>16, LeasedRow DEF Tail
  <2>2. \E phase \in SETTLED_PHASES : SettleAs(a, phase, "other")
    BY <1>16 DEF Tail, SETTLED_PHASES
  <2>3. Others(a) /\ Decided(a)
    BY <2>1, <2>2, SettleEffect DEF Decided, TypeOK
  <2> QED
    BY <2>3 DEF RowStep
<1>17. ASSUME NEW p \in Procs, NEW a \in Attempts, Fail(p, a)
     PROVE  RowStep
  <2>1. Row(a)
    BY <1>17, LeasedRow DEF Fail
  <2>2. \E phase \in SETTLED_PHASES : SettleAs(a, phase, "other")
    BY <1>17 DEF Fail, SETTLED_PHASES
  <2>3. Others(a) /\ Decided(a)
    BY <2>1, <2>2, SettleEffect DEF Decided, TypeOK
  <2> QED
    BY <2>3 DEF RowStep
<1>18. ASSUME NEW p \in Procs, NEW a \in Attempts, Begin(p, a)
     PROVE  RowStep
  <2>1. Row(a)
    BY <1>18, LeasedRow DEF Begin, Published, Held
  <2>2. att[a].phase = "minted"
    BY <1>18, <2>1 DEF Begin, Published, Undecided, Row, Began, TypeOK, Attempt,
                     Phases
  <2>3. Others(a) /\ Begun(a)
    BY <1>18, <2>2, BeginEffect DEF Begin, TypeOK
  <2> QED
    BY <2>3 DEF RowStep
<1>19. ASSUME NEW p \in Procs, NEW a \in Attempts, Take(p, a)
     PROVE  RowStep
  <2>1. CASE att' = att
    BY <2>1 DEF RowStep
  <2>2. CASE Row(a) /\ att' = [att EXCEPT ![a].token = p, ![a].lapsed = FALSE]
    BY <2>2, TakeEffect DEF RowStep, TypeOK
  <2> QED
    BY <1>19, <2>1, <2>2 DEF Take, Takeable
<1>20. ASSUME NEW p \in Procs, NEW a \in Attempts, Note(p, a)
     PROVE  RowStep
  <2>1. CASE att' = att
    BY <2>1 DEF RowStep
  <2>2. CASE \E v, flag : \/ att' = [att EXCEPT ![a].lapsed = flag]
                          \/ att' = [att EXCEPT ![a].session = v, ![a].lapsed = flag]
    BY <2>2, StampEffect DEF RowStep, TypeOK
  <2> QED
    BY <1>20, <2>1, <2>2 DEF Note, LostFence
<1>21. ASSUME NEW p \in Procs, NEW a \in Attempts, Verify(p, a)
     PROVE  RowStep
  <2>1. CASE att' = att
    BY <2>1 DEF RowStep
  <2>2. CASE \E v, flag : \/ att' = [att EXCEPT ![a].lapsed = flag]
                          \/ att' = [att EXCEPT ![a].outcome = v, ![a].lapsed = flag]
    BY <2>2, StampEffect DEF RowStep, TypeOK
  <2> QED
    BY <1>21, <2>1, <2>2 DEF Verify, Beats
<1>22. ASSUME NEW p \in Procs, NEW a \in Attempts, InsertSession(p, a)
     PROVE  RowStep
  <2>1. CASE att' = att
    BY <2>1 DEF RowStep
  <2>2. CASE \E v, flag : \/ att' = [att EXCEPT ![a].lapsed = flag]
                          \/ att' = [att EXCEPT ![a].outcome = v, ![a].lapsed = flag]
    BY <2>2, StampEffect DEF RowStep, TypeOK
  <2> QED
    BY <1>22, <2>1, <2>2 DEF InsertSession, Beats, LostFence
<1>23. ASSUME NEW p \in Procs, NEW a \in Attempts, BindRead(p, a)
     PROVE  RowStep
  <2>1. CASE att' = att
    BY <2>1 DEF RowStep
  <2>2. CASE \E v, flag : \/ att' = [att EXCEPT ![a].lapsed = flag]
                          \/ att' = [att EXCEPT ![a].outcome = v, ![a].lapsed = flag]
    BY <2>2, StampEffect DEF RowStep, TypeOK
  <2> QED
    BY <1>23, <2>1, <2>2 DEF BindRead, Beats, LostFence
<1>40. ASSUME NEW p \in Procs, NEW a \in Attempts, BindWrite(p, a)
     PROVE  RowStep
  BY <1>40 DEF BindWrite, RowStep
<1>24. ASSUME NEW p \in Procs, NEW a \in Attempts, Page(p, a)
     PROVE  RowStep
  <2>1. CASE att' = att
    BY <2>1 DEF RowStep
  <2>2. CASE \E v, flag : \/ att' = [att EXCEPT ![a].lapsed = flag]
                          \/ att' = [att EXCEPT ![a].outcome = v, ![a].lapsed = flag]
    BY <2>2, StampEffect DEF RowStep, TypeOK
  <2> QED
    BY <1>24, <2>1, <2>2 DEF Page, Beats, LostFence
<1>25. ASSUME NEW p \in Procs, NEW a \in Attempts, Declare(p, a)
     PROVE  RowStep
  <2>1. CASE att' = att
    BY <2>1 DEF RowStep
  <2>2. CASE \E v, flag : \/ att' = [att EXCEPT ![a].lapsed = flag]
                          \/ att' = [att EXCEPT ![a].outcome = v, ![a].lapsed = flag]
    BY <2>2, StampEffect DEF RowStep, TypeOK
  <2> QED
    BY <1>25, <2>1, <2>2 DEF Declare, LostFence
<1>26. ASSUME NEW a \in Attempts, Mint(a)
     PROVE  RowStep
  <2>1. Others(a)
    BY <1>26 DEF Mint, Others, TypeOK
  <2> QED
    BY <1>26, <2>1 DEF RowStep
<1>27. ASSUME NEW a \in Attempts, Casa(a)
     PROVE  RowStep
  BY <1>27 DEF Casa, Redirect, Land, CasaEnds, RowStep
<1>28. ASSUME NEW a \in Attempts, Lapse(a)
     PROVE  RowStep
  BY <1>28, StampEffect DEF Lapse, RowStep, TypeOK
<1>29. ASSUME NEW a \in Attempts, UnlinkCall(a)
     PROVE  RowStep
  BY <1>29 DEF UnlinkCall, RowStep
<1>30. ASSUME NEW a \in Attempts, UnlinkWrite(a)
     PROVE  RowStep
  BY <1>30 DEF UnlinkWrite, RowStep
<1>31. ASSUME NEW p \in Procs, Crash(p)
     PROVE  RowStep
  BY <1>31 DEF Crash, RowStep
<1>32. CASE UnlinkDies
  BY <1>32 DEF UnlinkDies, RowStep
<1>33. ASSUME NEW x \in Accounts, Forget(x)
     PROVE  RowStep
  BY <1>33 DEF RowStep
<1>34. CASE UNCHANGED vars
  BY <1>34 DEF RowStep
<1> QED
  BY <1>1, <1>2, <1>3, <1>4, <1>5, <1>6, <1>7, <1>8, <1>9, <1>10, <1>11,
     <1>12, <1>13, <1>14, <1>15, <1>16, <1>17, <1>18, <1>19, <1>20, <1>21,
     <1>22, <1>23, <1>24, <1>25, <1>26, <1>27, <1>28, <1>29, <1>30, <1>31,
     <1>32, <1>33, <1>34, <1>40 DEF Next, Pass, Exchange, Settle

-----------------------------------------------------------------------------
(* What a step does to a collector.                                        *)

\* Every other process stays where it is.
Still(p) == \A q \in Procs \ {p} : proc'[q] = proc[q]

\* What p does next, when it does something.
Moves(p) ==
  \/ proc'[p].pc = "idle"
  \/ /\ proc'[p].pc = "read" /\ proc'[p].a \in Attempts
     /\ att[proc'[p].a].phase # "none"
  \/ /\ proc[p].pc # "idle" /\ proc'[p].a = proc[p].a
     /\ \/ proc'[p].pc \in {"held", "note", "verify", "revoke", "record",
                            "declare", "tail", "fail"}
        \/ proc'[p].pc = "ack" /\ att'[proc[p].a].phase \in SETTLED_PHASES
        \/ /\ proc'[p].pc = "post"
           /\ Holds(p, proc[p].a) /\ att[proc[p].a].phase = "minted"
           /\ att'[proc[p].a].phase = "exchange_started"
        \/ /\ proc'[p].pc \in {"insert", "bind", "write", "fetch", "page"}
           /\ att[proc[p].a].purpose = "renew" => proc'[p].prior \in Attempts
        \/ proc'[p].pc = "switch" /\ proc'[p].prior \in Attempts

ProcStep == proc' = proc \/ \E p \in Procs : Still(p) /\ Moves(p)

LEMMA GotoEffect ==
  ASSUME proc \in [Procs -> Collector], NEW p \in Procs, NEW pc, Goto(p, pc)
  PROVE  /\ Still(p)
         /\ proc'[p].pc = pc /\ proc'[p].a = proc[p].a
         /\ proc'[p].prior = proc[p].prior
BY DEF Goto, Still, Collector

LEMMA EnterEffect ==
  ASSUME proc \in [Procs -> Collector], NEW p \in Procs, NEW pc, Enter(p, pc)
  PROVE  Still(p) /\ proc'[p].pc = pc /\ proc'[p].a = proc[p].a
BY DEF Enter, Idle, Still

LEMMA StopEffect ==
  ASSUME proc \in [Procs -> Collector], NEW p \in Procs, Stop(p)
  PROVE  Still(p) /\ proc'[p].pc = "idle"
BY DEF Stop, Idle, Still

LEMMA AfterFetchEffect ==
  ASSUME proc \in [Procs -> Collector], NEW p \in Procs, NEW a, NEW ok,
         AfterFetch(p, a, ok)
  PROVE  /\ Still(p)
         /\ proc'[p].a = proc[p].a /\ proc'[p].prior = proc[p].prior
         /\ \/ proc'[p].pc \in {"bind", "fetch", "declare"}
            \/ proc'[p].pc = "switch" /\ att[a].purpose = "renew"
<1> DEFINE rest == proc[p].left \ {proc[p].cur}
           isShort == proc[p].short \/ ~ok
           on(pc, x) == [proc[p] EXCEPT !.pc = pc, !.left = rest, !.cur = x,
                                        !.short = isShort]
<1>1. \A pc, x : /\ on(pc, x).pc = pc /\ on(pc, x).a = proc[p].a
                 /\ on(pc, x).prior = proc[p].prior
  BY DEF Collector
<1>2. \E pc, x : /\ proc' = [proc EXCEPT ![p] = on(pc, x)]
                 /\ \/ pc \in {"bind", "fetch", "declare"}
                    \/ pc = "switch" /\ att[a].purpose = "renew"
  BY DEF AfterFetch
<1> HIDE DEF on
<1> QED
  BY <1>1, <1>2 DEF Still

LEMMA BindReadEffect ==
  ASSUME TypeOK, NEW p \in Procs, NEW a \in Attempts, BindRead(p, a)
  PROVE  \/ Enter(p, "fail")
         \/ /\ Still(p) /\ proc'[p].pc = "write" /\ proc'[p].a = proc[p].a
            /\ proc'[p].prior = proc[p].prior /\ proc'[p].left = proc[p].left
            /\ proc'[p].cur \in proc[p].left
            /\ att' = [att EXCEPT ![a].lapsed = FALSE] /\ acct' = acct
<1>1. CASE Raise(p)
  BY <1>1 DEF Raise
<1>2. ASSUME NEW x \in proc[p].left, NEW f, NEW fresh,
             proc' = [proc EXCEPT ![p].pc = "write", ![p].cur = x,
                                  ![p].fresh = fresh, ![p].lives = f]
      PROVE  /\ Still(p) /\ proc'[p].pc = "write" /\ proc'[p].a = proc[p].a
             /\ proc'[p].prior = proc[p].prior /\ proc'[p].left = proc[p].left
             /\ proc'[p].cur = x
  BY <1>2 DEF Still, TypeOK, Collector
<1>3. CASE ~Raise(p)
  <2>1. PICK x \in proc[p].left :
          /\ att' = [att EXCEPT ![a].lapsed = FALSE] /\ acct' = acct
          /\ proc' = [proc EXCEPT ![p].pc = "write", ![p].cur = x,
                       ![p].fresh = ~acct[x].present,
                       ![p].lives = [proc[p].lives EXCEPT ![x] = acct[x].life]]
    BY <1>3 DEF BindRead, LostFence, Beats
  <2> DEFINE f == [proc[p].lives EXCEPT ![x] = acct[x].life]
             fresh == ~acct[x].present
  <2>2. proc' = [proc EXCEPT ![p].pc = "write", ![p].cur = x,
                             ![p].fresh = fresh, ![p].lives = f]
    BY <2>1
  <2> HIDE DEF f, fresh
  <2>3. /\ Still(p) /\ proc'[p].pc = "write" /\ proc'[p].a = proc[p].a
        /\ proc'[p].prior = proc[p].prior /\ proc'[p].left = proc[p].left
        /\ proc'[p].cur = x
    BY <1>2, <2>2
  <2> QED
    BY <2>1, <2>3
<1> QED
  BY <1>1, <1>3

LEMMA BindWriteEffect ==
  ASSUME TypeOK, NEW p \in Procs, NEW a \in Attempts, BindWrite(p, a)
  PROVE  \/ Enter(p, "fail")
         \/ /\ Still(p) /\ proc'[p].pc = "fetch" /\ proc'[p].a = proc[p].a
            /\ proc'[p].prior = proc[p].prior /\ proc'[p].left = proc[p].left
            /\ proc'[p].cur = proc[p].cur
            /\ acct' = [acct EXCEPT ![proc[p].cur] = Upserted(proc[p].cur, a)]
<1>1. CASE Raise(p)
  BY <1>1 DEF Raise
<1>2. ASSUME NEW f, proc' = [proc EXCEPT ![p].pc = "fetch", ![p].lives = f]
      PROVE  /\ Still(p) /\ proc'[p].pc = "fetch" /\ proc'[p].a = proc[p].a
             /\ proc'[p].prior = proc[p].prior /\ proc'[p].left = proc[p].left
             /\ proc'[p].cur = proc[p].cur
  BY <1>2 DEF Still, TypeOK, Collector
<1>3. CASE ~Raise(p)
  <2> DEFINE x == proc[p].cur
             f == [proc[p].lives EXCEPT ![x] = Upserted(x, a).life]
  <2>1. /\ acct' = [acct EXCEPT ![x] = Upserted(x, a)]
        /\ proc' = [proc EXCEPT ![p].pc = "fetch", ![p].lives = f]
    BY <1>3 DEF BindWrite
  <2> HIDE DEF f
  <2> QED
    BY <1>2, <2>1
<1> QED
  BY <1>1, <1>3

LEMMA ProcSteps ==
  ASSUME TypeOK, Fenced, HasPrior, NoLease, [Next]_vars
  PROVE  ProcStep
<1> USE DEF vars, db, casa, bank
<1>1. ASSUME NEW p \in Procs, NEW a \in Attempts, Read(p, a)
     PROVE  ProcStep
  <2>1. Still(p) /\ proc'[p].pc = "read" /\ proc'[p].a = a
    BY <1>1 DEF Read, Idle, Still, TypeOK
  <2> QED
    BY <1>1, <2>1 DEF Read, Row, Moves, ProcStep
<1>2. ASSUME NEW p \in Procs, NEW a \in Attempts, Vanished(p, a)
     PROVE  ProcStep
  BY <1>2, StopEffect DEF Vanished, TypeOK, Moves, ProcStep
<1>3. ASSUME NEW p \in Procs, NEW a \in Attempts, Ack(p, a)
     PROVE  ProcStep
  BY <1>3, StopEffect DEF Ack, TypeOK, Moves, ProcStep
<1>4. ASSUME NEW p \in Procs, NEW a \in Attempts, Stale(p, a)
     PROVE  ProcStep
  BY <1>4, StopEffect DEF Stale, TypeOK, Moves, ProcStep
<1>5. ASSUME NEW p \in Procs, NEW a \in Attempts, NotYet(p, a)
     PROVE  ProcStep
  BY <1>5, StopEffect DEF NotYet, TypeOK, Moves, ProcStep
<1>6. ASSUME NEW p \in Procs, NEW a \in Attempts, AckAgain(p, a)
     PROVE  ProcStep
  <2>1. Retained(a)
    BY <1>6, FreeEffect DEF AckAgain, TypeOK
  <2>2. Still(p) /\ proc'[p].pc = "ack" /\ proc'[p].a = proc[p].a
    BY <1>6, EnterEffect DEF AckAgain, TypeOK
  <2> QED
    BY <1>6, <2>1, <2>2 DEF AckAgain, Held, Undecided, Retained, Moves, ProcStep
<1>7. ASSUME NEW p \in Procs, NEW a \in Attempts, Abandon(p, a)
     PROVE  ProcStep
  <2>1. \E phase \in SETTLED_PHASES : SettleAs(a, phase, "other")
    BY <1>7 DEF Abandon, SETTLED_PHASES
  <2>2. att'[a].phase \in SETTLED_PHASES
    BY <2>1, SettleEffect DEF TypeOK
  <2>3. Still(p) /\ proc'[p].pc = "ack" /\ proc'[p].a = proc[p].a
    BY <1>7, EnterEffect DEF Abandon, TypeOK
  <2> QED
    BY <1>7, <2>2, <2>3 DEF Abandon, Held, Moves, ProcStep
<1>8. ASSUME NEW p \in Procs, NEW a \in Attempts, CasaEnded(p, a)
     PROVE  ProcStep
  <2>1. \E phase \in SETTLED_PHASES : SettleAs(a, phase, "other")
    BY <1>8 DEF CasaEnded, SETTLED_PHASES
  <2>2. att'[a].phase \in SETTLED_PHASES
    BY <2>1, SettleEffect DEF TypeOK
  <2>3. Still(p) /\ proc'[p].pc = "ack" /\ proc'[p].a = proc[p].a
    BY <1>8, EnterEffect DEF CasaEnded, TypeOK
  <2> QED
    BY <1>8, <2>2, <2>3 DEF CasaEnded, Held, Moves, ProcStep
<1>9. ASSUME NEW p \in Procs, NEW a \in Attempts, Discard(p, a)
     PROVE  ProcStep
  <2>1. \E phase \in SETTLED_PHASES : SettleAs(a, phase, "other")
    BY <1>9 DEF Discard, SETTLED_PHASES
  <2>2. att'[a].phase \in SETTLED_PHASES
    BY <2>1, SettleEffect DEF TypeOK
  <2>3. Still(p) /\ proc'[p].pc = "ack" /\ proc'[p].a = proc[p].a
    BY <1>9, EnterEffect DEF Discard, TypeOK
  <2> QED
    BY <1>9, <2>2, <2>3 DEF Discard, Published, Held, Moves, ProcStep
<1>10. ASSUME NEW p \in Procs, NEW a \in Attempts, Interrupted(p, a)
     PROVE  ProcStep
  <2>1. \E phase \in SETTLED_PHASES : SettleAs(a, phase, "other")
    BY <1>10 DEF Interrupted, SETTLED_PHASES
  <2>2. att'[a].phase \in SETTLED_PHASES
    BY <2>1, SettleEffect DEF TypeOK
  <2>3. Still(p) /\ proc'[p].pc = "ack" /\ proc'[p].a = proc[p].a
    BY <1>10, EnterEffect DEF Interrupted, TypeOK
  <2> QED
    BY <1>10, <2>2, <2>3 DEF Interrupted, Published, Held, Moves, ProcStep
<1>11. ASSUME NEW p \in Procs, NEW a \in Attempts, Tail(p, a)
     PROVE  ProcStep
  <2>1. \E phase \in SETTLED_PHASES : SettleAs(a, phase, "other")
    BY <1>11 DEF Tail, SETTLED_PHASES
  <2>2. att'[a].phase \in SETTLED_PHASES
    BY <2>1, SettleEffect DEF TypeOK
  <2>3. Still(p) /\ proc'[p].pc = "ack" /\ proc'[p].a = proc[p].a
    BY <1>11, EnterEffect DEF Tail, TypeOK
  <2> QED
    BY <1>11, <2>2, <2>3 DEF Tail, At, Moves, ProcStep
<1>12. ASSUME NEW p \in Procs, NEW a \in Attempts, Fail(p, a)
     PROVE  ProcStep
  <2>1. \E phase \in SETTLED_PHASES : SettleAs(a, phase, "other")
    BY <1>12 DEF Fail, SETTLED_PHASES
  <2>2. att'[a].phase \in SETTLED_PHASES
    BY <2>1, SettleEffect DEF TypeOK
  <2>3. Still(p) /\ proc'[p].pc = "ack" /\ proc'[p].a = proc[p].a
    BY <1>12, EnterEffect DEF Fail, TypeOK
  <2> QED
    BY <1>12, <2>2, <2>3 DEF Fail, At, Moves, ProcStep
<1>13. ASSUME NEW p \in Procs, NEW a \in Attempts, Begin(p, a)
     PROVE  ProcStep
  <2>1. Row(a)
    BY <1>13, LeasedRow DEF Begin, Published, Held
  <2>2. att[a].phase = "minted"
    BY <1>13, <2>1 DEF Begin, Published, Undecided, Row, Began, TypeOK, Attempt,
                     Phases
  <2>3. Begun(a)
    BY <1>13, <2>2, BeginEffect DEF Begin, TypeOK
  <2>4. Still(p) /\ proc'[p].pc = "post" /\ proc'[p].a = proc[p].a
    BY <1>13, EnterEffect DEF Begin, TypeOK
  <2> QED
    BY <1>13, <2>3, <2>4 DEF Begin, Published, Held, Begun, Moves, ProcStep
<1>14. ASSUME NEW p \in Procs, NEW a \in Attempts, Take(p, a)
     PROVE  ProcStep
  BY <1>14, GotoEffect, StopEffect DEF Take, TypeOK, Moves, ProcStep
<1>15. ASSUME NEW p \in Procs, NEW a \in Attempts, Post(p, a)
     PROVE  ProcStep
  BY <1>15, GotoEffect, EnterEffect DEF Post, At, Raise, LostFence, TypeOK, Moves,
     ProcStep
<1>16. ASSUME NEW p \in Procs, NEW a \in Attempts, Note(p, a)
     PROVE  ProcStep
  BY <1>16, GotoEffect, EnterEffect DEF Note, At, Raise, LostFence, TypeOK, Moves,
     ProcStep
<1>17. ASSUME NEW p \in Procs, NEW a \in Attempts, Verify(p, a)
     PROVE  ProcStep
  <2> DEFINE s == IF att[a].purpose = "renew"
                  THEN acct[att[a].account].bound ELSE Nobody
             f == [x \in Accounts |-> acct[x].life]
  <2>1. CASE /\ att[a].purpose = "renew" => MayRenew(a)
             /\ proc' = [proc EXCEPT ![p].pc = "insert", ![p].left = Accounts,
                                     ![p].prior = s, ![p].lives = f]
    <3>1. att[a].purpose = "renew" => s \in Attempts
      BY <2>1 DEF MayRenew, Fenced, TypeOK, Account
    <3> HIDE DEF s, f
    <3>2. /\ Still(p) /\ proc'[p].pc = "insert" /\ proc'[p].a = proc[p].a
          /\ proc'[p].prior = s
      BY <2>1 DEF Still, TypeOK, Collector
    <3> QED
      BY <1>17, <3>1, <3>2 DEF Verify, At, Moves, ProcStep
  <2>2. CASE Enter(p, "tail") \/ Enter(p, "fail")
    BY <1>17, <2>2, EnterEffect DEF Verify, At, TypeOK, Moves, ProcStep
  <2> QED
    BY <1>17, <2>1, <2>2 DEF Verify, Raise
<1>18. ASSUME NEW p \in Procs, NEW a \in Attempts, InsertSession(p, a)
     PROVE  ProcStep
  <2>1. att[a].purpose = "renew" => proc[p].prior \in Attempts
    BY <1>18 DEF InsertSession, At, HasPrior
  <2>2. CASE Goto(p, "bind")
    BY <1>18, <2>1, <2>2, GotoEffect DEF InsertSession, At, TypeOK, Moves, ProcStep
  <2>3. CASE Enter(p, "fail")
    BY <1>18, <2>3, EnterEffect DEF InsertSession, At, TypeOK, Moves, ProcStep
  <2>4. ASSUME NEW x \in Accounts,
               proc' = [proc EXCEPT ![p].pc = "fetch", ![p].cur = x]
        PROVE  ProcStep
    <3>1. /\ Still(p) /\ proc'[p].pc = "fetch" /\ proc'[p].a = proc[p].a
          /\ proc'[p].prior = proc[p].prior
      BY <2>4 DEF Still, TypeOK, Collector
    <3> QED
      BY <1>18, <2>1, <3>1 DEF InsertSession, At, Moves, ProcStep
  <2> QED
    BY <1>18, <2>2, <2>3, <2>4 DEF InsertSession, LostFence, Raise
<1>19. ASSUME NEW p \in Procs, NEW a \in Attempts,
              BindRead(p, a) \/ BindWrite(p, a)
     PROVE  ProcStep
  <2>1. /\ proc[p].pc \in {"bind", "write"} /\ proc[p].a = a
        /\ att[a].purpose = "renew" => proc[p].prior \in Attempts
    BY <1>19 DEF BindRead, BindWrite, At, HasPrior
  <2>2. CASE Enter(p, "fail")
    BY <2>1, <2>2, EnterEffect DEF TypeOK, Moves, ProcStep
  <2>3. ASSUME NEW pc \in {"write", "fetch"}, Still(p), proc'[p].pc = pc,
               proc'[p].a = proc[p].a, proc'[p].prior = proc[p].prior
        PROVE  ProcStep
    BY <2>1, <2>3 DEF Moves, ProcStep
  <2>4. CASE BindRead(p, a)
    BY <2>2, <2>3, <2>4, BindReadEffect
  <2>5. CASE BindWrite(p, a)
    BY <2>2, <2>3, <2>5, BindWriteEffect
  <2> QED
    BY <1>19, <2>4, <2>5
<1>20. ASSUME NEW p \in Procs, NEW a \in Attempts, Page(p, a)
     PROVE  ProcStep
  <2>1. att[a].purpose = "renew" => proc[p].prior \in Attempts
    BY <1>20 DEF Page, At, HasPrior
  <2> QED
    BY <1>20, <2>1, GotoEffect, EnterEffect
       DEF Page, At, LostFence, Raise, TypeOK, Moves, ProcStep
<1>21. ASSUME NEW p \in Procs, NEW a \in Attempts, Fetched(p, a)
     PROVE  ProcStep
  <2>1. att[a].purpose = "renew" => proc[p].prior \in Attempts
    BY <1>21 DEF Fetched, At, HasPrior
  <2>2. CASE Enter(p, "fail")
    BY <1>21, <2>2, EnterEffect DEF Fetched, At, TypeOK, Moves, ProcStep
  <2>3. ASSUME NEW ok, AfterFetch(p, a, ok)
        PROVE  ProcStep
    BY <1>21, <2>1, <2>3, AfterFetchEffect DEF Fetched, At, TypeOK, Moves, ProcStep
  <2> QED
    BY <1>21, <2>2, <2>3 DEF Fetched, Raise
<1>22. ASSUME NEW p \in Procs, NEW a \in Attempts, Switch(p, a)
     PROVE  ProcStep
  <2>1. CASE proc' = [proc EXCEPT ![p].pc = "declare", ![p].short = TRUE]
    <3>1. Still(p) /\ proc'[p].pc = "declare" /\ proc'[p].a = proc[p].a
      BY <2>1 DEF Still, TypeOK, Collector
    <3> QED
      BY <1>22, <3>1 DEF Switch, At, Moves, ProcStep
  <2>2. CASE Enter(p, "fail")
    BY <1>22, <2>2, EnterEffect DEF Switch, At, TypeOK, Moves, ProcStep
  <2>3. CASE Goto(p, "revoke")
    BY <1>22, <2>3, GotoEffect DEF Switch, At, TypeOK, Moves, ProcStep
  <2> QED
    BY <1>22, <2>1, <2>2, <2>3 DEF Switch, Raise
<1>23. ASSUME NEW p \in Procs, NEW a \in Attempts, Revoke(p, a)
     PROVE  ProcStep
  <2>1. Still(p) /\ proc'[p].pc = "record" /\ proc'[p].a = proc[p].a
    BY <1>23 DEF Revoke, Still, TypeOK, Collector
  <2> QED
    BY <1>23, <2>1 DEF Revoke, At, Moves, ProcStep
<1>24. ASSUME NEW p \in Procs, NEW a \in Attempts, RecordRevocation(p, a)
     PROVE  ProcStep
  BY <1>24, GotoEffect DEF RecordRevocation, At, TypeOK, Moves, ProcStep
<1>25. ASSUME NEW p \in Procs, NEW a \in Attempts, Declare(p, a)
     PROVE  ProcStep
  BY <1>25, EnterEffect DEF Declare, LostFence, Raise, At, TypeOK, Moves, ProcStep
<1>26. ASSUME NEW a \in Attempts, Mint(a)
     PROVE  ProcStep
  BY <1>26 DEF Mint, ProcStep
<1>27. ASSUME NEW a \in Attempts, Casa(a)
     PROVE  ProcStep
  BY <1>27 DEF Casa, Redirect, Land, CasaEnds, ProcStep
<1>28. ASSUME NEW a \in Attempts, Lapse(a)
     PROVE  ProcStep
  BY <1>28 DEF Lapse, ProcStep
<1>29. ASSUME NEW a \in Attempts, UnlinkCall(a)
     PROVE  ProcStep
  BY <1>29 DEF UnlinkCall, ProcStep
<1>30. ASSUME NEW a \in Attempts, UnlinkWrite(a)
     PROVE  ProcStep
  BY <1>30 DEF UnlinkWrite, ProcStep
<1>31. ASSUME NEW p \in Procs, Crash(p)
     PROVE  ProcStep
  BY <1>31, StopEffect DEF Crash, TypeOK, Moves, ProcStep
<1>32. CASE UnlinkDies
  BY <1>32 DEF UnlinkDies, ProcStep
<1>33. ASSUME NEW x \in Accounts, Forget(x)
     PROVE  ProcStep
  BY <1>33 DEF Forget, ProcStep
<1>34. CASE UNCHANGED vars
  BY <1>34 DEF ProcStep
<1> QED
  BY <1>1, <1>2, <1>3, <1>4, <1>5, <1>6, <1>7, <1>8, <1>9, <1>10, <1>11,
     <1>12, <1>13, <1>14, <1>15, <1>16, <1>17, <1>18, <1>19, <1>20, <1>21,
     <1>22, <1>23, <1>24, <1>25, <1>26, <1>27, <1>28, <1>29, <1>30, <1>31,
     <1>32, <1>33, <1>34 DEF Next, Pass, Exchange, Settle

-----------------------------------------------------------------------------
(* The inductive invariant.                                                *)

\* Whoever acknowledges an attempt acknowledges a decided or an erased one.
AckDecided ==
  \A p \in Procs : proc[p].pc = "ack" =>
    att[proc[p].a].phase \in SETTLED_PHASES \cup {"erased"}

\* No code was posted for an attempt that has not begun, and only one process
\* is about to post the code of one that has.
CodeOnce ==
  /\ \A a \in Attempts : att[a].phase \in {"none", "minted"} => posted[a] = 0
  /\ \A p \in Procs : proc[p].pc = "post" =>
       /\ posted[proc[p].a] = 0
       /\ att[proc[p].a].phase \notin {"none", "minted"}
       /\ \A q \in Procs : proc[q].pc = "post" /\ proc[q].a = proc[p].a => q = p

CollectionInv ==
  TypeOK /\ Fenced /\ HasPrior /\ NoLease /\ AckDecided /\ CodeOnce

LEMMA SettledNames ==
  /\ "none" \notin SETTLED_PHASES /\ "minted" \notin SETTLED_PHASES
  /\ "exchange_started" \notin SETTLED_PHASES /\ "erased" \notin SETTLED_PHASES
BY DEF SETTLED_PHASES

LEMMA ForgetEffect ==
  ASSUME TypeOK, NEW x \in Accounts, Forget(x), NEW b \in Attempts
  PROVE  \/ att'[b] = att[b]
         \/ /\ SameAttempt(b) /\ Row(b)
            /\ att'[b].phase = "erased" /\ att'[b].token = Nobody
<1> DEFINE gone(r) == [r EXCEPT !.phase = "erased", !.outcome = "none",
                                !.session = FALSE, !.token = Nobody,
                                !.lapsed = FALSE]
<1>1. \A r \in Attempt : /\ gone(r).phase = "erased" /\ gone(r).token = Nobody
                         /\ gone(r).purpose = r.purpose
                         /\ gone(r).account = r.account
  BY DEF Attempt
<1>2. att'[b] = att[b] \/ (Row(b) /\ att'[b] = gone(att[b]))
  BY DEF Forget
<1>3. att[b] \in Attempt
  BY DEF TypeOK
<1> HIDE DEF gone
<1> QED
  BY <1>1, <1>2, <1>3 DEF SameAttempt

LEMMA MintEffect ==
  ASSUME TypeOK, NEW a \in Attempts, Mint(a)
  PROVE  /\ att'[a].phase \in {"minted", "abandoned"}
         /\ \/ att'[a].purpose = "link"
            \/ att'[a].account \in Accounts
<1>1. PICK phase \in {"minted", "abandoned"} :
        \/ att' = [att EXCEPT ![a].phase = phase, ![a].purpose = "link"]
        \/ \E s \in Attempts, x \in Accounts :
             att' = [att EXCEPT ![a].phase = phase, ![a].purpose = "renew",
                       ![a].account = x, ![a].expected = sess[s].gen]
  BY DEF Mint, BoundTo
<1>2. CASE att' = [att EXCEPT ![a].phase = phase, ![a].purpose = "link"]
  BY <1>2 DEF TypeOK, Attempt
<1>3. CASE \E s \in Attempts, x \in Accounts :
             att' = [att EXCEPT ![a].phase = phase, ![a].purpose = "renew",
                       ![a].account = x, ![a].expected = sess[s].gen]
  <2>1. PICK s \in Attempts, x \in Accounts :
          att' = [att EXCEPT ![a].phase = phase, ![a].purpose = "renew",
                    ![a].account = x, ![a].expected = sess[s].gen]
    BY <1>3
  <2> DEFINE g == sess[s].gen
  <2>2. att' = [att EXCEPT ![a].phase = phase, ![a].purpose = "renew",
                  ![a].account = x, ![a].expected = g]
    BY <2>1
  <2> HIDE DEF g
  <2> QED
    BY <2>2 DEF TypeOK, Attempt
<1> QED
  BY <1>1, <1>2, <1>3

\* A phase moves forward.
LEMMA RowFacts ==
  ASSUME TypeOK, RowStep, NEW b \in Attempts
  PROVE  /\ att[b].phase # "none" => SameAttempt(b) /\ att'[b].phase # "none"
         /\ att[b].phase \in SETTLED_PHASES \cup {"erased"}
              => att'[b].phase \in SETTLED_PHASES \cup {"erased"}
         /\ att'[b].phase \in {"none", "minted"} => att[b].phase \in {"none", "minted"}
<1>1. CASE att' = att
  BY <1>1 DEF SameAttempt
<1>2. ASSUME NEW x \in Accounts, Forget(x)
      PROVE  \/ att'[b] = att[b]
             \/ SameAttempt(b) /\ att'[b].phase = "erased"
  BY <1>2, ForgetEffect
<1>3. ASSUME NEW a \in Attempts, Others(a),
             \/ Retained(a) \/ Taken(a) \/ Decided(a) \/ Begun(a) \/ Mint(a)
      PROVE  \/ att'[b] = att[b]
             \/ SameAttempt(b) /\ att'[b].phase = att[b].phase
             \/ /\ SameAttempt(b) /\ att[b].phase \notin {"none", "erased"}
                /\ att'[b].phase \in SETTLED_PHASES
             \/ /\ SameAttempt(b) /\ att[b].phase = "minted"
                /\ att'[b].phase = "exchange_started"
             \/ att[b].phase = "none" /\ att'[b].phase \in {"minted", "abandoned"}
  <2>1. CASE b # a
    BY <1>3, <2>1 DEF Others
  <2>2. CASE b = a /\ ~Mint(a)
    BY <1>3, <2>2 DEF Retained, Taken, Decided, Begun, Row
  <2>3. CASE b = a /\ Mint(a)
    <3>1. att[b].phase = "none"
      BY <2>3 DEF Mint
    <3>2. att'[b].phase \in {"minted", "abandoned"}
      BY <2>3, MintEffect
    <3> QED
      BY <3>1, <3>2
  <2> QED
    BY <2>1, <2>2, <2>3
<1> QED
  BY <1>1, <1>2, <1>3, SettledNames DEF RowStep, SameAttempt

LEMMA FencedNext ==
  ASSUME TypeOK, Fenced, RowStep
  PROVE  Fenced'
<1> SUFFICES ASSUME NEW b \in Attempts, att'[b].purpose = "renew"
             PROVE  att'[b].account \in Accounts
  BY DEF Fenced
<1>1. CASE att' = att
  BY <1>1 DEF Fenced
<1>2. ASSUME NEW x \in Accounts, Forget(x)
      PROVE  att'[b].account = att[b].account /\ att'[b].purpose = att[b].purpose
  BY <1>2, ForgetEffect DEF SameAttempt
<1>3. ASSUME NEW a \in Attempts, Others(a),
             \/ Retained(a) \/ Taken(a) \/ Decided(a) \/ Begun(a)
      PROVE  att'[b].account = att[b].account /\ att'[b].purpose = att[b].purpose
  BY <1>3 DEF Others, Retained, Taken, Decided, Begun, SameAttempt
<1>4. ASSUME NEW a \in Attempts, Others(a), Mint(a)
      PROVE  att'[b].account \in Accounts
  <2>1. CASE b # a
    BY <1>4, <2>1 DEF Others, Fenced
  <2>2. CASE b = a
    BY <1>4, <2>2, MintEffect
  <2> QED
    BY <2>1, <2>2
<1> QED
  BY <1>1, <1>2, <1>3, <1>4 DEF RowStep, Fenced

LEMMA HasPriorNext ==
  ASSUME TypeOK, HasPrior, RowStep, ProcStep
  PROVE  HasPrior'
<1> DEFINE Good(q) ==
      /\ proc[q].pc # "idle" =>
           proc[q].a \in Attempts /\ att[proc[q].a].phase # "none"
      /\ proc[q].pc \in {"insert", "bind", "write", "fetch", "page"}
         /\ att[proc[q].a].purpose = "renew" => proc[q].prior \in Attempts
      /\ proc[q].pc = "switch" => proc[q].prior \in Attempts
<1>1. ASSUME NEW q \in Procs, proc'[q] = proc[q]
      PROVE  Good(q)'
  <2>1. Good(q)
    BY DEF HasPrior
  <2> QED
    BY <1>1, <2>1, RowFacts DEF SameAttempt
<1>2. ASSUME NEW p \in Procs, Moves(p)
      PROVE  Good(p)'
  <2>1. CASE proc'[p].pc = "idle"
    BY <2>1
  <2>2. CASE /\ proc'[p].pc = "read" /\ proc'[p].a \in Attempts
             /\ att[proc'[p].a].phase # "none"
    BY <2>2, RowFacts
  <2>3. CASE proc[p].pc # "idle" /\ proc'[p].a = proc[p].a
    <3>1. proc[p].a \in Attempts /\ att[proc[p].a].phase # "none"
      BY <2>3 DEF HasPrior
    <3>2. /\ att'[proc[p].a].phase # "none"
          /\ att'[proc[p].a].purpose = att[proc[p].a].purpose
      BY <3>1, RowFacts DEF SameAttempt
    <3> QED
      BY <1>2, <2>3, <3>1, <3>2 DEF Moves
  <2> QED
    BY <1>2, <2>1, <2>2, <2>3 DEF Moves
<1>3. ASSUME NEW q \in Procs PROVE Good(q)'
  BY <1>1, <1>2 DEF ProcStep, Still
<1> QED
  BY <1>3 DEF HasPrior

LEMMA NoLeaseNext ==
  ASSUME TypeOK, NoLease, RowStep
  PROVE  NoLease'
<1> SUFFICES ASSUME NEW b \in Attempts, att'[b].phase \in {"none", "erased"}
             PROVE  att'[b].token = Nobody
  BY DEF NoLease
<1>1. CASE att' = att
  BY <1>1 DEF NoLease
<1>2. ASSUME NEW x \in Accounts, Forget(x)
      PROVE  att'[b] = att[b] \/ att'[b].token = Nobody
  BY <1>2, ForgetEffect
<1>3. ASSUME NEW a \in Attempts, Others(a),
             \/ Retained(a) \/ Taken(a) \/ Decided(a) \/ Begun(a)
      PROVE  att'[b].token = Nobody
  BY <1>3, SettledNames
     DEF Others, Retained, Taken, Decided, Begun, NoLease, Row
<1>4. ASSUME NEW a \in Attempts, Others(a), Mint(a)
      PROVE  att'[b].token = Nobody
  <2>1. CASE b # a
    BY <1>4, <2>1 DEF Others, NoLease
  <2>2. CASE b = a
    BY <1>4, <2>2, MintEffect
  <2> QED
    BY <2>1, <2>2
<1> QED
  BY <1>1, <1>2, <1>3, <1>4 DEF RowStep, NoLease

LEMMA AckDecidedNext ==
  ASSUME TypeOK, HasPrior, AckDecided, RowStep, ProcStep
  PROVE  AckDecided'
<1> SUFFICES ASSUME NEW q \in Procs, proc'[q].pc = "ack"
             PROVE  att'[proc'[q].a].phase \in SETTLED_PHASES \cup {"erased"}
  BY DEF AckDecided
<1>1. CASE proc'[q] = proc[q]
  BY <1>1, RowFacts DEF AckDecided, HasPrior
<1>2. CASE Moves(q)
  BY <1>2 DEF Moves
<1> QED
  BY <1>1, <1>2 DEF ProcStep, Still

LEMMA PostSteps ==
  ASSUME [Next]_vars
  PROVE  posted' = posted \/ \E p \in Procs, a \in Attempts : Post(p, a)
<1> USE DEF vars, bank
<1>1. ASSUME NEW p \in Procs, NEW a \in Attempts, Pass(p, a) \/ Read(p, a)
      PROVE  posted' = posted
  BY <1>1 DEF Pass, Read, Take, Vanished, AckAgain, Abandon, CasaEnded, NotYet,
              Discard, Begin, Interrupted, Ack
<1>2. ASSUME NEW p \in Procs, NEW a \in Attempts, Exchange(p, a)
      PROVE  posted' = posted \/ Post(p, a)
  BY <1>2 DEF Exchange, Note, Verify, InsertSession, BindRead, BindWrite, Page, Fetched, Switch,
              Revoke, RecordRevocation, Declare
<1>3. ASSUME NEW p \in Procs, NEW a \in Attempts, Settle(p, a)
      PROVE  posted' = posted
  BY <1>3 DEF Settle, Tail, Fail, Stale
<1>4. ASSUME NEW a \in Attempts,
             Mint(a) \/ Casa(a) \/ Lapse(a) \/ UnlinkCall(a) \/ UnlinkWrite(a)
      PROVE  posted' = posted
  BY <1>4 DEF Mint, Casa, Redirect, Land, CasaEnds, Lapse, UnlinkCall, UnlinkWrite
<1>5. ASSUME \/ \E p \in Procs : Crash(p)
             \/ UnlinkDies \/ \E x \in Accounts : Forget(x)
      PROVE  posted' = posted
  BY <1>5 DEF Crash, UnlinkDies, Forget
<1> QED
  BY <1>1, <1>2, <1>3, <1>4, <1>5 DEF Next

LEMMA PostEffect ==
  ASSUME TypeOK, NEW p \in Procs, NEW a \in Attempts, Post(p, a)
  PROVE  /\ att' = att /\ Still(p)
         /\ proc[p].pc = "post" /\ proc[p].a = a /\ proc'[p].pc # "post"
         /\ posted' = [posted EXCEPT ![a] = @ + 1]
BY GotoEffect, EnterEffect DEF Post, At, Raise, TypeOK, db, casa

LEMMA CodeOnceNext ==
  ASSUME TypeOK, HasPrior, CodeOnce, [Next]_vars, RowStep, ProcStep
  PROVE  CodeOnce'
<1>1. CASE posted' = posted
  <2>1. ASSUME NEW a \in Attempts, att'[a].phase \in {"none", "minted"}
        PROVE  posted'[a] = 0
    BY <1>1, <2>1, RowFacts DEF CodeOnce
  <2>2. ASSUME NEW p \in Procs, proc'[p].pc = "post"
        PROVE  /\ posted'[proc'[p].a] = 0
               /\ att'[proc'[p].a].phase \notin {"none", "minted"}
               /\ \A q \in Procs : proc'[q].pc = "post" /\ proc'[q].a = proc'[p].a
                    => q = p
    <3>1. CASE proc' = proc
      BY <1>1, <2>2, <3>1, RowFacts DEF CodeOnce, HasPrior
    <3>2. ASSUME NEW r \in Procs, Still(r), Moves(r), proc'[r].pc = "post"
          PROVE  /\ proc'[r].a \in Attempts /\ posted[proc'[r].a] = 0
                 /\ att'[proc'[r].a].phase = "exchange_started"
                 /\ \A q \in Procs : proc[q].pc = "post" => proc[q].a # proc'[r].a
      BY <3>2 DEF Moves, CodeOnce, HasPrior
    <3>3. ASSUME NEW r \in Procs, Still(r), Moves(r)
          PROVE  /\ posted'[proc'[p].a] = 0
                 /\ att'[proc'[p].a].phase \notin {"none", "minted"}
                 /\ \A q \in Procs : proc'[q].pc = "post" /\ proc'[q].a = proc'[p].a
                      => q = p
      <4>1. CASE p = r
        BY <1>1, <2>2, <3>2, <3>3, <4>1 DEF Still
      <4>2. CASE p # r
        <5>1. proc'[p] = proc[p]
          BY <3>3, <4>2 DEF Still
        <5>2. /\ proc[p].a \in Attempts /\ posted[proc[p].a] = 0
              /\ att[proc[p].a].phase \notin {"none", "minted"}
              /\ \A q \in Procs : proc[q].pc = "post" /\ proc[q].a = proc[p].a
                   => q = p
          BY <2>2, <5>1 DEF CodeOnce, HasPrior
        <5>3. att'[proc[p].a].phase \notin {"none", "minted"}
          BY <5>2, RowFacts
        <5>4. ASSUME NEW q \in Procs, proc'[q].pc = "post", proc'[q].a = proc[p].a
              PROVE  q = p
          <6>1. CASE q = r
            BY <2>2, <3>2, <3>3, <5>1, <5>4, <6>1
          <6>2. CASE q # r
            BY <3>3, <5>2, <5>4, <6>2 DEF Still
          <6> QED
            BY <6>1, <6>2
        <5> QED
          BY <1>1, <5>1, <5>2, <5>3, <5>4
      <4> QED
        BY <4>1, <4>2
    <3> QED
      BY <3>1, <3>3 DEF ProcStep
  <2> QED
    BY <2>1, <2>2 DEF CodeOnce
<1>2. ASSUME NEW p \in Procs, NEW a \in Attempts, Post(p, a)
      PROVE  CodeOnce'
  <2>1. /\ att' = att /\ Still(p)
        /\ proc[p].pc = "post" /\ proc[p].a = a /\ proc'[p].pc # "post"
        /\ posted' = [posted EXCEPT ![a] = @ + 1]
    BY <1>2, PostEffect
  <2>2. \A b \in Attempts : b # a => posted'[b] = posted[b]
    BY <2>1 DEF TypeOK
  <2>3. att[a].phase \notin {"none", "minted"}
    BY <2>1 DEF CodeOnce
  <2>4. ASSUME NEW q \in Procs, proc'[q].pc = "post"
        PROVE  proc'[q] = proc[q] /\ proc[q].a \in Attempts \ {a}
    BY <2>1, <2>4 DEF Still, CodeOnce, HasPrior
  <2>5. \A b \in Attempts : att'[b].phase \in {"none", "minted"} => posted'[b] = 0
    BY <2>1, <2>2, <2>3 DEF CodeOnce
  <2>6. \A q \in Procs : proc'[q].pc = "post" =>
          /\ posted'[proc'[q].a] = 0
          /\ att'[proc'[q].a].phase \notin {"none", "minted"}
    BY <2>1, <2>2, <2>4 DEF CodeOnce
  <2>7. \A q, r \in Procs :
          proc'[q].pc = "post" /\ proc'[r].pc = "post" /\ proc'[r].a = proc'[q].a
            => r = q
    BY <2>4 DEF CodeOnce
  <2> QED
    BY <2>5, <2>6, <2>7 DEF CodeOnce
<1> QED
  BY <1>1, <1>2, PostSteps

LEMMA CollectionInit == Init => CollectionInv
<1> SUFFICES ASSUME Init PROVE CollectionInv
  OBVIOUS
<1>1. TypeOK
  <2>1. NoAttempt \in Attempt
    BY PhaseNames DEF NoAttempt, Attempt, Outcomes
  <2>2. NoSession \in Session
    BY DEF NoSession, Session, Statuses
  <2>3. NoRowYet \in Account
    BY DEF NoRowYet, Account
  <2>4. LeftRow \in Account
    BY DEF LeftRow, NoRowYet, Account
  <2> QED
    BY <2>1, <2>2, <2>3, <2>4, IdleTyped, CollectionAssumption
       DEF CollectionAssumption, Init, TypeOK, NoUnlink, Records
<1>2. Fenced /\ NoLease
  BY DEF Init, NoAttempt, Fenced, NoLease
<1>3. HasPrior /\ AckDecided
  BY DEF Init, Idle, HasPrior, AckDecided
<1>4. CodeOnce
  BY DEF Init, Idle, CodeOnce
<1> QED
  BY <1>1, <1>2, <1>3, <1>4 DEF CollectionInv

LEMMA CollectionNext == CollectionInv /\ [Next]_vars => CollectionInv'
<1> SUFFICES ASSUME CollectionInv, [Next]_vars PROVE CollectionInv'
  OBVIOUS
<1> USE DEF CollectionInv
<1>1. RowStep
  BY RowSteps
<1>2. ProcStep
  BY ProcSteps
<1>3. TypeOK'
  BY TypeNext
<1>4. Fenced' /\ NoLease'
  BY <1>1, FencedNext, NoLeaseNext
<1>5. HasPrior' /\ AckDecided'
  BY <1>1, <1>2, HasPriorNext, AckDecidedNext
<1>6. CodeOnce'
  BY <1>1, <1>2, CodeOnceNext
<1> QED
  BY <1>3, <1>4, <1>5, <1>6

LEMMA CollectionInvariant == Spec => []CollectionInv
BY CollectionInit, CollectionNext, PTL DEF Spec

\* Every table keeps its columns' types, whatever crashes, expires or is
\* erased: the writes of callbacks.py, tools_auth.py, flows.py and apply.py.
THEOREM CollectionTypeCorrect == Spec => []TypeOK
<1>1. CollectionInv => TypeOK
  BY DEF CollectionInv
<1> QED
  BY <1>1, CollectionInvariant, PTL

-----------------------------------------------------------------------------
(* Collection implements Authorizations.                                   *)

Final == {a \in Attempts : att[a].phase \in SETTLED_PHASES}
Gone == {a \in Attempts : att[a].phase = "erased"}

LEMMA AckSteps ==
  ASSUME [Next]_vars
  PROVE  acked' = acked \/ \E p \in Procs, a \in Attempts : Ack(p, a)
<1> USE DEF vars, casa
<1>1. ASSUME NEW p \in Procs, NEW a \in Attempts, Pass(p, a) \/ Read(p, a)
      PROVE  acked' = acked \/ Ack(p, a)
  BY <1>1 DEF Pass, Read, Take, Vanished, AckAgain, Abandon, CasaEnded, NotYet,
              Discard, Begin, Interrupted
<1>2. ASSUME NEW p \in Procs, NEW a \in Attempts, Exchange(p, a)
      PROVE  acked' = acked
  BY <1>2 DEF Exchange, Post, Note, Verify, InsertSession, BindRead, BindWrite, Page, Fetched,
              Switch, Revoke, RecordRevocation, Declare
<1>3. ASSUME NEW p \in Procs, NEW a \in Attempts, Settle(p, a)
      PROVE  acked' = acked
  BY <1>3 DEF Settle, Tail, Fail, Stale
<1>4. ASSUME NEW a \in Attempts,
             Mint(a) \/ Casa(a) \/ Lapse(a) \/ UnlinkCall(a) \/ UnlinkWrite(a)
      PROVE  acked' = acked
  BY <1>4 DEF Mint, Casa, Redirect, Land, CasaEnds, Lapse, UnlinkCall, UnlinkWrite
<1>5. ASSUME \/ \E p \in Procs : Crash(p)
             \/ UnlinkDies \/ \E x \in Accounts : Forget(x)
      PROVE  acked' = acked
  BY <1>5 DEF Crash, UnlinkDies, Forget
<1> QED
  BY <1>1, <1>2, <1>3, <1>4, <1>5 DEF Next

\* What becomes of the decisions when one row changes.
LEMMA OneDecides ==
  ASSUME TypeOK, NoLease, NEW a \in Attempts, Others(a),
         \/ Retained(a) \/ Taken(a) \/ Decided(a) \/ Begun(a) \/ Mint(a)
  PROVE  \/ Final' = Final /\ Gone' = Gone
         \/ a \notin Final \cup Gone /\ Final' = Final \cup {a} /\ Gone' = Gone
<1>1. \A b \in Attempts \ {a} : att'[b].phase = att[b].phase
  BY DEF Others
<1>2. \/ att'[a].phase = att[a].phase
      \/ /\ att[a].phase # "erased" /\ att'[a].phase \in SETTLED_PHASES
      \/ /\ att[a].phase \in {"none", "minted"}
         /\ att'[a].phase \in {"minted", "exchange_started"}
  <2>1. CASE Retained(a) \/ Taken(a) \/ Decided(a) \/ Begun(a)
    BY <2>1 DEF Retained, Taken, Decided, Begun, Row
  <2>2. CASE Mint(a)
    <3>1. att[a].phase = "none"
      BY <2>2 DEF Mint
    <3>2. att'[a].phase \in {"minted", "abandoned"}
      BY <2>2, MintEffect
    <3> QED
      BY <3>1, <3>2 DEF SETTLED_PHASES
  <2> QED
    BY <2>1, <2>2
<1>3. CASE att'[a].phase = att[a].phase
  BY <1>1, <1>3 DEF Final, Gone
<1>4. CASE att[a].phase # "erased" /\ att'[a].phase \in SETTLED_PHASES
  <2>1. Gone' = Gone
    BY <1>1, <1>4, SettledNames DEF Gone
  <2>2. Final' = Final \cup {a}
    BY <1>1, <1>4 DEF Final
  <2>3. a \notin Gone
    BY <1>4 DEF Gone
  <2> QED
    BY <2>1, <2>2, <2>3
<1>5. CASE /\ att[a].phase \in {"none", "minted"}
           /\ att'[a].phase \in {"minted", "exchange_started"}
  BY <1>1, <1>5, SettledNames DEF Final, Gone
<1> QED
  BY <1>2, <1>3, <1>4, <1>5

LEMMA ForgetErases ==
  ASSUME TypeOK, NEW x \in Accounts, Forget(x)
  PROVE  \E S \in SUBSET (Attempts \ Gone) :
           Gone' = Gone \cup S /\ Final' = Final \ S
<1> DEFINE S == {b \in Attempts : Row(b) /\ att'[b].phase = "erased"}
<1>1. \A b \in Attempts :
        \/ b \in S /\ att[b].phase # "erased" /\ att'[b].phase = "erased"
        \/ b \notin S /\ att'[b].phase = att[b].phase
  BY ForgetEffect DEF Row
<1>2. S \in SUBSET (Attempts \ Gone)
  BY DEF Gone, Row
<1> HIDE DEF S
<1>3. Gone' = Gone \cup S
  BY <1>1, <1>2 DEF Gone
<1>4. Final' = Final \ S
  BY <1>1, <1>2, SettledNames DEF Final
<1> QED
  BY <1>2, <1>3, <1>4

LEMMA PromiseStep == CollectionInv /\ [Next]_vars => [Promise!Next]_(Promise!vars)
<1> SUFFICES ASSUME CollectionInv, [Next]_vars
             PROVE  [Promise!Next]_(Promise!vars)
  OBVIOUS
<1> USE DEF CollectionInv
<1>1. RowStep
  BY RowSteps
<1>2. CASE \E p \in Procs, a \in Attempts : Post(p, a)
  <2>1. PICK p \in Procs, a \in Attempts : Post(p, a)
    BY <1>2
  <2>2. /\ att' = att /\ proc[p].pc = "post" /\ proc[p].a = a
        /\ posted' = [posted EXCEPT ![a] = @ + 1]
    BY <2>1, PostEffect
  <2>3. posted[a] = 0
    BY <2>2 DEF CodeOnce
  <2>4. posted' = [posted EXCEPT ![a] = 1]
    BY <2>2, <2>3 DEF TypeOK
  <2>5. acked' = acked
    BY <2>1 DEF Post, casa
  <2>6. Promise!Spend(a)
    BY <2>2, <2>3, <2>4, <2>5 DEF Promise!Spend
  <2> QED
    BY <2>6 DEF Promise!Next
<1>3. CASE \E p \in Procs, a \in Attempts : Ack(p, a)
  <2>1. PICK p \in Procs, a \in Attempts : Ack(p, a)
    BY <1>3
  <2>2. att' = att /\ posted' = posted /\ acked' = acked \cup {a}
    BY <2>1 DEF Ack, db, bank
  <2>3. att[a].phase \in SETTLED_PHASES \cup {"erased"}
    BY <2>1 DEF Ack, AckDecided
  <2>4. Promise!Tell(a)
    BY <2>2, <2>3 DEF Promise!Tell
  <2> QED
    BY <2>4 DEF Promise!Next
<1>4. CASE posted' = posted /\ acked' = acked
  <2>1. CASE att' = att
    BY <1>4, <2>1 DEF Promise!vars
  <2>2. ASSUME NEW x \in Accounts, Forget(x)
        PROVE  [Promise!Next]_(Promise!vars)
    <3>1. PICK S \in SUBSET (Attempts \ Gone) :
            Gone' = Gone \cup S /\ Final' = Final \ S
      BY <2>2, ForgetErases
    <3>2. CASE S = {}
      BY <1>4, <3>1, <3>2 DEF Promise!vars, Gone, Final
    <3>3. CASE S # {}
      <4>1. Promise!Erase
        BY <1>4, <3>1, <3>3 DEF Promise!Erase, Gone, Final
      <4> QED
        BY <4>1 DEF Promise!Next
    <3> QED
      BY <3>2, <3>3
  <2>3. ASSUME NEW a \in Attempts, Others(a),
               \/ Retained(a) \/ Taken(a) \/ Decided(a) \/ Begun(a) \/ Mint(a)
        PROVE  [Promise!Next]_(Promise!vars)
    <3>1. CASE Final' = Final /\ Gone' = Gone
      BY <1>4, <3>1 DEF Promise!vars, Gone, Final
    <3>2. CASE a \notin Final \cup Gone /\ Final' = Final \cup {a} /\ Gone' = Gone
      <4>1. Promise!Decide(a)
        BY <1>4, <3>2 DEF Promise!Decide, Gone, Final
      <4> QED
        BY <4>1 DEF Promise!Next
    <3> QED
      BY <2>3, <3>1, <3>2, OneDecides
  <2> QED
    BY <1>1, <2>1, <2>2, <2>3 DEF RowStep
<1> QED
  BY <1>2, <1>3, <1>4, PostSteps, AckSteps

\* Collection implements Authorizations: however many processes collect,
\* wherever they die and whoever steals a lease, `begin_exchange` lets a code
\* be posted once, `_settle` decides once, and casa is told of what is decided.
THEOREM CollectionKeepsPromise == Spec => KeepsPromise
<1>1. Init => Promise!Init
  BY SettledNames DEF Init, NoAttempt, Promise!Init
<1>2. CollectionInv /\ [Next]_vars => [Promise!Next]_(Promise!vars)
  BY PromiseStep
<1> QED
  BY <1>1, <1>2, CollectionInvariant, PTL DEF Spec, KeepsPromise, Promise!Spec

-----------------------------------------------------------------------------
(* The exchanges: one per attempt, and what its process may rely on.       *)

Verdicts == {"verified", "verified_partial"}

\* From the decision to withdraw the old consent on, no binding is added.
Leaving == {"revoke", "record", "declare", "tail", "fail"}
Exchanging == Leaving \cup {"post", "note", "verify", "insert", "bind", "write",
                            "fetch", "page", "switch"}

InExchange(p) == proc[p].pc \in Exchanging
Leased(p) == Holds(p, proc[p].a)
Of(p) == att[proc[p].a]

OneExchange == \A p, q \in Procs :
  InExchange(p) /\ InExchange(q) /\ proc[p].a = proc[q].a => p = q

\* No exchange of s will bind an account to it any more.
Past(s) == /\ posted[s] > 0
           /\ \A p \in Procs : InExchange(p) /\ proc[p].a = s
                => att[s].purpose = "renew" /\ proc[p].pc \in Leaving

\* What a process knows of its own exchange, and what the lease adds to it.
Exchanges(p) == InExchange(p) =>
  /\ Of(p).phase \notin {"none", "minted"}
  /\ proc[p].pc # "post" => posted[proc[p].a] > 0
  /\ proc[p].pc \in {"switch", "revoke", "record"} => Of(p).purpose = "renew"
  /\ proc[p].pc \in {"bind", "write"} => Of(p).purpose = "link"
  /\ Leased(p) =>
       /\ Of(p).phase = "exchange_started"
       /\ proc[p].pc \notin {"post", "note", "fail"} => Of(p).session
       /\ proc[p].pc \in {"post", "note", "verify"} => Of(p).outcome = "none"

\* An attempt that was only minted has neither verdict nor session.
Mints == \A a \in Attempts : att[a].phase \in {"none", "minted"} =>
  att[a].outcome = "none" /\ ~att[a].session

Discipline == /\ OneExchange /\ Mints
              /\ \A p \in Procs : Exchanges(p)

-----------------------------------------------------------------------------
(* What a step does to the exchanges.                                      *)

\* The row of b is what it was, its lease aside.
SameRow(b) == /\ SameAttempt(b) /\ att'[b].phase = att[b].phase
              /\ att'[b].session = att[b].session
              /\ att'[b].outcome = att[b].outcome
Steady(b) == SameRow(b) /\ att'[b].token = att[b].token

SettlesRow(b) == /\ SameAttempt(b) /\ att'[b].session = att[b].session
                 /\ att'[b].phase \in SETTLED_PHASES

\* No process moves.
Quiet == proc' = proc /\ posted' = posted /\ \A b \in Attempts : Steady(b)

\* A settlement that looks at the session and the bindings.
Concludes(p, b) == Interrupted(p, b) \/ Tail(p, b) \/ Fail(p, b)

\* One that does not: a settled attempt can only be abandoned.
Dismisses(b, phase) == \/ phase = "abandoned"
                       \/ Undecided(b) /\ phase \in {"closed", "declined"}

\* Row b under a step of p outside of any exchange: a lease given up or taken
\* by p, or a settlement.
TendsRow(p, b) == \/ Steady(b)
                  \/ /\ att'[b].token \in {Nobody, p}
                     /\ \/ SameRow(b)
                        \/ /\ SettlesRow(b)
                           /\ Dismisses(b, att'[b].phase) \/ Concludes(p, b)

\* p is in no exchange when it is done.
Tends(p) == /\ Still(p) /\ proc'[p].pc \notin Exchanging
            /\ posted' = posted
            /\ \A b \in Attempts : TendsRow(p, b)

\* p begins the exchange of the attempt it holds.
Starts(p) == LET a == proc[p].a IN
  /\ a \in Attempts /\ Still(p) /\ proc'[p].pc = "post" /\ proc'[p].a = a
  /\ posted' = posted
  /\ Others(a) /\ SameAttempt(a) /\ att[a].phase = "minted"
  /\ att'[a].phase = "exchange_started"
  /\ att'[a].session = att[a].session /\ att'[a].outcome = att[a].outcome

Follows(from, to, purpose) ==
  \/ to = "fail"
  \/ from = "post" /\ to = "note"
  \/ from = "note" /\ to = "verify"
  \/ from = "verify" /\ to \in {"insert", "tail"}
  \/ from = "insert" /\ purpose = "link" /\ to = "bind"
  \/ from = "insert" /\ purpose = "renew" /\ to = "fetch"
  \/ from = "bind" /\ to = "write"
  \/ from = "write" /\ to = "fetch"
  \/ from \in {"fetch", "page"} /\ to = "page"
  \/ from = "page" /\ purpose = "link" /\ to = "bind"
  \/ from = "page" /\ purpose = "renew" /\ to \in {"fetch", "switch"}
  \/ from \in {"page", "switch", "record"} /\ to = "declare"
  \/ from = "switch" /\ to = "revoke"
  \/ from = "revoke" /\ to = "record"
  \/ from = "declare" /\ to = "tail"

\* p goes on with its exchange.
Goes(p) == LET a == proc[p].a IN
  /\ a \in Attempts /\ Still(p) /\ proc'[p].a = a
  /\ Follows(proc[p].pc, proc'[p].pc, att[a].purpose)
  /\ proc[p].pc \in Exchanging \ {"tail", "fail"}
  /\ Others(a) /\ SameAttempt(a)
  /\ att'[a].phase = att[a].phase /\ att'[a].token = att[a].token
  /\ \/ posted' = posted /\ proc[p].pc # "post"
     \/ /\ proc[p].pc = "post" /\ posted'[a] > 0
        /\ \A b \in Attempts \ {a} : posted'[b] = posted[b]
  /\ \/ att'[a].session = att[a].session /\ proc'[p].pc # "verify"
     \/ proc[p].pc = "note" /\ Leased(p) /\ att'[a].session
  /\ \/ att'[a].outcome = att[a].outcome
     \/ proc'[p].pc \notin {"post", "note", "verify"} /\ Leased(p)

Flow == \/ Quiet
        \/ \E a \in Attempts : Mint(a)
        \/ \E x \in Accounts : Forget(x)
        \/ \E p \in Procs : Tends(p) \/ Starts(p) \/ Goes(p)

LEMMA SettleRows ==
  ASSUME att \in [Attempts -> Attempt], NEW a \in Attempts, NEW p,
         NEW phase \in SETTLED_PHASES, NEW outcome, SettleAs(a, phase, outcome),
         Dismisses(a, phase) \/ Concludes(p, a)
  PROVE  \A b \in Attempts : TendsRow(p, b)
<1>1. /\ Others(a) /\ SameAttempt(a)
      /\ att'[a].phase = phase /\ att'[a].token = Nobody
      /\ att'[a].session = att[a].session
  BY DEF SettleAs, Others, SameAttempt, Attempt
<1> QED
  BY <1>1 DEF Others, TendsRow, Steady, SettlesRow, SameRow, SameAttempt

LEMMA LeaseRows ==
  ASSUME att \in [Attempts -> Attempt], NEW a \in Attempts, NEW p, p # Nobody,
         att' = Free(a) \/ att' = [att EXCEPT ![a].token = p, ![a].lapsed = FALSE]
  PROVE  \A b \in Attempts : SameRow(b) /\ TendsRow(p, b)
<1>1. Others(a) /\ SameRow(a) /\ att'[a].token \in {Nobody, p}
  <2>1. CASE att' = Free(a)
    BY <2>1 DEF Free, Others, SameRow, SameAttempt, Attempt
  <2>2. CASE att' = [att EXCEPT ![a].token = p, ![a].lapsed = FALSE]
    BY <2>2 DEF Others, SameRow, SameAttempt, Attempt
  <2> QED
    BY <2>1, <2>2
<1> QED
  BY <1>1 DEF Others, TendsRow, Steady, SameRow, SameAttempt

LEMMA BeatRows ==
  ASSUME att \in [Attempts -> Attempt], NEW a \in Attempts, NEW flag,
         att' = [att EXCEPT ![a].lapsed = flag]
  PROVE  Others(a) /\ \A b \in Attempts : Steady(b)
<1>1. Others(a) /\ Steady(a)
  BY DEF Others, Steady, SameRow, SameAttempt, Attempt
<1> QED
  BY <1>1 DEF Others, Steady, SameRow, SameAttempt

LEMMA SessionRows ==
  ASSUME att \in [Attempts -> Attempt], NEW a \in Attempts, NEW flag,
         att' = [att EXCEPT ![a].session = TRUE, ![a].lapsed = flag]
  PROVE  /\ Others(a) /\ SameAttempt(a) /\ att'[a].phase = att[a].phase
         /\ att'[a].token = att[a].token /\ att'[a].outcome = att[a].outcome
         /\ att'[a].session
BY DEF Others, SameAttempt, Attempt

LEMMA OutcomeRows ==
  ASSUME att \in [Attempts -> Attempt], NEW a \in Attempts, NEW v, NEW flag,
         att' = [att EXCEPT ![a].outcome = v, ![a].lapsed = flag]
  PROVE  /\ Others(a) /\ SameAttempt(a) /\ att'[a].phase = att[a].phase
         /\ att'[a].token = att[a].token /\ att'[a].outcome = v
         /\ att'[a].session = att[a].session
BY DEF Others, SameAttempt, Attempt

LEMMA SameRows ==
  ASSUME att' = att
  PROVE  /\ \A b \in Attempts : Steady(b) /\ Others(b)
         /\ \A b \in Attempts : \A p : TendsRow(p, b)
BY DEF Others, Steady, SameRow, SameAttempt, TendsRow

LEMMA SomeProc ==
  ASSUME NEW p \in Procs
  PROVE  p # Nobody
BY CollectionAssumption DEF CollectionAssumption

\* A step that changes no row.
LEMMA TendsStill ==
  ASSUME NEW p \in Procs, Still(p), proc'[p].pc \notin Exchanging,
         posted' = posted, att' = att
  PROVE  Tends(p)
BY SameRows DEF Tends

LEMMA TailPc ==
  /\ "idle" \notin Exchanging /\ "read" \notin Exchanging
  /\ "held" \notin Exchanging /\ "ack" \notin Exchanging
BY DEF Exchanging, Leaving

\* Settlements and everything before an exchange.
LEMMA PassFlows ==
  ASSUME TypeOK, HasPrior, NoLease, NEW p \in Procs, NEW a \in Attempts,
         Read(p, a) \/ Pass(p, a) \/ Settle(p, a)
  PROVE  Tends(p) \/ Starts(p)
<1> USE DEF vars, db, casa, bank
<1>1. CASE Read(p, a)
  <2>1. Still(p) /\ proc'[p].pc = "read"
    BY <1>1 DEF Read, Idle, Still, TypeOK
  <2> QED
    BY <1>1, <2>1, TendsStill, TailPc DEF Read
<1>2. CASE Vanished(p, a)
  <2>1. Still(p) /\ proc'[p].pc = "idle"
    BY <1>2, StopEffect DEF Vanished, TypeOK
  <2> QED
    BY <1>2, <2>1, TendsStill, TailPc DEF Vanished
<1>3. CASE Ack(p, a)
  <2>1. Still(p) /\ proc'[p].pc = "idle"
    BY <1>3, StopEffect DEF Ack, TypeOK
  <2> QED
    BY <1>3, <2>1, TendsStill, TailPc DEF Ack
<1>4. CASE Stale(p, a)
  <2>1. Still(p) /\ proc'[p].pc = "idle"
    BY <1>4, StopEffect DEF Stale, TypeOK
  <2> QED
    BY <1>4, <2>1, TendsStill, TailPc DEF Stale
<1>5. CASE Take(p, a)
  <2>1. CASE att' = att
    <3>1. Still(p) /\ proc'[p].pc \in {"held", "idle"}
      BY <1>5, <2>1, GotoEffect, StopEffect DEF Take, TypeOK
    <3> QED
      BY <1>5, <2>1, <3>1, TendsStill, TailPc DEF Take
  <2>2. CASE att' = [att EXCEPT ![a].token = p, ![a].lapsed = FALSE]
    <3>1. Still(p) /\ proc'[p].pc \in {"held", "idle"}
      BY <1>5, <2>2, GotoEffect, StopEffect DEF Take, TypeOK
    <3>2. \A b \in Attempts : TendsRow(p, b)
      BY <2>2, LeaseRows, SomeProc DEF TypeOK
    <3> QED
      BY <1>5, <3>1, <3>2, TailPc DEF Take, Tends
  <2> QED
    BY <1>5, <2>1, <2>2 DEF Take
<1>6. CASE AckAgain(p, a)
  <2>1. Still(p) /\ proc'[p].pc = "ack"
    BY <1>6, EnterEffect DEF AckAgain, TypeOK
  <2>2. \A b \in Attempts : TendsRow(p, b)
    BY <1>6, LeaseRows, SomeProc DEF AckAgain, TypeOK
  <2> QED
    BY <1>6, <2>1, <2>2, TailPc DEF AckAgain, Tends
<1>7. CASE NotYet(p, a)
  <2>1. Still(p) /\ proc'[p].pc = "idle"
    BY <1>7, StopEffect DEF NotYet, TypeOK
  <2>2. \A b \in Attempts : TendsRow(p, b)
    BY <1>7, LeaseRows, SomeProc DEF NotYet, TypeOK
  <2> QED
    BY <1>7, <2>1, <2>2, TailPc DEF NotYet, Tends
<1>8. CASE Abandon(p, a)
  <2>1. Still(p) /\ proc'[p].pc = "ack"
    BY <1>8, EnterEffect DEF Abandon, TypeOK
  <2>2. \E phase \in SETTLED_PHASES :
          SettleAs(a, phase, "other") /\ Dismisses(a, phase)
    BY <1>8 DEF Abandon, Dismisses, SETTLED_PHASES
  <2>3. \A b \in Attempts : TendsRow(p, b)
    BY <2>2, SettleRows DEF TypeOK
  <2> QED
    BY <1>8, <2>1, <2>3, TailPc DEF Abandon, Tends
<1>9. CASE CasaEnded(p, a)
  <2>1. Still(p) /\ proc'[p].pc = "ack"
    BY <1>9, EnterEffect DEF CasaEnded, TypeOK
  <2>2. \E phase \in SETTLED_PHASES :
          SettleAs(a, phase, "other") /\ Dismisses(a, phase)
    BY <1>9 DEF CasaEnded, Dismisses, SETTLED_PHASES
  <2>3. \A b \in Attempts : TendsRow(p, b)
    BY <2>2, SettleRows DEF TypeOK
  <2> QED
    BY <1>9, <2>1, <2>3, TailPc DEF CasaEnded, Tends
<1>10. CASE Discard(p, a)
  <2>1. Still(p) /\ proc'[p].pc = "ack"
    BY <1>10, EnterEffect DEF Discard, TypeOK
  <2>2. \E phase \in SETTLED_PHASES :
          SettleAs(a, phase, "other") /\ Dismisses(a, phase)
    BY <1>10 DEF Discard, Published, Dismisses, SETTLED_PHASES
  <2>3. \A b \in Attempts : TendsRow(p, b)
    BY <2>2, SettleRows DEF TypeOK
  <2> QED
    BY <1>10, <2>1, <2>3, TailPc DEF Discard, Tends
<1>11. CASE Interrupted(p, a)
  <2>1. Still(p) /\ proc'[p].pc = "ack"
    BY <1>11, EnterEffect DEF Interrupted, TypeOK
  <2>2. \E phase \in SETTLED_PHASES : SettleAs(a, phase, "other")
    BY <1>11 DEF Interrupted, SETTLED_PHASES
  <2>3. \A b \in Attempts : TendsRow(p, b)
    BY <1>11, <2>2, SettleRows DEF Concludes, TypeOK
  <2> QED
    BY <1>11, <2>1, <2>3, TailPc DEF Interrupted, Tends
<1>12. CASE Tail(p, a)
  <2>1. Still(p) /\ proc'[p].pc = "ack"
    BY <1>12, EnterEffect DEF Tail, TypeOK
  <2>2. \E phase \in SETTLED_PHASES : SettleAs(a, phase, "other")
    BY <1>12 DEF Tail, SETTLED_PHASES
  <2>3. \A b \in Attempts : TendsRow(p, b)
    BY <1>12, <2>2, SettleRows DEF Concludes, TypeOK
  <2> QED
    BY <1>12, <2>1, <2>3, TailPc DEF Tail, Tends
<1>13. CASE Fail(p, a)
  <2>1. Still(p) /\ proc'[p].pc = "ack"
    BY <1>13, EnterEffect DEF Fail, TypeOK
  <2>2. \E phase \in SETTLED_PHASES : SettleAs(a, phase, "other")
    BY <1>13 DEF Fail, SETTLED_PHASES
  <2>3. \A b \in Attempts : TendsRow(p, b)
    BY <1>13, <2>2, SettleRows DEF Concludes, TypeOK
  <2> QED
    BY <1>13, <2>1, <2>3, TailPc DEF Fail, Tends
<1>14. CASE Begin(p, a)
  <2>1. Row(a)
    BY <1>14, LeasedRow DEF Begin, Published, Held
  <2>2. att[a].phase = "minted"
    BY <1>14, <2>1 DEF Begin, Published, Undecided, Row, Began, TypeOK, Attempt,
                     Phases
  <2>3. /\ Others(a) /\ SameAttempt(a) /\ att'[a].phase = "exchange_started"
        /\ att'[a].session = att[a].session /\ att'[a].outcome = att[a].outcome
    BY <1>14 DEF Begin, Others, SameAttempt, TypeOK, Attempt
  <2>4. proc[p].a = a /\ Still(p) /\ proc'[p].pc = "post" /\ proc'[p].a = a
    BY <1>14, EnterEffect DEF Begin, Published, Held, TypeOK
  <2> QED
    BY <1>14, <2>2, <2>3, <2>4 DEF Begin, Starts
<1> QED
  BY <1>1, <1>2, <1>3, <1>4, <1>5, <1>6, <1>7, <1>8, <1>9, <1>10, <1>11, <1>12, <1>13, <1>14
     DEF Pass, Settle

\* A step of an exchange that leaves the attempt's row as it is.
LEMMA GoesStill ==
  ASSUME HasPrior, NEW p \in Procs, Still(p), proc'[p].a = proc[p].a,
         proc[p].pc \in Exchanging \ {"post", "tail", "fail"}, posted' = posted,
         Follows(proc[p].pc, proc'[p].pc, att[proc[p].a].purpose),
         proc'[p].pc # "verify",
         \A b \in Attempts : Steady(b), Others(proc[p].a)
  PROVE  Goes(p)
<1>1. proc[p].a \in Attempts
  BY TailPc DEF HasPrior
<1> QED
  BY <1>1 DEF Goes, Steady, SameRow

\* An exchange that raises.
LEMMA RaiseFlows ==
  ASSUME TypeOK, HasPrior, NEW p \in Procs, Raise(p), posted' = posted, att' = att,
         proc[p].pc \in Exchanging \ {"post", "tail", "fail"}
  PROVE  Goes(p)
<1>1. Still(p) /\ proc'[p].pc = "fail" /\ proc'[p].a = proc[p].a
  BY EnterEffect DEF Raise, TypeOK
<1>2. proc[p].a \in Attempts
  BY TailPc DEF HasPrior
<1>3. (\A b \in Attempts : Steady(b)) /\ Others(proc[p].a)
  BY <1>2, SameRows
<1> QED
  BY <1>1, <1>3, GoesStill DEF Follows

LEMMA ExchangeNames ==
  {"post", "note", "verify", "insert", "bind", "write", "fetch", "page", "switch",
   "revoke", "record", "declare", "tail", "fail"} = Exchanging
BY DEF Exchanging, Leaving

LEMMA PostFlows ==
  ASSUME TypeOK, HasPrior, NEW p \in Procs, NEW a \in Attempts, Post(p, a)
  PROVE  Goes(p)
<1> USE DEF vars, db, casa, bank
<1>1. Still(p) /\ proc'[p].pc \in {"note", "fail"} /\ proc'[p].a = a
  BY GotoEffect, EnterEffect DEF Post, At, Raise, TypeOK
<1>2. att' = att /\ proc[p].pc = "post" /\ proc[p].a = a
      /\ posted' = [posted EXCEPT ![a] = @ + 1]
  BY DEF Post, At
<1>3. posted[a] \in Nat
  BY DEF TypeOK
<1>4. posted'[a] = posted[a] + 1 /\ \A b \in Attempts \ {a} : posted'[b] = posted[b]
  BY <1>2 DEF TypeOK
<1>5. posted'[a] > 0
  BY <1>3, <1>4
<1>6. Others(a) /\ SameAttempt(a)
  BY <1>2 DEF Others, SameAttempt
<1>7. Follows("post", proc'[p].pc, att[a].purpose)
  BY <1>1 DEF Follows
<1> QED
  BY <1>1, <1>2, <1>4, <1>5, <1>6, <1>7, ExchangeNames DEF Goes

LEMMA NoteFlows ==
  ASSUME TypeOK, HasPrior, NEW p \in Procs, NEW a \in Attempts, Note(p, a)
  PROVE  Goes(p)
<1> USE DEF vars, db, casa, bank
<1>1. proc[p].pc = "note" /\ proc[p].a = a /\ posted' = posted
  BY DEF Note, At
<1>2. CASE LostFence(p, a)
  BY <1>1, <1>2, RaiseFlows, ExchangeNames DEF LostFence
<1>3. CASE /\ att' = [att EXCEPT ![a].session = TRUE, ![a].lapsed = FALSE]
           /\ Holds(p, a) /\ Goto(p, "verify")
  <2>1. Still(p) /\ proc'[p].pc = "verify" /\ proc'[p].a = a
    BY <1>1, <1>3, GotoEffect DEF TypeOK
  <2>2. /\ Others(a) /\ SameAttempt(a) /\ att'[a].phase = att[a].phase
        /\ att'[a].token = att[a].token /\ att'[a].outcome = att[a].outcome
        /\ att'[a].session
    BY <1>3, SessionRows DEF TypeOK
  <2> QED
    BY <1>1, <1>3, <2>1, <2>2, ExchangeNames DEF Goes, Follows, Leased
<1> QED
  BY <1>2, <1>3 DEF Note

LEMMA VerifyFlows ==
  ASSUME TypeOK, HasPrior, NEW p \in Procs, NEW a \in Attempts, Verify(p, a)
  PROVE  Goes(p)
<1> USE DEF vars, db, casa, bank
<1> DEFINE s == IF att[a].purpose = "renew"
                THEN acct[att[a].account].bound ELSE Nobody
           f == [x \in Accounts |-> acct[x].life]
<1>1. proc[p].pc = "verify" /\ proc[p].a = a /\ posted' = posted
  BY DEF Verify, At
<1>2. CASE Raise(p) /\ att' = att
  BY <1>1, <1>2, RaiseFlows, ExchangeNames
<1>3. CASE Enter(p, "tail")
  <2>1. Still(p) /\ proc'[p].pc = "tail" /\ proc'[p].a = a
    BY <1>1, <1>3, EnterEffect DEF TypeOK
  <2>2. att' = att \/ att' = [att EXCEPT ![a].lapsed = FALSE]
    BY <1>1, <1>3, <2>1 DEF Verify, Beats, TypeOK, Collector
  <2>3. Others(a) /\ \A b \in Attempts : Steady(b)
    BY <2>2, SameRows, BeatRows DEF TypeOK
  <2> QED
    BY <1>1, <2>1, <2>3, GoesStill, ExchangeNames DEF Follows
<1>4. ASSUME Holds(p, a),
             att' = [att EXCEPT ![a].outcome = "verified", ![a].lapsed = FALSE],
             proc' = [proc EXCEPT ![p].pc = "insert", ![p].left = Accounts,
                                  ![p].prior = s, ![p].lives = f]
      PROVE  Goes(p)
  <2> HIDE DEF s, f
  <2>1. Still(p) /\ proc'[p].pc = "insert" /\ proc'[p].a = a
    BY <1>1, <1>4 DEF Still, TypeOK, Collector
  <2>2. /\ Others(a) /\ SameAttempt(a) /\ att'[a].phase = att[a].phase
        /\ att'[a].token = att[a].token /\ att'[a].session = att[a].session
    BY <1>4, OutcomeRows DEF TypeOK
  <2> QED
    BY <1>1, <1>4, <2>1, <2>2, ExchangeNames DEF Goes, Follows, Leased
<1> QED
  BY <1>2, <1>3, <1>4 DEF Verify

LEMMA InsertFlows ==
  ASSUME TypeOK, HasPrior, NEW p \in Procs, NEW a \in Attempts, InsertSession(p, a)
  PROVE  Goes(p)
<1> USE DEF vars, db, casa, bank
<1>1. proc[p].pc = "insert" /\ proc[p].a = a /\ posted' = posted
  BY DEF InsertSession, At
<1>2. CASE LostFence(p, a)
  BY <1>1, <1>2, RaiseFlows, ExchangeNames DEF LostFence
<1>3. ASSUME att' = [att EXCEPT ![a].lapsed = FALSE],
             \/ att[a].purpose = "link" /\ Goto(p, "bind")
             \/ /\ att[a].purpose = "renew"
                /\ \E x \in Accounts :
                     proc' = [proc EXCEPT ![p].pc = "fetch", ![p].cur = x]
      PROVE  Goes(p)
  <2>1. /\ Still(p) /\ proc'[p].a = a
        /\ \/ att[a].purpose = "link" /\ proc'[p].pc = "bind"
           \/ att[a].purpose = "renew" /\ proc'[p].pc = "fetch"
    <3>1. CASE att[a].purpose = "link" /\ Goto(p, "bind")
      BY <1>1, <3>1, GotoEffect DEF TypeOK
    <3>2. ASSUME NEW x \in Accounts,
                 proc' = [proc EXCEPT ![p].pc = "fetch", ![p].cur = x]
          PROVE  Still(p) /\ proc'[p].a = a /\ proc'[p].pc = "fetch"
      BY <1>1, <3>2 DEF Still, TypeOK, Collector
    <3> QED
      BY <1>3, <3>1, <3>2
  <2>2. Others(a) /\ \A b \in Attempts : Steady(b)
    BY <1>3, BeatRows DEF TypeOK
  <2> QED
    BY <1>1, <2>1, <2>2, GoesStill, ExchangeNames DEF Follows
<1> QED
  BY <1>2, <1>3 DEF InsertSession, Beats

LEMMA BindReadFlows ==
  ASSUME TypeOK, HasPrior, NEW p \in Procs, NEW a \in Attempts, BindRead(p, a)
  PROVE  Goes(p)
<1> USE DEF vars, db, casa, bank
<1>1. proc[p].pc = "bind" /\ proc[p].a = a /\ posted' = posted
  BY DEF BindRead, At
<1>2. Others(a) /\ \A b \in Attempts : Steady(b)
  <2>1. att' = att \/ att' = [att EXCEPT ![a].lapsed = FALSE]
    BY DEF BindRead, LostFence, Beats
  <2>2. CASE att' = att
    BY <2>2, SameRows DEF Others
  <2> QED
    BY <2>1, <2>2, BeatRows DEF TypeOK
<1>3. CASE Enter(p, "fail")
  <2>1. Still(p) /\ proc'[p].pc = "fail" /\ proc'[p].a = a
    BY <1>1, <1>3, EnterEffect DEF TypeOK
  <2> QED
    BY <1>1, <1>2, <2>1, GoesStill, ExchangeNames DEF Follows
<1>4. CASE Still(p) /\ proc'[p].pc = "write" /\ proc'[p].a = proc[p].a
  BY <1>1, <1>2, <1>4, GoesStill, ExchangeNames DEF Follows
<1> QED
  BY <1>3, <1>4, BindReadEffect

LEMMA BindWriteFlows ==
  ASSUME TypeOK, HasPrior, NEW p \in Procs, NEW a \in Attempts, BindWrite(p, a)
  PROVE  Goes(p)
<1> USE DEF vars, db, casa, bank
<1>1. proc[p].pc = "write" /\ proc[p].a = a /\ posted' = posted /\ att' = att
  BY DEF BindWrite, At
<1>2. CASE Enter(p, "fail")
  BY <1>1, <1>2, RaiseFlows, ExchangeNames DEF Raise
<1>3. CASE Still(p) /\ proc'[p].pc = "fetch" /\ proc'[p].a = proc[p].a
  BY <1>1, <1>3, SameRows, GoesStill, ExchangeNames DEF Follows
<1> QED
  BY <1>2, <1>3, BindWriteEffect

LEMMA PageFlows ==
  ASSUME TypeOK, HasPrior, NEW p \in Procs, NEW a \in Attempts, Page(p, a)
  PROVE  Goes(p)
<1> USE DEF vars, db, casa, bank
<1>1. proc[p].pc \in {"fetch", "page"} /\ proc[p].a = a /\ posted' = posted
  BY DEF Page, At
<1>2. CASE LostFence(p, a)
  BY <1>1, <1>2, RaiseFlows, ExchangeNames DEF LostFence
<1>3. CASE att' = [att EXCEPT ![a].lapsed = FALSE] /\ Goto(p, "page")
  <2>1. Still(p) /\ proc'[p].a = a /\ proc'[p].pc = "page"
    BY <1>1, <1>3, GotoEffect DEF TypeOK
  <2>2. Others(a) /\ \A b \in Attempts : Steady(b)
    BY <1>3, BeatRows DEF TypeOK
  <2> QED
    BY <1>1, <2>1, <2>2, GoesStill, ExchangeNames DEF Follows
<1> QED
  BY <1>2, <1>3 DEF Page, Beats

\* Where a process goes from an account, and what it notes.
LEMMA AfterFetchGoes ==
  ASSUME proc \in [Procs -> Collector], NEW p \in Procs, NEW a, NEW ok,
         AfterFetch(p, a, ok)
  PROVE  /\ Still(p) /\ proc'[p].a = proc[p].a /\ proc'[p].prior = proc[p].prior
         /\ proc'[p].left = proc[p].left \ {proc[p].cur}
         /\ \/ att[a].purpose = "link" /\ proc'[p].pc = "bind"
            \/ att[a].purpose = "renew" /\ proc'[p].pc \in {"fetch", "switch"}
            \/ proc'[p].left = {} /\ proc'[p].pc = "declare"
<1> DEFINE rest == proc[p].left \ {proc[p].cur}
           isShort == proc[p].short \/ ~ok
           on(pc, x) == [proc[p] EXCEPT !.pc = pc, !.left = rest, !.cur = x,
                                        !.short = isShort]
<1>1. \A pc, x : /\ on(pc, x).pc = pc /\ on(pc, x).a = proc[p].a
                 /\ on(pc, x).prior = proc[p].prior /\ on(pc, x).left = rest
  BY DEF Collector
<1>2. \E pc, x : /\ proc' = [proc EXCEPT ![p] = on(pc, x)]
                 /\ \/ att[a].purpose = "link" /\ pc = "bind"
                    \/ att[a].purpose = "renew" /\ pc \in {"fetch", "switch"}
                    \/ rest = {} /\ pc = "declare"
  BY DEF AfterFetch
<1> HIDE DEF on
<1> QED
  BY <1>1, <1>2 DEF Still

LEMMA FetchedFlows ==
  ASSUME TypeOK, HasPrior, NEW p \in Procs, NEW a \in Attempts, Fetched(p, a)
  PROVE  Goes(p)
<1> USE DEF vars, db, casa, bank
<1>1. proc[p].pc = "page" /\ proc[p].a = a /\ posted' = posted /\ att' = att
  BY DEF Fetched, At
<1>2. CASE Raise(p)
  BY <1>1, <1>2, RaiseFlows, ExchangeNames
<1>3. ASSUME NEW ok, AfterFetch(p, a, ok)
      PROVE  Goes(p)
  <2>1. /\ Still(p) /\ proc'[p].a = proc[p].a
        /\ Follows("page", proc'[p].pc, att[a].purpose) /\ proc'[p].pc # "verify"
    BY <1>3, AfterFetchGoes DEF Follows, TypeOK
  <2>2. Others(a) /\ \A b \in Attempts : Steady(b)
    BY <1>1, SameRows
  <2> QED
    BY <1>1, <2>1, <2>2, GoesStill, ExchangeNames
<1> QED
  BY <1>2, <1>3 DEF Fetched

LEMMA SwitchFlows ==
  ASSUME TypeOK, HasPrior, NEW p \in Procs, NEW a \in Attempts, Switch(p, a)
  PROVE  Goes(p)
<1> USE DEF vars, db, casa, bank
<1>1. proc[p].pc = "switch" /\ proc[p].a = a /\ posted' = posted /\ att' = att
  BY DEF Switch, At
<1>2. CASE Raise(p)
  BY <1>1, <1>2, RaiseFlows, ExchangeNames
<1>3. CASE \/ proc' = [proc EXCEPT ![p].pc = "declare", ![p].short = TRUE]
           \/ Goto(p, "revoke")
  <2>1. Still(p) /\ proc'[p].a = a /\ proc'[p].pc \in {"declare", "revoke"}
    BY <1>1, <1>3, GotoEffect DEF Still, TypeOK, Collector
  <2>2. Others(a) /\ \A b \in Attempts : Steady(b)
    BY <1>1, SameRows
  <2> QED
    BY <1>1, <2>1, <2>2, GoesStill, ExchangeNames DEF Follows
<1> QED
  BY <1>2, <1>3 DEF Switch

LEMMA RevokeFlows ==
  ASSUME TypeOK, HasPrior, NEW p \in Procs, NEW a \in Attempts,
         Revoke(p, a) \/ RecordRevocation(p, a)
  PROVE  Goes(p)
<1> USE DEF vars, db, casa, bank
<1>1. /\ proc[p].a = a /\ posted' = posted /\ att' = att /\ Still(p)
      /\ proc'[p].a = a
      /\ \/ proc[p].pc = "revoke" /\ proc'[p].pc = "record"
         \/ proc[p].pc = "record" /\ proc'[p].pc = "declare"
  <2>1. CASE Revoke(p, a)
    <3>1. PICK ok \in BOOLEAN :
            proc' = [proc EXCEPT ![p].pc = "record", ![p].answer = ok]
      BY <2>1 DEF Revoke
    <3>2. Still(p) /\ proc'[p].a = proc[p].a /\ proc'[p].pc = "record"
      BY <3>1 DEF Still, TypeOK, Collector
    <3> QED
      BY <2>1, <3>2 DEF Revoke, At
  <2>2. CASE RecordRevocation(p, a)
    BY <2>2, GotoEffect DEF RecordRevocation, At, TypeOK
  <2> QED
    BY <2>1, <2>2
<1>2. Others(a) /\ \A b \in Attempts : Steady(b)
  BY <1>1, SameRows
<1> QED
  BY <1>1, <1>2, GoesStill, ExchangeNames DEF Follows

LEMMA DeclareFlows ==
  ASSUME TypeOK, HasPrior, NEW p \in Procs, NEW a \in Attempts, Declare(p, a)
  PROVE  Goes(p)
<1> USE DEF vars, db, casa, bank
<1>1. proc[p].pc = "declare" /\ proc[p].a = a /\ posted' = posted
  BY DEF Declare, At
<1>2. CASE LostFence(p, a)
  BY <1>1, <1>2, RaiseFlows, ExchangeNames DEF LostFence
<1>3. ASSUME NEW v, Holds(p, a), Enter(p, "tail"),
             att' = [att EXCEPT ![a].lapsed = FALSE, ![a].outcome = v]
      PROVE  Goes(p)
  <2>1. Still(p) /\ proc'[p].a = a /\ proc'[p].pc = "tail"
    BY <1>1, <1>3, EnterEffect DEF TypeOK
  <2>2. att' = [att EXCEPT ![a].outcome = v, ![a].lapsed = FALSE]
    BY <1>3 DEF TypeOK, Attempt
  <2>3. /\ Others(a) /\ SameAttempt(a) /\ att'[a].phase = att[a].phase
        /\ att'[a].token = att[a].token /\ att'[a].session = att[a].session
    BY <2>2, OutcomeRows DEF TypeOK
  <2> QED
    BY <1>1, <1>3, <2>1, <2>3, ExchangeNames DEF Goes, Follows, Leased
<1> DEFINE lacks == \/ proc[p].short
                    \/ att[a].purpose = "renew"
                       /\ \E x \in Accounts : ~DeepFetched(x, a)
           v == IF lacks THEN "verified_partial" ELSE att[a].outcome
<1>4. \/ LostFence(p, a)
      \/ /\ Holds(p, a) /\ Enter(p, "tail")
         /\ att' = [att EXCEPT ![a].lapsed = FALSE, ![a].outcome = v]
  BY DEF Declare
<1> HIDE DEF v
<1> QED
  BY <1>2, <1>3, <1>4

LEMMA QuietFlows ==
  ASSUME TypeOK, NEW a \in Attempts,
         \/ Casa(a) \/ Lapse(a) \/ UnlinkCall(a) \/ UnlinkWrite(a) \/ UnlinkDies
         \/ UNCHANGED vars
  PROVE  Quiet
<1> USE DEF vars, db, casa, bank
<1>1. CASE Lapse(a)
  BY <1>1, BeatRows DEF Lapse, Quiet, TypeOK
<1>2. CASE Casa(a) \/ UnlinkCall(a) \/ UnlinkWrite(a) \/ UnlinkDies \/ UNCHANGED vars
  BY <1>2, SameRows DEF Casa, Redirect, Land, CasaEnds, UnlinkCall, UnlinkWrite,
                        UnlinkDies, Quiet
<1> QED
  BY <1>1, <1>2

LEMMA CrashFlows ==
  ASSUME TypeOK, NEW p \in Procs, Crash(p)
  PROVE  Tends(p)
<1>1. Still(p) /\ proc'[p].pc = "idle"
  BY StopEffect DEF Crash, TypeOK
<1> QED
  BY <1>1, TendsStill, TailPc DEF Crash, db, bank

LEMMA ExchangeFlows ==
  ASSUME TypeOK, HasPrior, NEW p \in Procs, NEW a \in Attempts, Exchange(p, a)
  PROVE  Goes(p) /\ proc[p].a = a
<1>1. proc[p].a = a
  BY DEF Exchange, Post, Note, Verify, InsertSession, BindRead, BindWrite, Page, Fetched, Switch,
         Revoke, RecordRevocation, Declare, At
<1>2. CASE Post(p, a) \/ Note(p, a) \/ Verify(p, a) \/ InsertSession(p, a)
  BY <1>1, <1>2, PostFlows, NoteFlows, VerifyFlows, InsertFlows
<1>3. CASE BindRead(p, a) \/ BindWrite(p, a) \/ Page(p, a) \/ Fetched(p, a)
           \/ Switch(p, a)
  BY <1>1, <1>3, BindReadFlows, BindWriteFlows, PageFlows, FetchedFlows, SwitchFlows
<1>4. CASE Revoke(p, a) \/ RecordRevocation(p, a) \/ Declare(p, a)
  BY <1>1, <1>4, RevokeFlows, DeclareFlows
<1> QED
  BY <1>2, <1>3, <1>4 DEF Exchange

LEMMA Flows ==
  ASSUME TypeOK, HasPrior, NoLease, [Next]_vars
  PROVE  Flow
<1>1. ASSUME NEW p \in Procs, NEW a \in Attempts, Exchange(p, a)
      PROVE  Flow
  BY <1>1, ExchangeFlows DEF Flow
<1>2. ASSUME NEW p \in Procs, NEW a \in Attempts,
             Read(p, a) \/ Pass(p, a) \/ Settle(p, a)
      PROVE  Flow
  BY <1>2, PassFlows DEF Flow
<1>3. ASSUME NEW p \in Procs, Crash(p)
      PROVE  Flow
  BY <1>3, CrashFlows DEF Flow
<1>4. ASSUME NEW a \in Attempts,
             Casa(a) \/ Lapse(a) \/ UnlinkCall(a) \/ UnlinkWrite(a)
      PROVE  Flow
  BY <1>4, QuietFlows DEF Flow
<1>5. CASE UnlinkDies \/ UNCHANGED vars
  BY <1>5, SameRows DEF UnlinkDies, Quiet, Flow, vars, db, casa, bank
<1> QED
  BY <1>1, <1>2, <1>3, <1>4, <1>5 DEF Next, Flow


-----------------------------------------------------------------------------
(* The discipline is inductive.                                            *)

LEMMA MintRows ==
  ASSUME TypeOK, NoLease, NEW a \in Attempts, Mint(a)
  PROVE  /\ Others(a) /\ att[a].phase = "none"
         /\ att'[a].phase \in {"minted", "abandoned"}
         /\ att'[a].session = att[a].session /\ att'[a].outcome = att[a].outcome
         /\ att'[a].token = att[a].token
<1>0. att[a].phase = "none"
  BY DEF Mint
<1>1. PICK phase \in {"minted", "abandoned"} :
        \/ att' = [att EXCEPT ![a].phase = phase, ![a].purpose = "link"]
        \/ \E s \in Attempts, x \in Accounts :
             att' = [att EXCEPT ![a].phase = phase, ![a].purpose = "renew",
                       ![a].account = x, ![a].expected = sess[s].gen]
  BY DEF Mint, BoundTo
<1>2. CASE att' = [att EXCEPT ![a].phase = phase, ![a].purpose = "link"]
  BY <1>0, <1>2 DEF TypeOK, Attempt, Others
<1>3. CASE \E s \in Attempts, x \in Accounts :
             att' = [att EXCEPT ![a].phase = phase, ![a].purpose = "renew",
                       ![a].account = x, ![a].expected = sess[s].gen]
  <2>1. PICK s \in Attempts, x \in Accounts :
          att' = [att EXCEPT ![a].phase = phase, ![a].purpose = "renew",
                    ![a].account = x, ![a].expected = sess[s].gen]
    BY <1>3
  <2> DEFINE g == sess[s].gen
  <2>2. att' = [att EXCEPT ![a].phase = phase, ![a].purpose = "renew",
                  ![a].account = x, ![a].expected = g]
    BY <2>1
  <2> HIDE DEF g
  <2> QED
    BY <1>0, <2>2 DEF TypeOK, Attempt, Others
<1> QED
  BY <1>1, <1>2, <1>3

\* Where a step of an exchange leads.
LEMMA FollowsNames ==
  ASSUME NEW from, NEW to, NEW purpose, Follows(from, to, purpose)
  PROVE  /\ to \in Exchanging /\ to # "post"
         /\ to \in {"switch", "revoke", "record"}
              => purpose = "renew" \/ from \in {"switch", "revoke"}
         /\ to \in {"bind", "write"} => purpose = "link" \/ from = "bind"
         /\ to = "note" => from = "post"
         /\ to = "verify" => from = "note"
         /\ from = "post" => to \in {"note", "fail"}
         /\ from = "note" => to \in {"verify", "fail"}
         /\ from \in Leaving => to \in Leaving
BY DEF Follows, Exchanging, Leaving

\* What each process of an exchange knows survives the steps of the others.
LEMMA ExchangesStay ==
  ASSUME TypeOK, RowStep, NEW q \in Procs, Exchanges(q), HasPrior,
         proc'[q] = proc[q],
         InExchange(q) => posted'[proc[q].a] = posted[proc[q].a],
         InExchange(q) /\ att'[proc[q].a].token = q => Steady(proc[q].a)
  PROVE  Exchanges(q)'
<1> SUFFICES ASSUME InExchange(q) PROVE Exchanges(q)'
  BY DEF Exchanges, InExchange
<1>1. proc[q].a \in Attempts /\ att[proc[q].a].phase \notin {"none", "minted"}
  BY TailPc DEF HasPrior, Exchanges, Of, InExchange
<1>2. /\ att'[proc[q].a].phase \notin {"none", "minted"}
      /\ att'[proc[q].a].purpose = att[proc[q].a].purpose
  BY <1>1, RowFacts DEF SameAttempt
<1> QED
  BY <1>2 DEF Exchanges, InExchange, Of, Leased, Holds, Steady, SameRow

LEMMA DisciplineInit == Init => Discipline
<1> SUFFICES ASSUME Init PROVE Discipline
  OBVIOUS
<1>1. \A p \in Procs : ~InExchange(p)
  BY DEF Init, Idle, InExchange, Exchanging, Leaving
<1>2. Mints
  BY DEF Init, NoAttempt, Mints
<1> QED
  BY <1>1, <1>2 DEF Discipline, OneExchange, Exchanges

LEMMA QuietDiscipline ==
  ASSUME TypeOK, HasPrior, NoLease, RowStep, Discipline,
         proc' = proc, posted' = posted,
         \/ Quiet \/ \E a \in Attempts : Mint(a)
         \/ \E x \in Accounts : Forget(x)
  PROVE  Discipline'
<1> USE DEF Discipline
<1>1. OneExchange'
  BY DEF OneExchange, InExchange
<1>2. \A b \in Attempts :
        \/ Steady(b)
        \/ /\ att[b].phase = "none" /\ att'[b].phase \in {"minted", "abandoned"}
           /\ att'[b].session = att[b].session /\ att'[b].outcome = att[b].outcome
        \/ att'[b].phase = "erased" /\ att'[b].token = Nobody
  <2>1. CASE Quiet
    BY <2>1 DEF Quiet
  <2>2. ASSUME NEW a \in Attempts, Mint(a), NEW b \in Attempts
        PROVE  \/ Steady(b)
               \/ /\ att[b].phase = "none"
                  /\ att'[b].phase \in {"minted", "abandoned"}
                  /\ att'[b].session = att[b].session
                  /\ att'[b].outcome = att[b].outcome
    BY <2>2, MintRows DEF Others, Steady, SameRow, SameAttempt
  <2>3. ASSUME NEW x \in Accounts, Forget(x), NEW b \in Attempts
        PROVE  \/ Steady(b)
               \/ att'[b].phase = "erased" /\ att'[b].token = Nobody
    BY <2>3, ForgetEffect DEF Steady, SameRow, SameAttempt
  <2> QED
    BY <2>1, <2>2, <2>3
<1>3. Mints'
  BY <1>2 DEF Mints, Steady, SameRow
<1>4. ASSUME NEW q \in Procs PROVE Exchanges(q)'
  <2>1. InExchange(q) =>
          /\ proc[q].a \in Attempts
          /\ att[proc[q].a].phase \notin {"none", "minted"}
    BY TailPc DEF HasPrior, Exchanges, Of, InExchange
  <2>2. InExchange(q) /\ att'[proc[q].a].token = q => Steady(proc[q].a)
    BY <1>2, <2>1, SomeProc
  <2> QED
    BY <2>2, ExchangesStay
<1> QED
  BY <1>1, <1>3, <1>4

LEMMA TendsDiscipline ==
  ASSUME TypeOK, HasPrior, RowStep, Discipline, NEW p \in Procs, Tends(p)
  PROVE  Discipline'
<1> USE DEF Discipline
<1>1. OneExchange'
  BY DEF OneExchange, InExchange, Tends, Still
<1>2. Mints'
  BY SettledNames DEF Mints, Tends, TendsRow, Steady, SameRow, SettlesRow
<1>3. ASSUME NEW q \in Procs PROVE Exchanges(q)'
  <2>1. CASE q = p
    BY <2>1 DEF Exchanges, InExchange, Tends
  <2>2. CASE q # p
    <3>1. InExchange(q) => proc[q].a \in Attempts
      BY TailPc DEF HasPrior, InExchange
    <3>2. InExchange(q) /\ att'[proc[q].a].token = q => Steady(proc[q].a)
      BY <2>2, <3>1, SomeProc DEF Tends, TendsRow
    <3>3. proc'[q] = proc[q] /\ posted' = posted
      BY <2>2 DEF Tends, Still
    <3> QED
      BY <3>2, <3>3, ExchangesStay
  <2> QED
    BY <2>1, <2>2
<1> QED
  BY <1>1, <1>2, <1>3

LEMMA StartsDiscipline ==
  ASSUME TypeOK, HasPrior, RowStep, Discipline, NEW p \in Procs, Starts(p)
  PROVE  Discipline'
<1> USE DEF Discipline
<1> DEFINE a == proc[p].a
<1>1. /\ a \in Attempts /\ Still(p) /\ proc'[p].pc = "post" /\ proc'[p].a = a
      /\ posted' = posted /\ Others(a) /\ att[a].phase = "minted"
      /\ att'[a].phase = "exchange_started"
      /\ att'[a].session = att[a].session /\ att'[a].outcome = att[a].outcome
  BY DEF Starts
<1>2. \A q \in Procs : InExchange(q) => proc[q].a \in Attempts \ {a}
  BY <1>1, TailPc DEF HasPrior, InExchange, Exchanges, Of
<1> HIDE DEF a
<1>3. OneExchange'
  BY <1>1, <1>2 DEF OneExchange, InExchange, Still
<1>4. Mints'
  BY <1>1 DEF Mints, Others
<1>5. ASSUME NEW q \in Procs PROVE Exchanges(q)'
  <2>1. CASE q = p
    BY <1>1, <2>1 DEF Exchanges, Of, Mints, Leased, Holds
  <2>2. CASE q # p
    <3>1. proc'[q] = proc[q] /\ (InExchange(q) => Steady(proc[q].a))
      BY <1>1, <1>2, <2>2 DEF Still, Others, Steady, SameRow, SameAttempt
    <3> QED
      BY <1>1, <3>1, ExchangesStay
  <2> QED
    BY <2>1, <2>2
<1> QED
  BY <1>3, <1>4, <1>5

LEMMA GoesDiscipline ==
  ASSUME TypeOK, HasPrior, RowStep, Discipline, NEW p \in Procs, Goes(p)
  PROVE  Discipline'
<1> USE DEF Discipline
<1> DEFINE a == proc[p].a
           from == proc[p].pc
           to == proc'[p].pc
<1>1. /\ a \in Attempts /\ Still(p) /\ proc'[p].a = a /\ Others(a)
      /\ SameAttempt(a)
      /\ att'[a].phase = att[a].phase /\ att'[a].token = att[a].token
      /\ InExchange(p) /\ from \notin {"tail", "fail"}
  BY DEF Goes, InExchange
<1>2. /\ Follows(from, to, att[a].purpose)
      /\ \/ posted' = posted /\ from # "post"
         \/ /\ from = "post" /\ posted'[a] > 0
            /\ \A b \in Attempts \ {a} : posted'[b] = posted[b]
      /\ \/ att'[a].session = att[a].session /\ to # "verify"
         \/ from = "note" /\ att'[a].session
      /\ \/ att'[a].outcome = att[a].outcome
         \/ to \notin {"post", "note", "verify"}
  BY DEF Goes
<1>3. \A q \in Procs \ {p} : InExchange(q) => proc[q].a \in Attempts \ {a}
  BY <1>1, TailPc DEF HasPrior, InExchange, OneExchange
<1>4. /\ to \in Exchanging /\ to # "post"
      /\ to \in {"switch", "revoke", "record"}
           => att[a].purpose = "renew" \/ from \in {"switch", "revoke"}
      /\ to \in {"bind", "write"} => att[a].purpose = "link" \/ from = "bind"
      /\ to = "note" => from = "post"
      /\ to = "verify" => from = "note"
      /\ from = "post" => to \in {"note", "fail"}
      /\ from = "note" => to \in {"verify", "fail"}
  BY <1>2, FollowsNames
<1>5. OneExchange'
  BY <1>1, <1>3 DEF OneExchange, InExchange, Still
<1>6. /\ att[a].phase \notin {"none", "minted"}
      /\ from # "post" => posted[a] > 0
      /\ from \in {"switch", "revoke", "record"} => att[a].purpose = "renew"
      /\ from \in {"bind", "write"} => att[a].purpose = "link"
      /\ att[a].token = p =>
           /\ att[a].phase = "exchange_started"
           /\ from \notin {"post", "note", "fail"} => att[a].session
           /\ from \in {"post", "note", "verify"} => att[a].outcome = "none"
  BY <1>1 DEF Exchanges, Of, Leased, Holds
<1>7. Mints'
  BY <1>1, <1>6 DEF Mints, Others
<1>8. ASSUME NEW q \in Procs PROVE Exchanges(q)'
  <2>1. CASE q = p
    <3>1. posted'[a] > 0
      BY <1>2, <1>6
    <3>2. att'[a].token = p /\ to \notin {"post", "note", "fail"} => att'[a].session
      BY <1>1, <1>2, <1>6, <1>4
    <3>3. att'[a].token = p /\ to \in {"post", "note", "verify"}
            => att'[a].outcome = "none"
      BY <1>1, <1>2, <1>6, <1>4
    <3> HIDE DEF from
    <3> QED
      BY <1>1, <1>4, <1>6, <2>1, <3>1, <3>2, <3>3
         DEF Exchanges, Of, Leased, Holds, SameAttempt
  <2>2. CASE q # p
    <3>1. /\ proc'[q] = proc[q]
          /\ InExchange(q) => /\ Steady(proc[q].a)
                              /\ posted'[proc[q].a] = posted[proc[q].a]
      BY <1>1, <1>2, <1>3, <2>2 DEF Still, Others, Steady, SameRow, SameAttempt
    <3> QED
      BY <3>1, ExchangesStay
  <2> QED
    BY <2>1, <2>2
<1> QED
  BY <1>5, <1>7, <1>8

LEMMA DisciplineNext ==
  ASSUME TypeOK, HasPrior, NoLease, RowStep, Discipline, Flow
  PROVE  Discipline'
<1>1. ASSUME NEW a \in Attempts, Mint(a)
      PROVE  proc' = proc /\ posted' = posted
  BY <1>1 DEF Mint, bank
<1>2. ASSUME NEW x \in Accounts, Forget(x)
      PROVE  proc' = proc /\ posted' = posted
  BY <1>2 DEF Forget, bank
<1>3. Quiet => proc' = proc /\ posted' = posted
  BY DEF Quiet
<1> QED
  BY <1>1, <1>2, <1>3, QuietDiscipline, TendsDiscipline, StartsDiscipline,
     GoesDiscipline DEF Flow


-----------------------------------------------------------------------------
(* An exchange that is past binding stays so.                              *)

LEMMA PastStays ==
  ASSUME TypeOK, HasPrior, RowStep, CodeOnce, Flow, NEW s \in Attempts, Past(s)
  PROVE  Past(s)'
<1>1. posted'[s] > 0
  <2>1. posted' = posted \/ \E p \in Procs : Goes(p)
    BY DEF Flow, Quiet, Tends, Starts, Mint, Forget, bank
  <2> QED
    BY <2>1 DEF Goes, Past
<1>2. ASSUME NEW q \in Procs, InExchange(q), proc[q].a = s
      PROVE  att'[s].purpose = "renew" /\ proc[q].pc \in Leaving
  <2>1. att[s].phase # "none"
    BY <1>2, TailPc DEF HasPrior, InExchange
  <2> QED
    BY <1>2, <2>1, RowFacts DEF Past, SameAttempt
<1>3. ASSUME NEW q \in Procs, InExchange(q)', proc'[q].a = s
      PROVE  att'[s].purpose = "renew" /\ proc'[q].pc \in Leaving
  <2>1. CASE proc'[q] = proc[q]
    BY <1>2, <1>3, <2>1 DEF InExchange
  <2>2. CASE Tends(q)
    BY <1>3, <2>2 DEF Tends, InExchange
  <2>3. CASE Starts(q)
    BY <1>3, <2>3 DEF Starts, CodeOnce, Past
  <2>4. CASE Goes(q)
    <3>1. /\ InExchange(q) /\ proc[q].a = s
          /\ Follows(proc[q].pc, proc'[q].pc, att[s].purpose)
      BY <1>3, <2>4 DEF Goes, InExchange
    <3> QED
      BY <1>2, <3>1, FollowsNames
  <2>5. \/ proc'[q] = proc[q] \/ Tends(q) \/ Starts(q) \/ Goes(q)
    <3>1. \A p \in Procs : Tends(p) \/ Starts(p) \/ Goes(p) => Still(p)
      BY DEF Tends, Starts, Goes
    <3>2. Quiet \/ (\E a \in Attempts : Mint(a)) \/ (\E x \in Accounts : Forget(x))
            => proc' = proc
      BY DEF Quiet, Mint, Forget
    <3> QED
      BY <3>1, <3>2 DEF Flow, Still
  <2> QED
    BY <2>1, <2>2, <2>3, <2>4, <2>5
<1> QED
  BY <1>1, <1>3 DEF Past

\* An exchange that may still bind is not past binding.
LEMMA NotPast ==
  ASSUME NEW p \in Procs, InExchange(p),
         proc[p].pc \notin Leaving \/ att[proc[p].a].purpose = "link"
  PROVE  ~Past(proc[p].a)
BY DEF Past

-----------------------------------------------------------------------------
(* The invariant about sessions and bindings.                              *)

\* Nothing is known of an attempt whose code was never posted.
Unposted == \A a \in Attempts : posted[a] = 0 =>
  /\ sess[a].status = "none" /\ ~att[a].session /\ grant[a] = "none"
  /\ BoundTo(a) = {}

\* A first link is fenced by no account, so no erasure removes its row.
Unfenced == \A a \in Attempts :
  att[a].purpose = "link" \/ att[a].phase = "none" => att[a].account = Nobody

ClosedRows == \A a \in Attempts : sess[a].closed =>
  sess[a].status \in {"CLOSED", "WITHDRAWN_BY_OPERATOR", "AUTHORIZED"}

\* An account that is bound is there, and one that is there and not bound was
\* let go.
Lives == \A x \in Accounts :
  /\ acct[x].bound # Nobody => acct[x].present
  /\ acct[x].present => acct[x].life >= 1
  /\ acct[x].present /\ acct[x].bound = Nobody => acct[x].released

\* The operator's withdrawal is of a consent that exists.
Unlinks == unlink.s # Nobody =>
  /\ unlink.s \in Attempts /\ posted[unlink.s] > 0
  /\ unlink.answer = "gone" => grant[unlink.s] = "gone"

\* A renewal replaces a consent whose own exchange is past binding, and
\* withdraws it when nothing is bound to it.
Priors(p) ==
  /\ \/ proc[p].pc \in {"switch", "revoke", "record"}
     \/ proc[p].pc \in {"insert", "fetch", "page"} /\ Of(p).purpose = "renew"
     => proc[p].prior \in Attempts /\ Past(proc[p].prior)
  /\ proc[p].pc = "revoke" => BoundTo(proc[p].prior) = {}
  /\ proc[p].pc = "record" /\ proc[p].answer => grant[proc[p].prior] = "gone"

\* Account x was bound to a and still is, or was erased or let go since.
Had(x, a) == /\ acct[x].life >= 1
             /\ \/ acct[x].bound = a \/ acct[x].life > 1
                \/ acct[x].released \/ ~acct[x].present

\* A first link about to write a binding holds its lease, which cannot run
\* out before the write; the row it read, when it is still the same life, was
\* let go by then, or is its own.
Writes(p) == proc[p].pc = "write" =>
  LET x == proc[p].cur IN
  /\ x \in proc[p].left
  /\ Leased(p) /\ ~Of(p).lapsed
  /\ proc[p].lives[x] <= acct[x].life
  /\ ~proc[p].fresh /\ acct[x].present /\ acct[x].life = proc[p].lives[x]
       => acct[x].released \/ acct[x].bound = proc[p].a

\* The accounts a first link has bound so far.
Reached(p) == {x \in Accounts :
  \/ /\ proc[p].pc \in {"insert", "bind", "write", "fetch", "page"}
     /\ x \notin proc[p].left
  \/ proc[p].pc \in {"fetch", "page"} /\ x = proc[p].cur
  \/ proc[p].pc \in {"declare", "tail"}}

\* A first link that holds its lease has kept the accounts it bound, unless
\* the operator closed its consent.
Reaches(p) ==
  /\ InExchange(p) /\ Leased(p) /\ Of(p).purpose = "link"
  /\ proc[p].pc = "tail" => Of(p).outcome \in Verdicts
  => sess[proc[p].a].closed \/ \A x \in Reached(p) : Had(x, proc[p].a)

Authorized == \A s \in Attempts : sess[s].status = "AUTHORIZED" =>
  /\ Past(s)
  /\ att[s].purpose = "link" => att[s].phase \in {"exchanged", "abandoned"}
  /\ ~sess[s].closed => \A x \in Accounts : Had(x, s)

\* Accounts are bound to a renewal only by its switch, ...
RenewBound == \A a \in Attempts : att[a].purpose = "renew" /\ BoundTo(a) # {} =>
  sess[a].status \notin {"none", "REVIEW_REQUIRED"} /\ Past(a)

\* ... and to a first link only where containment would find them.
LinkBound == \A a \in Attempts : att[a].purpose = "link" /\ BoundTo(a) # {} =>
  att[a].session /\ att[a].phase \notin {"review_required", "indeterminate"}

Bindings ==
  /\ Unposted /\ Unfenced /\ ClosedRows /\ Lives /\ Unlinks
  /\ Authorized /\ RenewBound /\ LinkBound /\ ConsentVisible
  /\ \A p \in Procs : Priors(p) /\ Reaches(p) /\ Writes(p)

BindingsInv == CollectionInv /\ Discipline /\ Bindings


-----------------------------------------------------------------------------
(* What a step does to the sessions and to the bindings.                   *)

Stages(s) == /\ ~sess[s].closed /\ ~sess'[s].closed
             /\ sess'[s].status = "REVIEW_REQUIRED" /\ ~Past(s)

Quarantines(s) == /\ ~sess[s].closed /\ ~sess'[s].closed
                  /\ sess[s].status # "AUTHORIZED"
                  /\ sess'[s].status = "REVIEW_REQUIRED" /\ BoundTo(s)' = {}

\* Promotion of a first link by its collector, of a renewal by its switch.
Promotes(s) ==
  /\ sess'[s].closed = sess[s].closed /\ sess'[s].status = "AUTHORIZED"
  /\ Past(s)' /\ \A x \in Accounts : Had(x, s)'
  /\ att[s].purpose = "link" => att'[s].phase = "exchanged"

Retires(s) == /\ ~sess[s].closed /\ ~sess'[s].closed
              /\ sess'[s].status \in {"REVOKE_PENDING", "REVOKE_FAILED"}

Ends(s) == /\ sess'[s].closed
           /\ \/ sess'[s].status = "CLOSED" /\ grant[s] = "gone"
              \/ sess'[s].status = "WITHDRAWN_BY_OPERATOR"

SessStep(s) ==
  \/ sess'[s] = sess[s]
  \/ /\ posted[s] > 0
     /\ Stages(s) \/ Quarantines(s) \/ Promotes(s) \/ Retires(s) \/ Ends(s)

Keeps(x) == /\ acct'[x].bound = acct[x].bound /\ acct'[x].life = acct[x].life
            /\ acct'[x].present = acct[x].present
            /\ acct'[x].released = acct[x].released

\* A withdrawal or a containment releases x.
Frees(x) ==
  /\ acct'[x].bound = Nobody /\ acct'[x].life = acct[x].life
  /\ acct'[x].present = acct[x].present /\ acct'[x].released
  /\ LET b == acct[x].bound
     IN  \/ sess'[b].closed
         \/ sess'[b].status # "AUTHORIZED" /\ att'[b].token = Nobody

Drops(x) == /\ ~acct'[x].present /\ acct'[x].bound = Nobody
            /\ acct'[x].life = acct[x].life

\* The first link a binds x, which is not bound elsewhere unless it had been
\* let go when a read it.
Gains(x, a) ==
  /\ posted[a] > 0 /\ ~Past(a) /\ att[a].purpose = "link"
  /\ att'[a].session /\ att'[a].phase = "exchange_started"
  /\ \E p \in Procs : At(p, a, "write") /\ proc[p].cur = x /\ Holds(p, a)
  /\ acct[x].bound \in {Nobody, a} \/ acct[x].released
  /\ acct'[x].released = acct[x].released
  /\ acct'[x].bound = a /\ acct'[x].present
  /\ acct'[x].life = IF acct[x].present THEN acct[x].life ELSE acct[x].life + 1

\* The renewal a takes x over from old.
Carries(x, a, old) ==
  /\ posted[a] > 0 /\ ~Past(a) /\ att[a].purpose = "renew" /\ Past(old)
  /\ acct[x].bound = old /\ acct'[x].bound = a /\ acct[x].fetched = a
  /\ acct'[x].life = acct[x].life /\ acct'[x].present = acct[x].present
  /\ acct'[x].released = acct[x].released
  /\ sess'[a].status = "AUTHORIZED" /\ sess'[a].gen > sess[old].gen
  /\ sess'[old].closed \/ sess'[old].status # "AUTHORIZED"

BindStep(x) == \/ Keeps(x) \/ Frees(x) \/ Drops(x)
               \/ \E a \in Attempts : Gains(x, a)
               \/ \E a, old \in Attempts : Carries(x, a, old)

Effects == /\ \A s \in Attempts : SessStep(s)
           /\ \A x \in Accounts : BindStep(x)

LEMMA SameEffects ==
  ASSUME sess' = sess, acct' = acct
  PROVE  Effects
BY DEF Effects, SessStep, BindStep, Keeps

LEMMA ForgetEffects ==
  ASSUME TypeOK, NEW x \in Accounts, Forget(x)
  PROVE  Effects
<1>1. sess' = sess
  BY DEF Forget
<1>2. acct' = [acct EXCEPT ![x] = [NoRowYet EXCEPT !.life = acct[x].life]]
  BY DEF Forget
<1>3. Drops(x) /\ \A y \in Accounts \ {x} : Keeps(y)
  BY <1>2 DEF NoRowYet, Drops, Keeps, TypeOK, Account
<1> QED
  BY <1>1, <1>3 DEF Effects, SessStep, BindStep

LEMMA FetchedEffects ==
  ASSUME TypeOK, NEW p \in Procs, NEW a \in Attempts, Fetched(p, a)
  PROVE  Effects
<1> DEFINE x == proc[p].cur
<1>1. sess' = sess
  BY DEF Fetched
<1>2. acct' = acct \/ \E s : acct[x].present /\ acct' = [acct EXCEPT ![x].fetched = s]
  BY DEF Fetched
<1>3. \A y \in Accounts : Keeps(y)
  <2>1. CASE acct' = acct
    BY <2>1 DEF Keeps
  <2>2. ASSUME NEW s, acct' = [acct EXCEPT ![x].fetched = s]
        PROVE  \A y \in Accounts : Keeps(y)
    BY <2>2 DEF Keeps, TypeOK, Account
  <2> QED
    BY <1>2, <2>1, <2>2
<1> QED
  BY <1>1, <1>3 DEF Effects, SessStep, BindStep

LEMMA InsertEffects ==
  ASSUME TypeOK, HasPrior, Discipline, NEW p \in Procs, NEW a \in Attempts,
         InsertSession(p, a)
  PROVE  Effects
<1>1. proc[p].pc = "insert" /\ proc[p].a = a
  BY DEF InsertSession, At
<1>2. InExchange(p) /\ posted[a] > 0
  BY <1>1, ExchangeNames DEF InExchange, Discipline, Exchanges
<1>3. ~Past(a)
  BY <1>1, <1>2, NotPast DEF Leaving
<1>4. CASE sess' = sess /\ acct' = acct
  BY <1>4, SameEffects
<1>5. CASE acct' = acct /\ ~sess[a].closed /\ sess' = [sess EXCEPT ![a] = Staged]
  <2>1. /\ \A s \in Attempts \ {a} : sess'[s] = sess[s]
        /\ sess'[a].status = "REVIEW_REQUIRED" /\ ~sess'[a].closed
    BY <1>5 DEF TypeOK, Staged, NoSession
  <2>2. Stages(a)
    BY <1>3, <1>5, <2>1 DEF Stages
  <2> QED
    BY <1>2, <1>5, <2>1, <2>2 DEF Effects, SessStep, BindStep, Keeps
<1> QED
  BY <1>4, <1>5 DEF InsertSession, LostFence

LEMMA BindEffects ==
  ASSUME TypeOK, HasPrior, Discipline, Lives, NEW p \in Procs, NEW a \in Attempts,
         Writes(p), BindWrite(p, a)
  PROVE  Effects
<1> DEFINE x == proc[p].cur
<1>1. /\ proc[p].pc = "write" /\ proc[p].a = a /\ sess' = sess /\ att' = att
  BY DEF BindWrite, At
<1>2. InExchange(p)
  BY <1>1, ExchangeNames DEF InExchange
<1>3. posted[a] > 0 /\ att[a].purpose = "link" /\ ~Past(a)
  BY <1>1, <1>2, NotPast DEF Discipline, Exchanges, Of
<1>4. CASE acct' = acct
  BY <1>1, <1>4, SameEffects
<1>5. CASE StillThere(p, x) /\ acct' = [acct EXCEPT ![x] = Upserted(x, a)]
  <2>1. Holds(p, a) /\ x \in Accounts
    BY <1>1 DEF Writes, Leased, TypeOK, Collector
  <2>2. att'[a].session /\ att'[a].phase = "exchange_started"
    BY <1>1, <1>2, <2>1 DEF Discipline, Exchanges, Of, Leased
  <2>3. acct[x].bound \in {Nobody, a} \/ acct[x].released
    BY <1>1, <1>5, <2>1 DEF StillThere, Writes, Lives
  <2> HIDE DEF x
  <2>4. \A y \in Accounts \ {x} : Keeps(y)
    BY <1>5 DEF Keeps, TypeOK
  <2>5. /\ Upserted(x, a).bound = a /\ Upserted(x, a).present
        /\ Upserted(x, a).released = acct[x].released
        /\ Upserted(x, a).life
             = IF acct[x].present THEN acct[x].life ELSE acct[x].life + 1
    BY <2>1 DEF Upserted, TypeOK, Account
  <2>6. acct'[x] = Upserted(x, a)
    BY <1>5, <2>1 DEF TypeOK
  <2>7. At(p, a, "write") /\ proc[p].cur = x
    BY <1>1 DEF At, x
  <2>8. Gains(x, a)
    BY <1>3, <2>1, <2>2, <2>3, <2>5, <2>6, <2>7 DEF Gains
  <2> QED
    BY <1>1, <2>4, <2>8 DEF Effects, SessStep, BindStep
<1> QED
  BY <1>4, <1>5 DEF BindWrite


LEMMA SwitchEffects ==
  ASSUME TypeOK, HasPrior, Discipline, Lives, NEW p \in Procs, NEW a \in Attempts,
         Priors(p), Switch(p, a)
  PROVE  Effects
<1> DEFINE old == proc[p].prior
<1>1. /\ proc[p].pc = "switch" /\ proc[p].a = a /\ att' = att /\ posted' = posted
  BY DEF Switch, At, bank
<1>2. InExchange(p)
  BY <1>1, ExchangeNames DEF InExchange
<1>3. posted[a] > 0 /\ att[a].purpose = "renew"
  BY <1>1, <1>2 DEF Discipline, Exchanges, Of
<1>4. ~Past(a)
  BY <1>1, <1>2, NotPast DEF Leaving
<1>5. old \in Attempts /\ Past(old) /\ posted[old] > 0
  BY <1>1 DEF Priors, Past
<1>6. old # a
  BY <1>4, <1>5
<1>7. CASE sess' = sess /\ acct' = acct
  BY <1>7, SameEffects
<1>8. CASE /\ \A x \in Accounts : DeepFetched(x, a)
           /\ BoundTo(old) = Accounts
           /\ sess' = Switched(a, old) /\ acct' = Moved(a) /\ Goto(p, "revoke")
  <2>1. Past(a)'
    <3>1. /\ proc'[p].pc = "revoke" /\ \A q \in Procs \ {p} : proc'[q] = proc[q]
      BY <1>8, GotoEffect DEF TypeOK, Still
    <3>2. \A q \in Procs : InExchange(q)' /\ proc'[q].a = a => q = p
      BY <1>1, <1>2, <3>1 DEF Discipline, OneExchange, InExchange
    <3> QED
      BY <1>1, <1>3, <3>1, <3>2 DEF Past, Leaving
  <2>2. /\ sess'[a].status = "AUTHORIZED" /\ sess'[a].closed = sess[a].closed
        /\ sess'[a].gen = sess[old].gen + 1
    <3> DEFINE g == sess[old].gen + 1
    <3>1. sess'[a] = [sess[a] EXCEPT !.status = "AUTHORIZED", !.gen = g]
      BY <1>8 DEF Switched
    <3>2. sess[a] \in Session
      BY DEF TypeOK
    <3> HIDE DEF g
    <3>3. /\ sess'[a].status = "AUTHORIZED" /\ sess'[a].closed = sess[a].closed
          /\ sess'[a].gen = g
      BY <3>1, <3>2 DEF Session
    <3> QED
      BY <3>3 DEF g
  <2>3. \/ sess'[old] = sess[old] /\ sess[old].closed
        \/ /\ ~sess[old].closed /\ ~sess'[old].closed
           /\ sess'[old].status = "REVOKE_PENDING"
    <3>1. sess'[old] = IF ~sess[old].closed
                       THEN [sess[old] EXCEPT !.status = "REVOKE_PENDING"]
                       ELSE sess[old]
      BY <1>5, <1>6, <1>8 DEF Switched
    <3>2. sess[old] \in Session
      BY <1>5 DEF TypeOK
    <3> HIDE DEF old
    <3> QED
      BY <3>1, <3>2 DEF Session
  <2>4. \A s \in Attempts \ {a, old} : sess'[s] = sess[s]
    BY <1>8 DEF Switched
  <2>5. \A x \in Accounts :
          /\ acct'[x].bound = a /\ acct'[x].life = acct[x].life
          /\ acct'[x].present = acct[x].present
          /\ acct'[x].released = acct[x].released
    BY <1>8 DEF Moved, TypeOK, Account
  <2>6. \A x \in Accounts :
          /\ acct[x].bound = old /\ acct[x].fetched = a
          /\ acct[x].present /\ acct[x].life >= 1
    BY <1>5, <1>8, CollectionAssumption
       DEF BoundTo, DeepFetched, Lives, CollectionAssumption
  <2>7. \A x \in Accounts : Had(x, a)'
    BY <2>5, <2>6 DEF Had
  <2>8. Promotes(a)
    BY <1>3, <2>1, <2>2, <2>7 DEF Promotes
  <2>9. sess'[old] = sess[old] \/ Retires(old)
    BY <2>3 DEF Retires
  <2>10. sess'[a].gen > sess[old].gen
    <3>1. sess[old].gen \in Nat
      BY <1>5 DEF TypeOK, Session
    <3> QED
      BY <2>2, <3>1
  <2>11. sess'[old].closed \/ sess'[old].status # "AUTHORIZED"
    BY <2>3
  <2>12. \A x \in Accounts : Carries(x, a, old)
    BY <1>3, <1>4, <1>5, <2>2, <2>5, <2>6, <2>10, <2>11 DEF Carries
  <2>13. \A s \in Attempts : SessStep(s)
    BY <1>3, <1>5, <2>4, <2>8, <2>9 DEF SessStep
  <2> HIDE DEF old
  <2> QED
    BY <1>5, <2>12, <2>13 DEF Effects, BindStep
<1> QED
  BY <1>7, <1>8 DEF Switch

LEMMA RecordedEffects ==
  ASSUME TypeOK, NEW s \in Attempts, NEW gone \in BOOLEAN, posted[s] > 0,
         gone => grant[s] = "gone", sess' = Recorded(s, gone)
  PROVE  /\ \A t \in Attempts : SessStep(t)
         /\ gone => sess'[s].closed
<1>1. \A t \in Attempts \ {s} : sess'[t] = sess[t]
  BY DEF Recorded, TypeOK
<1>2. sess[s] \in Session
  BY DEF TypeOK
<1>3. CASE sess' = [sess EXCEPT ![s].status = "CLOSED", ![s].closed = TRUE] /\ gone
  <2>1. sess'[s].status = "CLOSED" /\ sess'[s].closed
    BY <1>2, <1>3 DEF TypeOK, Session
  <2> QED
    BY <1>1, <1>3, <2>1 DEF SessStep, Ends
<1>4. CASE ~gone /\ ~sess[s].closed /\ sess' = [sess EXCEPT ![s].status = "REVOKE_FAILED"]
  <2>1. sess'[s].status = "REVOKE_FAILED" /\ ~sess'[s].closed
    BY <1>2, <1>4 DEF TypeOK, Session
  <2> QED
    BY <1>1, <1>4, <2>1 DEF SessStep, Retires
<1>5. CASE sess' = sess /\ (gone => sess[s].closed)
  BY <1>5 DEF SessStep
<1> QED
  BY <1>3, <1>4, <1>5 DEF Recorded, Open

LEMMA RecordEffects ==
  ASSUME TypeOK, NEW p \in Procs, NEW a \in Attempts, Priors(p),
         RecordRevocation(p, a)
  PROVE  Effects
<1>1. /\ proc[p].prior \in Attempts /\ posted[proc[p].prior] > 0
      /\ proc[p].answer => grant[proc[p].prior] = "gone"
  BY DEF RecordRevocation, At, Priors, Past
<1>2. proc[p].answer \in BOOLEAN
  BY DEF TypeOK, Collector
<1>3. \A t \in Attempts : SessStep(t)
  BY <1>1, <1>2, RecordedEffects DEF RecordRevocation
<1> QED
  BY <1>3 DEF RecordRevocation, Effects, BindStep, Keeps

LEMMA UnlinkEffects ==
  ASSUME TypeOK, Unlinks, NEW s \in Attempts, UnlinkWrite(s)
  PROVE  Effects
<1> DEFINE gone == unlink.answer = "gone"
           word == /\ unlink.answer = "word"
                   /\ ~sess[s].closed /\ sess[s].status = "REVOKE_FAILED"
<1>1. posted[s] > 0 /\ (gone => grant[s] = "gone")
  BY CollectionAssumption DEF UnlinkWrite, Unlinks, CollectionAssumption
<1>2. /\ \A t \in Attempts : SessStep(t)
      /\ gone \/ word => sess'[s].closed
  <2>1. CASE word
    <3>1. sess' = [sess EXCEPT ![s].status = "WITHDRAWN_BY_OPERATOR",
                               ![s].closed = TRUE]
      BY <2>1 DEF UnlinkWrite
    <3>2. /\ sess'[s].status = "WITHDRAWN_BY_OPERATOR" /\ sess'[s].closed
          /\ \A t \in Attempts \ {s} : sess'[t] = sess[t]
      BY <3>1 DEF TypeOK, Session
    <3> QED
      BY <1>1, <3>2 DEF SessStep, Ends
  <2>2. CASE ~word
    <3>1. sess' = Recorded(s, gone)
      BY <2>2 DEF UnlinkWrite
    <3> HIDE DEF word
    <3> QED
      BY <1>1, <2>2, <3>1, RecordedEffects
  <2> QED
    BY <2>1, <2>2
<1>3. \A x \in Accounts : BindStep(x)
  <2>1. CASE acct' = acct
    BY <2>1 DEF BindStep, Keeps
  <2>2. CASE /\ gone \/ word
             /\ acct' = [x \in Accounts |-> IF acct[x].bound = s
                           THEN LetGo(acct[x]) ELSE acct[x]]
    <3>1. \A x \in Accounts : acct[x].bound # s => Keeps(x)
      BY <2>2 DEF Keeps
    <3>2. \A x \in Accounts : acct[x].bound = s =>
            /\ acct'[x].bound = Nobody /\ acct'[x].life = acct[x].life
            /\ acct'[x].present = acct[x].present /\ acct'[x].released
      BY <2>2, LetGoFields DEF TypeOK
    <3>3. \A x \in Accounts : acct[x].bound = s => Frees(x)
      BY <1>2, <2>2, <3>2 DEF Frees
    <3> QED
      BY <3>1, <3>3 DEF BindStep
  <2> QED
    BY <2>1, <2>2 DEF UnlinkWrite
<1> QED
  BY <1>2, <1>3 DEF Effects


\* What happens to the row of b, seen from its consent.
Marks(b) ==
  /\ att[b].purpose = "link" /\ att[b].phase \in {"exchanged", "abandoned"}
       => att'[b].phase \in {"exchanged", "abandoned"}
  /\ att'[b].session
     /\ att'[b].phase \in {"exchanged", "review_required", "indeterminate"}
       => \/ att[b].session /\ att'[b].phase = att[b].phase
          \/ sess'[b].status # "none"
  /\ att[b].purpose = "link"
     /\ att'[b].phase \in {"review_required", "indeterminate"}
       => att'[b].phase = att[b].phase \/ BoundTo(b)' = {}
  /\ att[b].purpose = "link" /\ att[b].session => att'[b].session
  /\ att'[b].session => att[b].session \/ posted[b] > 0

\* Containment leaves a consent that can be shown, and nothing bound to it.
LEMMA ContainEffects ==
  ASSUME TypeOK, Unposted, ClosedRows, NEW a \in Attempts,
         sess' = ContainSession(sess, a, att[a].session),
         acct' = ContainAccounts(sess, acct, a, att[a].session),
         att'[a].token = Nobody
  PROVE  /\ Effects
         /\ att[a].session => sess'[a].status # "none"
         /\ \/ BoundTo(a)' = {}
            \/ ~att[a].session /\ BoundTo(a)' = BoundTo(a)
            \/ sess[a].status = "AUTHORIZED"
<1>1. CASE ~att[a].session \/ sess[a].status = "AUTHORIZED"
  <2>1. sess' = sess /\ acct' = acct
    BY <1>1 DEF ContainSession, ContainAccounts
  <2> QED
    BY <1>1, <2>1, SameEffects DEF BoundTo
<1>2. CASE att[a].session /\ sess[a].status # "AUTHORIZED"
  <2>1. posted[a] > 0
    BY <1>2 DEF Unposted, TypeOK
  <2>2. acct' = [x \in Accounts |-> IF acct[x].bound = a
                   THEN LetGo(acct[x]) ELSE acct[x]]
    BY <1>2 DEF ContainAccounts
  <2>3. \A x \in Accounts : acct[x].bound # a => Keeps(x)
    BY <2>2 DEF Keeps
  <2>4. \A x \in Accounts : acct[x].bound = a =>
          /\ acct'[x].bound = Nobody /\ acct'[x].life = acct[x].life
          /\ acct'[x].present = acct[x].present /\ acct'[x].released
    BY <2>2, LetGoFields DEF TypeOK
  <2>5. BoundTo(a)' = {}
    <3>1. ASSUME NEW x \in Accounts, acct'[x].bound = a PROVE FALSE
      BY <2>3, <2>4, <3>1, CollectionAssumption DEF Keeps, CollectionAssumption
    <3> QED
      BY <3>1 DEF BoundTo
  <2>6. CASE sess[a].closed
    <3>1. sess' = sess
      BY <2>6 DEF ContainSession
    <3>2. \A x \in Accounts : acct[x].bound = a => Frees(x)
      BY <2>4, <2>6, <3>1 DEF Frees
    <3>3. sess'[a].status # "none"
      BY <2>6, <3>1 DEF ClosedRows
    <3> QED
      BY <2>3, <2>5, <3>1, <3>2, <3>3 DEF Effects, SessStep, BindStep
  <2>7. CASE ~sess[a].closed
    <3>1. sess' = [sess EXCEPT ![a].status = "REVIEW_REQUIRED", ![a].gen = 0]
      BY <1>2, <2>7 DEF ContainSession
    <3>2. /\ sess'[a].status = "REVIEW_REQUIRED" /\ ~sess'[a].closed
          /\ \A t \in Attempts \ {a} : sess'[t] = sess[t]
      BY <2>7, <3>1 DEF TypeOK, Session
    <3>3. Quarantines(a)
      BY <1>2, <2>5, <2>7, <3>2 DEF Quarantines
    <3>4. \A x \in Accounts : acct[x].bound = a => Frees(x)
      BY <2>4, <3>2 DEF Frees
    <3> QED
      BY <2>1, <2>3, <2>5, <3>2, <3>3, <3>4 DEF Effects, SessStep, BindStep
  <2> QED
    BY <2>6, <2>7
<1> QED
  BY <1>1, <1>2

\* The marks that containment leaves on an exchange that was in flight.
LEMMA ContainMarks ==
  ASSUME Authorized, LinkBound, NEW a \in Attempts,
         att[a].phase = "exchange_started", SettlesRow(a),
         att[a].session => sess'[a].status # "none",
         \/ BoundTo(a)' = {}
         \/ ~att[a].session /\ BoundTo(a)' = BoundTo(a)
         \/ sess[a].status = "AUTHORIZED"
  PROVE  Marks(a)
<1>1. att[a].purpose = "link" => BoundTo(a)' = {}
  BY DEF Authorized, LinkBound
<1> QED
  BY <1>1 DEF Marks, SettlesRow

LEMMA SettlesRowIntro ==
  ASSUME att \in [Attempts -> Attempt], NEW a \in Attempts,
         NEW phase \in SETTLED_PHASES, NEW outcome, SettleAs(a, phase, outcome)
  PROVE  /\ SettlesRow(a) /\ att'[a].phase = phase /\ att'[a].token = Nobody
BY DEF SettleAs, SettlesRow, SameAttempt, Attempt

\* The exchange under way of a process that holds its lease.
LEMMA InFlight ==
  ASSUME Discipline, NEW p \in Procs, NEW a \in Attempts,
         At(p, a, "tail") \/ At(p, a, "fail"), Holds(p, a)
  PROVE  /\ InExchange(p) /\ posted[a] > 0 /\ att[a].phase = "exchange_started"
         /\ proc[p].pc = "tail" => att[a].session
<1>1. InExchange(p)
  BY ExchangeNames DEF At, InExchange
<1> QED
  BY <1>1 DEF At, Discipline, Exchanges, Of, Leased, Holds

LEMMA InterruptedEffects ==
  ASSUME TypeOK, Discipline, Bindings, NEW p \in Procs, NEW a \in Attempts,
         Interrupted(p, a)
  PROVE  Effects /\ Marks(a)
<1>1. SettlesRow(a) /\ att'[a].token = Nobody
  BY SettlesRowIntro DEF Interrupted, SETTLED_PHASES, TypeOK
<1>2. att[a].phase = "exchange_started"
  BY DEF Interrupted, Published, Undecided, Began, SETTLED_PHASES
<1>3. /\ sess' = ContainSession(sess, a, att[a].session)
      /\ acct' = ContainAccounts(sess, acct, a, att[a].session)
  BY DEF Interrupted
<1> QED
  BY <1>1, <1>2, <1>3, ContainEffects, ContainMarks DEF Bindings

LEMMA FailEffects ==
  ASSUME TypeOK, Discipline, Bindings, NEW p \in Procs, NEW a \in Attempts,
         Fail(p, a)
  PROVE  Effects /\ Marks(a)
<1>1. SettlesRow(a) /\ att'[a].token = Nobody
  BY SettlesRowIntro DEF Fail, SETTLED_PHASES, TypeOK
<1>2. att[a].phase = "exchange_started"
  BY InFlight DEF Fail
<1>3. /\ sess' = ContainSession(sess, a, att[a].session)
      /\ acct' = ContainAccounts(sess, acct, a, att[a].session)
  BY DEF Fail
<1> QED
  BY <1>1, <1>2, <1>3, ContainEffects, ContainMarks DEF Bindings

\* Promotion finds every account bound by the exchange it settles.
LEMMA PromotionEffects ==
  ASSUME TypeOK, Discipline, Bindings, NEW p \in Procs, NEW a \in Attempts,
         At(p, a, "tail"), Holds(p, a), att[a].outcome \in Verdicts,
         sess[a].status = "REVIEW_REQUIRED", BoundTo(a) # {},
         NEW g, sess' = [sess EXCEPT ![a].status = "AUTHORIZED", ![a].gen = g],
         acct' = acct, posted' = posted, Enter(p, "ack"),
         SettlesRow(a), att'[a].phase = "exchanged"
  PROVE  Effects /\ sess'[a].status # "none"
<1>1. InExchange(p) /\ posted[a] > 0
  BY InFlight
<1>2. att[a].purpose = "link"
  <2>1. att[a].purpose \in {"link", "renew"}
    BY DEF TypeOK, Attempt
  <2> QED
    BY <2>1 DEF Bindings, RenewBound
<1>3. ~sess[a].closed
  BY DEF Bindings, ClosedRows
<1>4. \A x \in Accounts : Had(x, a)
  <2>1. Reached(p) = Accounts
    BY DEF Reached, At
  <2> QED
    BY <1>1, <1>2, <1>3, <2>1 DEF Bindings, Reaches, Of, Leased, At, Holds
<1>5. Past(a)'
  <2>1. /\ proc'[p].pc = "ack" /\ \A q \in Procs \ {p} : proc'[q] = proc[q]
    BY EnterEffect DEF TypeOK, Still
  <2>2. \A q \in Procs : ~(InExchange(q)' /\ proc'[q].a = a)
    BY <1>1, <2>1, TailPc DEF Discipline, OneExchange, InExchange, At
  <2> QED
    BY <1>1, <2>2 DEF Past
<1>6. /\ sess'[a].status = "AUTHORIZED" /\ sess'[a].closed = sess[a].closed
      /\ \A t \in Attempts \ {a} : sess'[t] = sess[t]
  BY DEF TypeOK, Session
<1>7. Promotes(a)
  BY <1>4, <1>5, <1>6 DEF Promotes, Had
<1> QED
  BY <1>1, <1>6, <1>7 DEF Effects, SessStep, BindStep, Keeps

LEMMA TailEffects ==
  ASSUME TypeOK, Discipline, Bindings, NEW p \in Procs, NEW a \in Attempts,
         Tail(p, a)
  PROVE  Effects /\ Marks(a)
<1>1. /\ At(p, a, "tail") /\ Holds(p, a) /\ Enter(p, "ack") /\ posted' = posted
  BY DEF Tail, bank
<1>2. att[a].phase = "exchange_started" /\ att[a].session
  BY <1>1, InFlight DEF At
<1>3. ASSUME NEW phase \in SETTLED_PHASES, SettleAs(a, phase, "other"),
             sess' = ContainSession(sess, a, att[a].session),
             acct' = ContainAccounts(sess, acct, a, att[a].session)
      PROVE  Effects /\ Marks(a)
  <2>1. SettlesRow(a) /\ att'[a].token = Nobody
    BY <1>3, SettlesRowIntro DEF TypeOK
  <2> QED
    BY <1>2, <1>3, <2>1, ContainEffects, ContainMarks DEF Bindings
<1>4. CASE att[a].outcome \notin Verdicts
  <2>1. "review_required" \in SETTLED_PHASES
    BY DEF SETTLED_PHASES
  <2> QED
    BY <1>3, <1>4, <2>1 DEF Tail, Verdicts
<1>5. CASE att[a].outcome \in Verdicts
  <2> DEFINE S == Promoted(a)
             isLive == LiveLink(S, acct, a)
             phase == IF isLive \/ att[a].outcome = "verified_partial"
                      THEN "exchanged" ELSE "review_required"
  <2>1. /\ sess' = IF isLive THEN S ELSE ContainSession(S, a, att[a].session)
        /\ acct' = IF isLive THEN acct
                   ELSE ContainAccounts(S, acct, a, att[a].session)
        /\ SettleAs(a, phase, "other")
    BY <1>5 DEF Tail, Verdicts
  <2>2. phase \in SETTLED_PHASES
    BY DEF SETTLED_PHASES
  <2> DEFINE g == NextGeneration(a)
  <2>3. \/ S = sess
        \/ /\ sess[a].status = "REVIEW_REQUIRED" /\ BoundTo(a) # {}
           /\ S = [sess EXCEPT ![a].status = "AUTHORIZED", ![a].gen = g]
    BY DEF Promoted
  <2>4. ~isLive => S = sess
    <3>1. CASE /\ sess[a].status = "REVIEW_REQUIRED" /\ BoundTo(a) # {}
               /\ S = [sess EXCEPT ![a].status = "AUTHORIZED", ![a].gen = g]
      <4>1. ~sess[a].closed
        BY <3>1 DEF Bindings, ClosedRows
      <4> HIDE DEF g, S
      <4>2. S[a].status = "AUTHORIZED" /\ ~S[a].closed
        BY <3>1, <4>1 DEF TypeOK, Session
      <4> QED
        BY <3>1, <4>2 DEF LiveLink, BoundTo
    <3> QED
      BY <2>3, <3>1
  <2> HIDE DEF S, g
  <2>5. CASE ~isLive
    <3> HIDE DEF phase, isLive
    <3> QED
      BY <1>3, <2>1, <2>2, <2>4, <2>5
  <2>6. CASE isLive
    <3>1. sess' = S /\ acct' = acct /\ phase = "exchanged"
      BY <2>1, <2>6
    <3>2. SettlesRow(a) /\ att'[a].phase = "exchanged"
      BY <2>1, <2>2, <3>1, SettlesRowIntro DEF TypeOK
    <3>3. S[a].status = "AUTHORIZED"
      BY <2>6 DEF LiveLink
    <3> HIDE DEF isLive, phase
    <3>4. Marks(a)
      BY <1>2, <3>1, <3>2, <3>3 DEF Marks, SettlesRow
    <3>5. CASE S = sess
      BY <3>1, <3>4, <3>5, SameEffects
    <3>6. CASE /\ sess[a].status = "REVIEW_REQUIRED" /\ BoundTo(a) # {}
               /\ S = [sess EXCEPT ![a].status = "AUTHORIZED", ![a].gen = g]
      BY <1>1, <1>5, <3>1, <3>2, <3>4, <3>6, PromotionEffects
    <3> QED
      BY <2>3, <3>5, <3>6
  <2> QED
    BY <2>5, <2>6
<1> QED
  BY <1>4, <1>5


LEMMA AllEffects ==
  ASSUME TypeOK, HasPrior, Discipline, Bindings, [Next]_vars
  PROVE  Effects
<1> USE DEF vars, db, casa, bank
<1>1. ASSUME NEW p \in Procs, NEW a \in Attempts, Read(p, a) \/ Pass(p, a)
      PROVE  Effects
  <2>1. CASE Interrupted(p, a)
    BY <2>1, InterruptedEffects
  <2>2. CASE ~Interrupted(p, a)
    <3>1. sess' = sess /\ acct' = acct
      BY <1>1, <2>2 DEF Pass, Read, Take, Vanished, AckAgain, Abandon, CasaEnded,
                        NotYet, Discard, Begin, Ack
    <3> QED
      BY <3>1, SameEffects
  <2> QED
    BY <2>1, <2>2
<1>2. ASSUME NEW p \in Procs, NEW a \in Attempts, Settle(p, a)
      PROVE  Effects
  BY <1>2, TailEffects, FailEffects, SameEffects DEF Settle, Stale
<1>3. ASSUME NEW p \in Procs, NEW a \in Attempts, Exchange(p, a)
      PROVE  Effects
  <2>1. CASE InsertSession(p, a) \/ BindWrite(p, a)
    BY <2>1, InsertEffects, BindEffects DEF Bindings
  <2>2. CASE Fetched(p, a) \/ Switch(p, a) \/ RecordRevocation(p, a)
    BY <2>2, FetchedEffects, SwitchEffects, RecordEffects DEF Bindings
  <2>3. CASE Post(p, a) \/ Note(p, a) \/ Verify(p, a) \/ BindRead(p, a)
             \/ Page(p, a) \/ Revoke(p, a) \/ Declare(p, a)
    <3>1. sess' = sess /\ acct' = acct
      BY <2>3 DEF Post, Note, Verify, BindRead, Page, Revoke, Declare, LostFence
    <3> QED
      BY <3>1, SameEffects
  <2> QED
    BY <1>3, <2>1, <2>2, <2>3 DEF Exchange
<1>4. ASSUME NEW a \in Attempts,
             Mint(a) \/ Casa(a) \/ Lapse(a) \/ UnlinkCall(a)
      PROVE  Effects
  <2>1. sess' = sess /\ acct' = acct
    BY <1>4 DEF Mint, Casa, Redirect, Land, CasaEnds, Lapse, UnlinkCall
  <2> QED
    BY <2>1, SameEffects
<1>5. ASSUME NEW a \in Attempts, UnlinkWrite(a)
      PROVE  Effects
  BY <1>5, UnlinkEffects DEF Bindings
<1>6. ASSUME \/ \E p \in Procs : Crash(p)
             \/ UnlinkDies \/ UNCHANGED vars
      PROVE  Effects
  <2>1. sess' = sess /\ acct' = acct
    BY <1>6 DEF Crash, UnlinkDies
  <2> QED
    BY <2>1, SameEffects
<1>7. ASSUME NEW x \in Accounts, Forget(x)
      PROVE  Effects
  BY <1>7, ForgetEffects
<1> QED
  BY <1>1, <1>2, <1>3, <1>4, <1>5, <1>6, <1>7 DEF Next

\* An erasure removes renewals only.
LEMMA ForgetLinks ==
  ASSUME TypeOK, Unfenced, NEW x \in Accounts, Forget(x), NEW b \in Attempts
  PROVE  \/ att'[b] = att[b]
         \/ /\ att[b].purpose = "renew"
            /\ att'[b].phase = "erased" /\ ~att'[b].session
<1> DEFINE gone(r) == [r EXCEPT !.phase = "erased", !.outcome = "none",
                                !.session = FALSE, !.token = Nobody,
                                !.lapsed = FALSE]
<1>1. \A r \in Attempt : gone(r).phase = "erased" /\ ~gone(r).session
  BY DEF Attempt
<1>2. att'[b] = att[b] \/ (att[b].account = x /\ att'[b] = gone(att[b]))
  BY DEF Forget
<1>3. att[b] \in Attempt /\ att[b].purpose \in {"link", "renew"}
  BY DEF TypeOK, Attempt
<1>4. att[b].account = x => att[b].purpose # "link"
  BY CollectionAssumption DEF Unfenced, CollectionAssumption
<1> HIDE DEF gone
<1> QED
  BY <1>1, <1>2, <1>3, <1>4

\* A settlement by the one that runs the exchange, or that finds it dead.
LEMMA ConcludesMarks ==
  ASSUME TypeOK, Discipline, Bindings, NEW p \in Procs, NEW b \in Attempts,
         Concludes(p, b)
  PROVE  Marks(b)
BY InterruptedEffects, TailEffects, FailEffects DEF Concludes

LEMMA AllMarks ==
  ASSUME TypeOK, HasPrior, NoLease, Discipline, Bindings, Flow, NEW b \in Attempts
  PROVE  Marks(b)
<1>1. ASSUME SameRow(b) PROVE Marks(b)
  BY <1>1 DEF Marks, SameRow
<1>2. CASE Quiet
  BY <1>1, <1>2 DEF Quiet, Steady
<1>3. ASSUME NEW a \in Attempts, Mint(a)
      PROVE  Marks(b)
  <2>1. CASE b = a
    BY <1>3, <2>1, MintRows DEF Marks
  <2>2. CASE b # a
    BY <1>1, <1>3, <2>2, MintRows DEF Others, SameRow, SameAttempt
  <2> QED
    BY <2>1, <2>2
<1>4. ASSUME NEW x \in Accounts, Forget(x)
      PROVE  Marks(b)
  BY <1>1, <1>4, ForgetLinks DEF Bindings, Marks, SameRow, SameAttempt
<1>5. ASSUME NEW p \in Procs, Tends(p)
      PROVE  Marks(b)
  <2>1. CASE SettlesRow(b) /\ Dismisses(b, att'[b].phase)
    BY <2>1 DEF Dismisses, Undecided, SettlesRow, Marks, SETTLED_PHASES
  <2>2. CASE Concludes(p, b)
    BY <2>2, ConcludesMarks
  <2> QED
    BY <1>1, <1>5, <2>1, <2>2 DEF Tends, TendsRow, Steady
<1>6. ASSUME NEW p \in Procs, Starts(p)
      PROVE  Marks(b)
  <2>1. CASE b = proc[p].a
    BY <1>6, <2>1 DEF Starts, Marks
  <2>2. CASE b # proc[p].a
    BY <1>1, <1>6, <2>2 DEF Starts, Others, SameRow, SameAttempt
  <2> QED
    BY <2>1, <2>2
<1>7. ASSUME NEW p \in Procs, Goes(p)
      PROVE  Marks(b)
  <2>1. CASE b = proc[p].a
    <3>1. \/ att'[b].session = att[b].session
          \/ /\ att[b].phase = "exchange_started" /\ att'[b].session
             /\ posted[b] > 0
      BY <1>7, <2>1, ExchangeNames
         DEF Goes, Discipline, Exchanges, InExchange, Of
    <3> QED
      BY <1>7, <2>1, <3>1 DEF Goes, Marks
  <2>2. CASE b # proc[p].a
    BY <1>1, <1>7, <2>2 DEF Goes, Others, SameRow, SameAttempt
  <2> QED
    BY <2>1, <2>2
<1> QED
  BY <1>2, <1>3, <1>4, <1>5, <1>6, <1>7 DEF Flow

-----------------------------------------------------------------------------
(* The consents at the bank.                                               *)

\* A consent is created by the post and, once it exists, only withdrawn.
GrantStep(s) == \/ grant'[s] = grant[s]
                \/ posted[s] = 0 /\ posted'[s] > 0
                \/ posted[s] > 0 /\ grant'[s] = "gone"

LEMMA WithdrawEffect ==
  ASSUME TypeOK, NEW s \in Attempts, NEW answer, posted[s] > 0,
         Withdraw(s, answer)
  PROVE  /\ \A t \in Attempts : GrantStep(t)
         /\ answer => grant'[s] = "gone"
BY DEF Withdraw, GrantStep, TypeOK

LEMMA OpenPosted ==
  ASSUME TypeOK, Unposted, NEW s \in Attempts, sess[s].status # "none"
  PROVE  posted[s] > 0
BY DEF Unposted, TypeOK

LEMMA AllGrants ==
  ASSUME TypeOK, CodeOnce, Bindings, [Next]_vars, NEW s \in Attempts
  PROVE  GrantStep(s)
<1> USE DEF vars, db, casa, bank
<1>1. ASSUME NEW p \in Procs, NEW a \in Attempts, Exchange(p, a)
      PROVE  GrantStep(s)
  <2>1. CASE Post(p, a)
    <3>1. posted[a] = 0 /\ posted'[a] > 0
      BY <2>1, PostEffect DEF CodeOnce, TypeOK
    <3>2. s # a => grant'[s] = grant[s]
      BY <2>1 DEF Post, TypeOK
    <3> QED
      BY <3>1, <3>2 DEF GrantStep
  <2>2. CASE Revoke(p, a)
    <3>1. proc[p].prior \in Attempts /\ posted[proc[p].prior] > 0
      BY <2>2 DEF Revoke, At, Bindings, Priors, Past
    <3> QED
      BY <2>2, <3>1, WithdrawEffect DEF Revoke
  <2>3. CASE ~Post(p, a) /\ ~Revoke(p, a)
    BY <1>1, <2>3 DEF Exchange, Note, Verify, InsertSession, BindRead, BindWrite, Page, Fetched,
                      Switch, RecordRevocation, Declare, GrantStep
  <2> QED
    BY <2>1, <2>2, <2>3
<1>2. ASSUME NEW p \in Procs, NEW a \in Attempts,
             Read(p, a) \/ Pass(p, a) \/ Settle(p, a)
      PROVE  grant' = grant
  BY <1>2 DEF Pass, Read, Take, Vanished, AckAgain, Abandon, CasaEnded, NotYet,
              Discard, Begin, Interrupted, Ack, Settle, Tail, Fail, Stale
<1>3. ASSUME NEW a \in Attempts, UnlinkCall(a)
      PROVE  GrantStep(s)
  <2>1. posted[a] > 0
    BY <1>3, OpenPosted DEF UnlinkCall, Open, Bindings
  <2> QED
    BY <1>3, <2>1, WithdrawEffect DEF UnlinkCall
<1>4. ASSUME NEW a \in Attempts,
             Mint(a) \/ Casa(a) \/ Lapse(a) \/ UnlinkWrite(a)
      PROVE  grant' = grant
  BY <1>4 DEF Mint, Casa, Redirect, Land, CasaEnds, Lapse, UnlinkWrite
<1>5. ASSUME \/ \E p \in Procs : Crash(p)
             \/ UnlinkDies \/ UNCHANGED vars
             \/ \E x \in Accounts : Forget(x)
      PROVE  grant' = grant
  BY <1>5 DEF Crash, UnlinkDies, Forget
<1> QED
  BY <1>1, <1>2, <1>3, <1>4, <1>5 DEF Next, GrantStep


\* A renewal is minted with the account that fences it, a first link without.
LEMMA MintFences ==
  ASSUME TypeOK, NEW a \in Attempts, Mint(a)
  PROVE  /\ att'[a].phase # "none"
         /\ \/ att'[a].purpose = "renew"
            \/ att'[a].account = att[a].account
<1>1. PICK phase \in {"minted", "abandoned"} :
        \/ att' = [att EXCEPT ![a].phase = phase, ![a].purpose = "link"]
        \/ \E s \in Attempts, x \in Accounts :
             att' = [att EXCEPT ![a].phase = phase, ![a].purpose = "renew",
                       ![a].account = x, ![a].expected = sess[s].gen]
  BY DEF Mint, BoundTo
<1>2. CASE att' = [att EXCEPT ![a].phase = phase, ![a].purpose = "link"]
  BY <1>2 DEF TypeOK, Attempt
<1>3. CASE \E s \in Attempts, x \in Accounts :
             att' = [att EXCEPT ![a].phase = phase, ![a].purpose = "renew",
                       ![a].account = x, ![a].expected = sess[s].gen]
  <2>1. PICK s \in Attempts, x \in Accounts :
          att' = [att EXCEPT ![a].phase = phase, ![a].purpose = "renew",
                    ![a].account = x, ![a].expected = sess[s].gen]
    BY <1>3
  <2> DEFINE g == sess[s].gen
  <2>2. att' = [att EXCEPT ![a].phase = phase, ![a].purpose = "renew",
                  ![a].account = x, ![a].expected = g]
    BY <2>1
  <2> HIDE DEF g
  <2> QED
    BY <2>2 DEF TypeOK, Attempt
<1> QED
  BY <1>1, <1>2, <1>3


-----------------------------------------------------------------------------
(* The invariant is inductive, conjunct by conjunct.                       *)

StepFacts ==
  /\ Effects
  /\ \A b \in Attempts :
       /\ Marks(b) /\ GrantStep(b)
       /\ Past(b) => Past(b)'
       /\ posted[b] > 0 => posted'[b] > 0 /\ att'[b].purpose = att[b].purpose

LEMMA AllFacts ==
  ASSUME CollectionInv, Discipline, Bindings, [Next]_vars, RowStep, Flow
  PROVE  StepFacts
<1> USE DEF CollectionInv
<1>1. Effects /\ \A b \in Attempts : Marks(b) /\ GrantStep(b)
  BY AllEffects, AllMarks, AllGrants
<1>2. \A b \in Attempts : Past(b) => Past(b)'
  BY PastStays
<1>3. ASSUME NEW b \in Attempts, posted[b] > 0
      PROVE  posted'[b] > 0 /\ att'[b].purpose = att[b].purpose
  <2>1. att[b].phase # "none"
    BY <1>3 DEF CodeOnce
  <2>2. posted' = posted \/ \E p \in Procs : Goes(p)
    BY DEF Flow, Quiet, Tends, Starts, Mint, Forget, bank
  <2>3. posted'[b] > 0
    BY <1>3, <2>2 DEF Goes
  <2> QED
    BY <2>1, <2>3, RowFacts DEF SameAttempt
<1> QED
  BY <1>1, <1>2, <1>3 DEF StepFacts

\* What was bound and is not any more was released or carried away.
LEMMA HadStays ==
  ASSUME TypeOK, Lives, NEW x \in Accounts, NEW a \in Attempts, Had(x, a),
         BindStep(x)
  PROVE  \/ Had(x, a)'
         \/ acct[x].bound = a /\ (Frees(x) \/ \E b \in Attempts : Carries(x, b, a))
<1>1. acct[x].life \in Nat
  BY DEF TypeOK, Account
<1>2. CASE Keeps(x)
  BY <1>2 DEF Keeps, Had
<1>3. CASE Frees(x)
  BY <1>3 DEF Frees, Had
<1>4. CASE Drops(x)
  BY <1>4 DEF Drops, Had
<1>5. ASSUME NEW b \in Attempts, Gains(x, b)
      PROVE  Had(x, a)'
  BY <1>1, <1>5, CollectionAssumption DEF Gains, Had, CollectionAssumption
<1>6. ASSUME NEW b \in Attempts, NEW old \in Attempts, Carries(x, b, old), old # a
      PROVE  Had(x, a)'
  BY <1>6 DEF Carries, Had
<1> QED
  BY <1>2, <1>3, <1>4, <1>5, <1>6 DEF BindStep, Carries

LEMMA UnpostedNext ==
  ASSUME TypeOK, Bindings, StepFacts
  PROVE  Unposted'
<1> SUFFICES ASSUME NEW a \in Attempts, posted'[a] = 0
             PROVE  /\ sess'[a].status = "none" /\ ~att'[a].session
                    /\ grant'[a] = "none" /\ BoundTo(a)' = {}
  BY DEF Unposted
<1>1. ~(posted[a] > 0) /\ posted[a] = 0
  BY DEF StepFacts, TypeOK
<1>2. /\ sess[a].status = "none" /\ ~att[a].session /\ grant[a] = "none"
      /\ BoundTo(a) = {}
  BY <1>1 DEF Bindings, Unposted
<1>3. sess'[a].status = "none"
  BY <1>1, <1>2 DEF StepFacts, Effects, SessStep
<1>4. ~att'[a].session
  BY <1>1, <1>2 DEF StepFacts, Marks
<1>5. grant'[a] = "none"
  BY <1>1, <1>2 DEF StepFacts, GrantStep
<1>6. ASSUME NEW x \in Accounts, acct'[x].bound = a PROVE FALSE
  <2>1. acct[x].bound # a
    BY <1>2 DEF BoundTo
  <2> QED
    BY <1>1, <1>6, <2>1, CollectionAssumption
       DEF StepFacts, Effects, BindStep, Keeps, Frees, Drops, Gains, Carries,
           CollectionAssumption
<1> QED
  BY <1>3, <1>4, <1>5, <1>6 DEF BoundTo

LEMMA ClosedRowsNext ==
  ASSUME Bindings, StepFacts
  PROVE  ClosedRows'
BY DEF Bindings, ClosedRows, StepFacts, Effects, SessStep, Stages, Quarantines,
       Promotes, Retires, Ends

LEMMA LivesNext ==
  ASSUME TypeOK, Bindings, StepFacts
  PROVE  Lives'
<1> SUFFICES ASSUME NEW x \in Accounts
             PROVE  /\ acct'[x].bound # Nobody => acct'[x].present
                    /\ acct'[x].present => acct'[x].life >= 1
                    /\ acct'[x].present /\ acct'[x].bound = Nobody
                         => acct'[x].released
  BY DEF Lives
<1>1. /\ acct[x].bound # Nobody => acct[x].present
      /\ acct[x].present => acct[x].life >= 1
      /\ acct[x].present /\ acct[x].bound = Nobody => acct[x].released
      /\ acct[x].life \in Nat
  BY DEF Bindings, Lives, TypeOK, Account
<1>2. CASE Keeps(x) \/ Frees(x) \/ Drops(x)
  BY <1>1, <1>2 DEF Keeps, Frees, Drops
<1>3. ASSUME NEW a \in Attempts, Gains(x, a)
      PROVE  acct'[x].present /\ acct'[x].life >= 1 /\ acct'[x].bound # Nobody
  BY <1>1, <1>3, CollectionAssumption DEF Gains, CollectionAssumption
<1>4. ASSUME NEW a \in Attempts, NEW old \in Attempts, Carries(x, a, old)
      PROVE  acct'[x].present /\ acct'[x].life >= 1 /\ acct'[x].bound # Nobody
  BY <1>1, <1>4, CollectionAssumption DEF Carries, CollectionAssumption
<1> QED
  BY <1>2, <1>3, <1>4 DEF StepFacts, Effects, BindStep

LEMMA UnfencedNext ==
  ASSUME TypeOK, Bindings, RowStep
  PROVE  Unfenced'
<1> SUFFICES ASSUME NEW b \in Attempts
             PROVE  att'[b].purpose = "link" \/ att'[b].phase = "none"
                      => att'[b].account = Nobody
  BY DEF Unfenced
<1>1. att[b].purpose = "link" \/ att[b].phase = "none" => att[b].account = Nobody
  BY DEF Bindings, Unfenced
<1>2. CASE att' = att
  BY <1>1, <1>2
<1>3. ASSUME NEW x \in Accounts, Forget(x)
      PROVE  \/ att'[b] = att[b]
             \/ SameAttempt(b) /\ att'[b].phase = "erased"
  BY <1>3, ForgetEffect
<1>4. ASSUME NEW a \in Attempts, Others(a),
             Retained(a) \/ Taken(a) \/ Decided(a) \/ Begun(a)
      PROVE  att'[b].purpose = "link" \/ att'[b].phase = "none"
                      => att'[b].account = Nobody
  BY <1>1, <1>4, SettledNames
     DEF Others, Retained, Taken, Decided, Begun, SameAttempt
<1>5. ASSUME NEW a \in Attempts, Others(a), Mint(a)
      PROVE  att'[b].purpose = "link" \/ att'[b].phase = "none"
                      => att'[b].account = Nobody
  <2>1. CASE b # a
    BY <1>1, <1>5, <2>1 DEF Others
  <2>2. CASE b = a
    BY <1>1, <1>5, <2>2, MintFences DEF Mint
  <2> QED
    BY <2>1, <2>2
<1> QED
  BY <1>1, <1>2, <1>3, <1>4, <1>5 DEF RowStep, SameAttempt


LEMMA AuthorizedNext ==
  ASSUME TypeOK, Bindings, StepFacts
  PROVE  Authorized'
<1> SUFFICES ASSUME NEW s \in Attempts, sess'[s].status = "AUTHORIZED"
             PROVE  /\ Past(s)'
                    /\ att'[s].purpose = "link"
                         => att'[s].phase \in {"exchanged", "abandoned"}
                    /\ ~sess'[s].closed => \A x \in Accounts : Had(x, s)'
  BY DEF Authorized
<1>1. CASE sess'[s] = sess[s]
  <2>1. /\ Past(s)
        /\ att[s].purpose = "link" => att[s].phase \in {"exchanged", "abandoned"}
        /\ ~sess[s].closed => \A x \in Accounts : Had(x, s)
    BY <1>1 DEF Bindings, Authorized
  <2>2. Past(s)' /\ att'[s].purpose = att[s].purpose
    BY <2>1 DEF StepFacts, Past
  <2>3. att'[s].purpose = "link" => att'[s].phase \in {"exchanged", "abandoned"}
    BY <2>1, <2>2 DEF StepFacts, Marks
  <2>4. ASSUME ~sess'[s].closed, NEW x \in Accounts
        PROVE  Had(x, s)'
    <3>1. Had(x, s) /\ BindStep(x)
      BY <1>1, <2>1, <2>4 DEF StepFacts, Effects
    <3>2. ~(acct[x].bound = s /\ Frees(x))
      BY <2>4 DEF Frees
    <3>3. ~\E b \in Attempts : Carries(x, b, s)
      BY <2>4 DEF Carries
    <3> QED
      BY <3>1, <3>2, <3>3, HadStays DEF Bindings
  <2> QED
    BY <2>2, <2>3, <2>4
<1>2. CASE posted[s] > 0 /\ Promotes(s)
  BY <1>2 DEF StepFacts, Promotes
<1> QED
  BY <1>1, <1>2 DEF StepFacts, Effects, SessStep, Stages, Quarantines, Retires, Ends

\* Where the accounts bound to a come from.
LEMMA BoundFrom ==
  ASSUME StepFacts, NEW a \in Attempts, BoundTo(a)' # {}
  PROVE  \/ BoundTo(a) # {}
         \/ \E x \in Accounts : Gains(x, a)
         \/ \E x \in Accounts, old \in Attempts : Carries(x, a, old)
<1>1. PICK x \in Accounts : acct'[x].bound = a
  BY DEF BoundTo
<1>2. CASE Keeps(x)
  BY <1>1, <1>2 DEF Keeps, BoundTo
<1>3. CASE Frees(x) \/ Drops(x)
  BY <1>1, <1>3, CollectionAssumption DEF Frees, Drops, CollectionAssumption
<1>4. ASSUME NEW b \in Attempts, Gains(x, b)
      PROVE  Gains(x, a)
  BY <1>1, <1>4 DEF Gains
<1>5. ASSUME NEW b \in Attempts, NEW old \in Attempts, Carries(x, b, old)
      PROVE  Carries(x, a, old)
  BY <1>1, <1>5 DEF Carries
<1> QED
  BY <1>2, <1>3, <1>4, <1>5 DEF StepFacts, Effects, BindStep

\* An attempt with bound accounts was posted.
LEMMA BoundPosted ==
  ASSUME TypeOK, Unposted, NEW a \in Attempts, BoundTo(a) # {}
  PROVE  posted[a] > 0
BY DEF Unposted, TypeOK

\* A session that a renewal's accounts depend on is neither missing nor staged.
LEMMA RenewBoundNext ==
  ASSUME TypeOK, Bindings, StepFacts
  PROVE  RenewBound'
<1> SUFFICES ASSUME NEW a \in Attempts, att'[a].purpose = "renew", BoundTo(a)' # {}
             PROVE  /\ sess'[a].status \notin {"none", "REVIEW_REQUIRED"}
                    /\ Past(a)'
  BY DEF RenewBound
<1>1. SessStep(a)
  BY DEF StepFacts, Effects
<1>2. CASE BoundTo(a) # {}
  <2>1. att[a].purpose = "renew"
    BY <1>2, BoundPosted DEF StepFacts, Bindings
  <2>2. sess[a].status \notin {"none", "REVIEW_REQUIRED"} /\ Past(a)
    BY <1>2, <2>1 DEF Bindings, RenewBound
  <2>3. Past(a)'
    BY <2>2 DEF StepFacts
  <2> QED
    BY <1>1, <2>2, <2>3
       DEF SessStep, Stages, Quarantines, Promotes, Retires, Ends
<1>3. ASSUME NEW x \in Accounts, Gains(x, a)
      PROVE  FALSE
  BY <1>3 DEF StepFacts, Gains
<1>4. ASSUME NEW x \in Accounts, NEW old \in Attempts, Carries(x, a, old)
      PROVE  sess'[a].status = "AUTHORIZED"
  BY <1>4 DEF Carries
<1>5. sess'[a].status = "AUTHORIZED" => Past(a)'
  BY AuthorizedNext DEF Authorized
<1> QED
  BY <1>2, <1>3, <1>4, <1>5, BoundFrom

LEMMA LinkBoundNext ==
  ASSUME TypeOK, Bindings, StepFacts
  PROVE  LinkBound'
<1> SUFFICES ASSUME NEW a \in Attempts, att'[a].purpose = "link", BoundTo(a)' # {}
             PROVE  /\ att'[a].session
                    /\ att'[a].phase \notin {"review_required", "indeterminate"}
  BY DEF LinkBound
<1>1. CASE BoundTo(a) # {}
  <2>1. att[a].purpose = "link"
    BY <1>1, BoundPosted DEF StepFacts, Bindings
  <2>2. att[a].session /\ att[a].phase \notin {"review_required", "indeterminate"}
    BY <1>1, <2>1 DEF Bindings, LinkBound
  <2> QED
    BY <2>1, <2>2 DEF StepFacts, Marks
<1>2. ASSUME NEW x \in Accounts, Gains(x, a)
      PROVE  att'[a].session /\ att'[a].phase = "exchange_started"
  BY <1>2 DEF Gains
<1>3. ASSUME NEW x \in Accounts, NEW old \in Attempts, Carries(x, a, old)
      PROVE  FALSE
  BY <1>3 DEF StepFacts, Carries
<1> QED
  BY <1>1, <1>2, <1>3, BoundFrom

LEMMA ConsentVisibleNext ==
  ASSUME TypeOK, Bindings, StepFacts
  PROVE  ConsentVisible'
<1> SUFFICES ASSUME NEW a \in Attempts
             PROVE  /\ att'[a].session
                       /\ att'[a].phase \in {"exchanged", "review_required",
                                             "indeterminate"}
                         => sess'[a].status # "none"
                    /\ sess'[a].status = "CLOSED" => grant'[a] = "gone"
  BY DEF ConsentVisible
<1>1. SessStep(a) /\ Marks(a) /\ GrantStep(a)
  BY DEF StepFacts, Effects
<1>2. /\ att[a].session /\ att[a].phase \in {"exchanged", "review_required",
                                             "indeterminate"}
           => sess[a].status # "none"
      /\ sess[a].status = "CLOSED" => grant[a] = "gone"
  BY DEF Bindings, ConsentVisible
<1>3. sess[a].status # "none" => sess'[a].status # "none"
  BY <1>1 DEF SessStep, Stages, Quarantines, Promotes, Retires, Ends
<1>4. sess'[a].status = "CLOSED" => posted[a] > 0 /\ grant[a] = "gone"
  BY <1>1, <1>2, OpenPosted
     DEF SessStep, Stages, Quarantines, Promotes, Retires, Ends, Bindings
<1>5. posted[a] > 0 /\ grant[a] = "gone" => grant'[a] = "gone"
  BY <1>1 DEF GrantStep
<1> QED
  BY <1>1, <1>2, <1>3, <1>4, <1>5 DEF Marks

LEMMA UnlinksNext ==
  ASSUME TypeOK, Bindings, StepFacts, [Next]_vars
  PROVE  Unlinks'
<1> USE DEF vars, db, casa, bank
<1>1. CASE unlink' = unlink
  <2>1. unlink.s # Nobody => /\ unlink.s \in Attempts /\ posted[unlink.s] > 0
                             /\ unlink.answer = "gone" => grant[unlink.s] = "gone"
    BY DEF Bindings, Unlinks
  <2> QED
    BY <1>1, <2>1 DEF StepFacts, GrantStep, Unlinks
<1>2. CASE unlink' = NoUnlink
  BY <1>2 DEF NoUnlink, Unlinks
<1>3. ASSUME NEW s \in Attempts, UnlinkCall(s)
      PROVE  Unlinks'
  <2>1. posted[s] > 0 /\ posted' = posted
    BY <1>3, OpenPosted DEF UnlinkCall, Open, Bindings
  <2>2. unlink'.s = s /\ (unlink'.answer = "gone" => grant'[s] = "gone")
    <3>1. CASE Withdraw(s, TRUE) /\ unlink' = [s |-> s, answer |-> "gone"]
      BY <2>1, <3>1, WithdrawEffect
    <3>2. CASE \/ unlink' = [s |-> s, answer |-> "kept"]
               \/ unlink' = [s |-> s, answer |-> "word"]
      BY <3>2
    <3> QED
      BY <1>3, <3>1, <3>2 DEF UnlinkCall
  <2> QED
    BY <2>1, <2>2 DEF Unlinks
<1>4. ASSUME NEW p \in Procs, NEW a \in Attempts, Pass(p, a) \/ Read(p, a)
      PROVE  unlink' = unlink
  BY <1>4 DEF Pass, Read, Take, Vanished, AckAgain, Abandon, CasaEnded, NotYet,
              Discard, Begin, Interrupted, Ack
<1>5. ASSUME NEW p \in Procs, NEW a \in Attempts, Exchange(p, a)
      PROVE  unlink' = unlink
  BY <1>5 DEF Exchange, Post, Note, Verify, InsertSession, BindRead, BindWrite, Page, Fetched,
              Switch, Revoke, RecordRevocation, Declare
<1>6. ASSUME NEW p \in Procs, NEW a \in Attempts, Settle(p, a)
      PROVE  unlink' = unlink
  BY <1>6 DEF Settle, Tail, Fail, Stale
<1>7. ASSUME NEW a \in Attempts, Mint(a) \/ Casa(a) \/ Lapse(a) \/ UnlinkWrite(a)
      PROVE  unlink' = unlink \/ unlink' = NoUnlink
  BY <1>7 DEF Mint, Casa, Redirect, Land, CasaEnds, Lapse, UnlinkWrite
<1>8. ASSUME \/ \E p \in Procs : Crash(p)
             \/ UnlinkDies \/ UNCHANGED vars
             \/ \E x \in Accounts : Forget(x)
      PROVE  unlink' = unlink \/ unlink' = NoUnlink
  BY <1>8 DEF Crash, UnlinkDies, Forget
<1> QED
  BY <1>1, <1>2, <1>3, <1>4, <1>5, <1>6, <1>7, <1>8 DEF Next


-----------------------------------------------------------------------------
(* What the processes know.                                                *)

\* Whoever takes no part in a step keeps its place and, under its lease, its row.
LEMMA Bystands ==
  ASSUME TypeOK, HasPrior, NoLease, Discipline, NEW q \in Procs,
         \/ Quiet
         \/ \E a \in Attempts : Mint(a)
         \/ \E x \in Accounts : Forget(x)
         \/ \E p \in Procs \ {q} : Tends(p) \/ Starts(p) \/ Goes(p)
  PROVE  /\ proc'[q] = proc[q]
         /\ InExchange(q) /\ att'[proc[q].a].token = q => Steady(proc[q].a)
<1>1. InExchange(q) => /\ proc[q].a \in Attempts
                       /\ att[proc[q].a].phase \notin {"none", "minted"}
  BY TailPc DEF HasPrior, Discipline, Exchanges, Of, InExchange
<1>2. CASE Quiet
  BY <1>1, <1>2 DEF Quiet
<1>3. ASSUME NEW a \in Attempts, Mint(a)
      PROVE  proc'[q] = proc[q] /\ (InExchange(q) => Steady(proc[q].a))
  <2>1. proc' = proc /\ Others(a) /\ att[a].phase = "none"
    BY <1>3, MintRows DEF Mint
  <2> QED
    BY <1>1, <2>1 DEF Others, Steady, SameRow, SameAttempt
<1>4. ASSUME NEW x \in Accounts, Forget(x)
      PROVE  /\ proc'[q] = proc[q]
             /\ InExchange(q) /\ att'[proc[q].a].token = q => Steady(proc[q].a)
  <2>1. proc' = proc
    BY <1>4 DEF Forget
  <2> QED
    BY <1>1, <1>4, <2>1, ForgetEffect, SomeProc DEF Steady, SameRow, SameAttempt
<1>5. ASSUME NEW p \in Procs \ {q}, Tends(p)
      PROVE  /\ proc'[q] = proc[q]
             /\ InExchange(q) /\ att'[proc[q].a].token = q => Steady(proc[q].a)
  BY <1>1, <1>5, SomeProc DEF Tends, TendsRow, Still
<1>6. ASSUME NEW p \in Procs \ {q}, Starts(p)
      PROVE  proc'[q] = proc[q] /\ (InExchange(q) => Steady(proc[q].a))
  BY <1>1, <1>6 DEF Starts, Still, Others, Steady, SameRow, SameAttempt
<1>7. ASSUME NEW p \in Procs \ {q}, Goes(p)
      PROVE  proc'[q] = proc[q] /\ (InExchange(q) => Steady(proc[q].a))
  <2>1. /\ InExchange(p) /\ Still(p) /\ Others(proc[p].a)
    BY <1>7 DEF Goes, InExchange
  <2>2. InExchange(q) => proc[q].a # proc[p].a
    BY <2>1 DEF Discipline, OneExchange
  <2> QED
    BY <1>1, <2>1, <2>2 DEF Still, Others, Steady, SameRow, SameAttempt
<1> QED
  BY <1>2, <1>3, <1>4, <1>5, <1>6, <1>7

\* Nothing is bound again to a consent that is past binding.
LEMMA EmptyStays ==
  ASSUME StepFacts, NEW s \in Attempts, Past(s), BoundTo(s) = {}
  PROVE  BoundTo(s)' = {}
BY BoundFrom DEF Gains, Carries

LEMMA PriorsStay ==
  ASSUME Discipline, StepFacts, HasPrior, NEW q \in Procs, Priors(q),
         proc'[q] = proc[q]
  PROVE  Priors(q)'
<1>1. /\ proc[q].pc \in {"switch", "revoke", "record"} => Past(proc[q].prior)'
      /\ proc[q].pc \in {"switch", "revoke", "record"}
           => proc[q].prior \in Attempts /\ Past(proc[q].prior)
  BY DEF Priors, StepFacts
<1>2. ASSUME proc[q].pc \in {"insert", "fetch", "page"},
             att'[proc[q].a].purpose = "renew"
      PROVE  proc[q].prior \in Attempts /\ Past(proc[q].prior)'
  <2>1. proc[q].a \in Attempts /\ posted[proc[q].a] > 0
    BY <1>2, ExchangeNames DEF Discipline, Exchanges, InExchange, HasPrior
  <2>2. att[proc[q].a].purpose = "renew"
    BY <1>2, <2>1 DEF StepFacts
  <2> QED
    BY <1>2, <2>2 DEF Priors, Of, StepFacts
<1>3. proc[q].pc = "revoke" => BoundTo(proc[q].prior)' = {}
  BY <1>1, EmptyStays DEF Priors
<1>4. proc[q].pc = "record" /\ proc[q].answer => grant'[proc[q].prior] = "gone"
  BY <1>1 DEF Priors, StepFacts, GrantStep, Past
<1> QED
  BY <1>1, <1>2, <1>3, <1>4 DEF Priors, Of

\* A first link's accounts stay with it while it holds its lease.
LEMMA ReachKeeps ==
  ASSUME TypeOK, Bindings, StepFacts, NEW q \in Procs, InExchange(q),
         NEW a \in Attempts, proc[q].a = a,
         att[a].purpose = "link", att'[a].token = q, NEW S \in SUBSET Accounts,
         sess[a].closed \/ \A x \in S : Had(x, a)
  PROVE  sess'[a].closed \/ \A x \in S : Had(x, a)'
<1>1. sess[a].closed => sess'[a].closed
  BY DEF StepFacts, Effects, SessStep, Stages, Quarantines, Promotes, Retires, Ends
<1>2. ~Past(a)
  BY NotPast
<1>3. ASSUME ~sess'[a].closed, NEW x \in S
      PROVE  Had(x, a)'
  <2>1. x \in Accounts /\ Had(x, a) /\ BindStep(x)
    BY <1>1, <1>3 DEF StepFacts, Effects
  <2>2. ~(acct[x].bound = a /\ Frees(x))
    BY <1>3, SomeProc DEF Frees
  <2>3. ~\E b \in Attempts : Carries(x, b, a)
    BY <1>2 DEF Carries
  <2> QED
    BY <2>1, <2>2, <2>3, HadStays DEF Bindings
<1> QED
  BY <1>3

LEMMA ReachesStay ==
  ASSUME TypeOK, Bindings, Discipline, StepFacts, HasPrior, NEW q \in Procs,
         proc'[q] = proc[q],
         InExchange(q) /\ att'[proc[q].a].token = q => Steady(proc[q].a)
  PROVE  Reaches(q)'
<1> SUFFICES ASSUME InExchange(q), att'[proc[q].a].token = q,
                    att'[proc[q].a].purpose = "link",
                    proc[q].pc = "tail" => att'[proc[q].a].outcome \in Verdicts,
                    NEW a \in Attempts, proc[q].a = a
             PROVE  sess'[a].closed \/ \A x \in Reached(q) : Had(x, a)'
  <2>1. Reached(q)' = Reached(q)
    BY DEF Reached
  <2>2. InExchange(q) => proc[q].a \in Attempts
    BY TailPc DEF HasPrior, InExchange
  <2> QED
    BY <2>1, <2>2 DEF Reaches, InExchange, Leased, Holds, Of, Had
<1>1. /\ att[a].token = q /\ att[a].purpose = "link"
      /\ proc[q].pc = "tail" => att[a].outcome \in Verdicts
  BY DEF Steady, SameRow, SameAttempt
<1>2. sess[a].closed \/ \A x \in Reached(q) : Had(x, a)
  BY <1>1 DEF Bindings, Reaches, Of, Leased, Holds
<1>3. Reached(q) \in SUBSET Accounts
  BY DEF Reached
<1> QED
  BY <1>1, <1>2, <1>3, ReachKeeps


LEMMA GotoKeeps ==
  ASSUME proc \in [Procs -> Collector], NEW p \in Procs, NEW pc, Goto(p, pc)
  PROVE  /\ proc'[p].pc = pc /\ proc'[p].prior = proc[p].prior
         /\ proc'[p].left = proc[p].left /\ proc'[p].cur = proc[p].cur
BY DEF Goto, Collector

\* What a renewal carries of the consent it replaces.
LEMMA PriorKept ==
  ASSUME TypeOK, Discipline, NEW p \in Procs,
         NEW a \in Attempts, Exchange(p, a), ~Verify(p, a),
         proc'[p].pc \in {"insert", "fetch", "page", "switch", "revoke", "record"},
         att[a].purpose = "renew"
  PROVE  /\ proc'[p].prior = proc[p].prior
         /\ proc[p].pc \in {"insert", "fetch", "page", "switch", "revoke"}
         /\ proc'[p].pc = "revoke" => Switch(p, a)
         /\ proc'[p].pc = "record" => Revoke(p, a)
<1> USE DEF At
<1>1. CASE Raise(p)
  BY <1>1, EnterEffect DEF Raise, TypeOK
<1>2. CASE Post(p, a) \/ Note(p, a)
  BY <1>1, <1>2, GotoKeeps DEF Post, Note, LostFence, TypeOK
<1>3. CASE InsertSession(p, a)
  <2>1. \/ Raise(p)
        \/ \E x \in Accounts : proc' = [proc EXCEPT ![p].pc = "fetch", ![p].cur = x]
    BY <1>3 DEF InsertSession, LostFence
  <2>2. ASSUME NEW x, proc' = [proc EXCEPT ![p].pc = "fetch", ![p].cur = x]
        PROVE  proc'[p].pc = "fetch" /\ proc'[p].prior = proc[p].prior
    BY <2>2 DEF TypeOK, Collector
  <2>3. proc[p].pc = "insert"
    BY <1>3 DEF InsertSession
  <2> QED
    BY <1>1, <2>1, <2>2, <2>3
<1>4. CASE BindRead(p, a) \/ BindWrite(p, a)
  <2>1. proc[p].pc \in {"bind", "write"} /\ proc[p].a = a
    BY <1>4 DEF BindRead, BindWrite
  <2> QED
    BY <1>4, <2>1, ExchangeNames DEF Discipline, Exchanges, InExchange, Of
<1>5. CASE Page(p, a)
  BY <1>1, <1>5, GotoKeeps DEF Page, LostFence, TypeOK
<1>6. CASE Fetched(p, a)
  <2>1. proc[p].pc = "page" /\ proc[p].a = a
    BY <1>6 DEF Fetched
  <2>2. Raise(p) \/ \E ok : AfterFetch(p, a, ok)
    BY <1>6 DEF Fetched
  <2>3. ASSUME NEW ok, AfterFetch(p, a, ok)
        PROVE  /\ proc'[p].prior = proc[p].prior
               /\ proc'[p].pc \in {"bind", "fetch", "switch", "declare"}
    BY <2>3, AfterFetchGoes DEF TypeOK
  <2> QED
    BY <1>1, <2>1, <2>2, <2>3
<1>7. CASE Switch(p, a)
  <2>1. proc[p].pc = "switch"
    BY <1>7 DEF Switch
  <2>2. CASE proc' = [proc EXCEPT ![p].pc = "declare", ![p].short = TRUE]
    BY <2>2 DEF TypeOK, Collector
  <2>3. CASE Goto(p, "revoke")
    BY <1>7, <2>1, <2>3, GotoKeeps DEF TypeOK
  <2> QED
    BY <1>1, <1>7, <2>2, <2>3 DEF Switch
<1>8. CASE Revoke(p, a)
  <2>1. PICK ok \in BOOLEAN :
          proc' = [proc EXCEPT ![p].pc = "record", ![p].answer = ok]
    BY <1>8 DEF Revoke
  <2>2. proc'[p].prior = proc[p].prior /\ proc'[p].pc = "record"
    BY <2>1 DEF TypeOK, Collector
  <2> QED
    BY <1>8, <2>2 DEF Revoke
<1>9. CASE RecordRevocation(p, a)
  BY <1>9, GotoKeeps DEF RecordRevocation, TypeOK
<1>10. CASE Declare(p, a)
  BY <1>1, <1>10, EnterEffect DEF Declare, LostFence, TypeOK
<1> QED
  BY <1>2, <1>3, <1>4, <1>5, <1>6, <1>7, <1>8, <1>9, <1>10 DEF Exchange

\* A verified renewal replaces a live consent.
LEMMA VerifiedPrior ==
  ASSUME TypeOK, Fenced, Bindings, StepFacts, NEW p \in Procs, NEW a \in Attempts,
         Verify(p, a), proc'[p].pc \notin {"tail", "fail"}
  PROVE  /\ proc'[p].pc = "insert"
         /\ att[a].purpose = "renew"
              => proc'[p].prior \in Attempts /\ Past(proc'[p].prior)
<1> DEFINE s == IF att[a].purpose = "renew"
                THEN acct[att[a].account].bound ELSE Nobody
           f == [x \in Accounts |-> acct[x].life]
<1>1. /\ att[a].purpose = "renew" => MayRenew(a)
      /\ proc' = [proc EXCEPT ![p].pc = "insert", ![p].left = Accounts,
                              ![p].prior = s, ![p].lives = f]
  BY EnterEffect DEF Verify, Raise, TypeOK
<1>2. ASSUME att[a].purpose = "renew"
      PROVE  s \in Attempts /\ Past(s)
  <2>1. att[a].account \in Accounts
    BY <1>2 DEF Fenced
  <2>2. s \in Attempts /\ sess[s].status = "AUTHORIZED"
    BY <1>1, <1>2, <2>1 DEF MayRenew, TypeOK, Account
  <2> HIDE DEF s
  <2> QED
    BY <2>2 DEF Bindings, Authorized
<1> HIDE DEF s, f
<1>3. proc'[p].pc = "insert" /\ proc'[p].prior = s
  BY <1>1 DEF TypeOK, Collector
<1> QED
  BY <1>2, <1>3

LEMMA PriorsMove ==
  ASSUME TypeOK, Fenced, Bindings, Discipline, Discipline', StepFacts,
         NEW p \in Procs, NEW a \in Attempts, Exchange(p, a), Goes(p)
  PROVE  Priors(p)'
<1>1. /\ proc[p].a = a /\ proc'[p].a = a /\ att'[a].purpose = att[a].purpose
      /\ InExchange(p)
  BY ExchangeFlows DEF Goes, SameAttempt, InExchange, Exchange, Post, Note, Verify,
     InsertSession, BindRead, BindWrite, Page, Fetched, Switch, Revoke, RecordRevocation, Declare, At
<1> DEFINE carries == \/ proc'[p].pc \in {"switch", "revoke", "record"}
                      \/ proc'[p].pc \in {"insert", "fetch", "page"}
                         /\ att[a].purpose = "renew"
<1>2. carries => att[a].purpose = "renew"
  BY <1>1, ExchangeNames DEF Discipline, Exchanges, InExchange, Of
<1>3. ASSUME carries, ~Verify(p, a)
      PROVE  /\ proc'[p].prior = proc[p].prior
             /\ proc[p].pc \in {"insert", "fetch", "page", "switch", "revoke"}
             /\ proc'[p].pc = "revoke" => Switch(p, a)
             /\ proc'[p].pc = "record" => Revoke(p, a)
             /\ proc[p].prior \in Attempts /\ Past(proc[p].prior)
  <2>1. /\ proc'[p].prior = proc[p].prior
        /\ proc[p].pc \in {"insert", "fetch", "page", "switch", "revoke"}
        /\ proc'[p].pc = "revoke" => Switch(p, a)
        /\ proc'[p].pc = "record" => Revoke(p, a)
    BY <1>2, <1>3, PriorKept
  <2> QED
    BY <1>1, <1>2, <1>3, <2>1 DEF Bindings, Priors, Of
<1>4. carries => proc'[p].prior \in Attempts /\ Past(proc'[p].prior)
  BY <1>2, <1>3, VerifiedPrior
<1>5. ASSUME carries
      PROVE  proc'[p].prior \in Attempts /\ Past(proc[p].prior)'
  <2>1. PICK s \in Attempts : s = proc'[p].prior
    BY <1>4, <1>5
  <2>2. Past(s)'
    BY <1>4, <1>5, <2>1 DEF StepFacts
  <2> QED
    BY <2>1, <2>2 DEF Past
<1>6. ASSUME proc'[p].pc = "revoke"
      PROVE  BoundTo(proc[p].prior)' = {}
  <2>1. CASE Verify(p, a)
    BY <1>6, <2>1, VerifiedPrior
  <2>2. CASE ~Verify(p, a)
    <3>1. /\ Switch(p, a) /\ proc'[p].prior = proc[p].prior
          /\ proc[p].prior \in Attempts /\ Past(proc[p].prior)
      BY <1>3, <1>6, <2>2
    <3>2. proc[p].pc = "switch"
      BY <3>1 DEF Switch, At
    <3>3. proc[p].prior # a
      BY <1>1, <3>1, <3>2, NotPast DEF Leaving
    <3>4. acct' = Moved(a)
      <4>1. proc' = [proc EXCEPT ![p].pc = "declare", ![p].short = TRUE]
              => proc'[p].pc = "declare"
        BY DEF TypeOK, Collector
      <4>2. Raise(p) => proc'[p].pc = "fail"
        BY EnterEffect DEF Raise, TypeOK
      <4> QED
        BY <1>6, <3>1, <4>1, <4>2 DEF Switch
    <3>5. \A x \in Accounts : acct'[x].bound = a
      BY <3>4 DEF Moved, TypeOK, Account
    <3> QED
      BY <3>1, <3>3, <3>5 DEF BoundTo
  <2> QED
    BY <2>1, <2>2
<1>7. ASSUME proc'[p].pc = "record", proc'[p].answer
      PROVE  grant'[proc'[p].prior] = "gone"
  <2>1. CASE Verify(p, a)
    BY <1>7, <2>1, VerifiedPrior
  <2>2. CASE ~Verify(p, a)
    <3>1. /\ Revoke(p, a) /\ proc'[p].prior = proc[p].prior
          /\ proc[p].prior \in Attempts /\ Past(proc[p].prior)
      BY <1>3, <1>7, <2>2
    <3>2. PICK ok \in BOOLEAN :
            /\ Withdraw(proc[p].prior, ok)
            /\ proc' = [proc EXCEPT ![p].pc = "record", ![p].answer = ok]
      BY <3>1 DEF Revoke
    <3>3. proc'[p].answer = ok
      BY <3>2 DEF TypeOK, Collector
    <3> QED
      BY <1>7, <3>1, <3>2, <3>3, WithdrawEffect DEF Past
  <2> QED
    BY <2>1, <2>2
<1> QED
  BY <1>1, <1>5, <1>6, <1>7 DEF Priors, Of


\* An exchange that reports has reached every account.
LEMMA ReachedFrom ==
  ASSUME TypeOK, HasPrior, Discipline, Lives, NEW p \in Procs, NEW a \in Attempts,
         Writes(p), Exchange(p, a), att[a].purpose = "link", Holds(p, a),
         proc'[p].pc = "tail" => att'[a].outcome \in Verdicts
  PROVE  \A x \in Reached(p)' : x \in Reached(p) \/ Had(x, a)'
<1> USE DEF At
<1>1. CASE proc'[p].pc \notin {"insert", "bind", "write", "fetch", "page", "declare",
                               "tail"}
  BY <1>1 DEF Reached
<1>2. CASE Raise(p)
  BY <1>1, <1>2, EnterEffect DEF Raise, TypeOK
<1>3. CASE Post(p, a) \/ Note(p, a)
  BY <1>1, <1>2, <1>3, GotoKeeps DEF Post, Note, LostFence, TypeOK
<1>4. CASE Verify(p, a)
  <2> DEFINE s == IF att[a].purpose = "renew"
                  THEN acct[att[a].account].bound ELSE Nobody
             f == [x \in Accounts |-> acct[x].life]
  <2>1. CASE proc' = [proc EXCEPT ![p].pc = "insert", ![p].left = Accounts,
                                  ![p].prior = s, ![p].lives = f]
    <3> HIDE DEF s, f
    <3>1. proc'[p].pc = "insert" /\ proc'[p].left = Accounts
      BY <2>1 DEF TypeOK, Collector
    <3> QED
      BY <3>1 DEF Reached
  <2>2. CASE Enter(p, "tail") /\ UNCHANGED att
    <3>1. proc'[p].pc = "tail"
      BY <2>2, EnterEffect DEF TypeOK
    <3>2. att[a].outcome = "none"
      BY <1>4, ExchangeNames
         DEF Verify, Discipline, Exchanges, InExchange, Of, Leased, Holds
    <3> QED
      BY <2>2, <3>1, <3>2 DEF Verdicts
  <2> HIDE DEF s, f
  <2> QED
    BY <1>2, <1>4, <2>1, <2>2 DEF Verify, s, f
<1>5. CASE InsertSession(p, a)
  <2>1. proc[p].pc = "insert" /\ (Raise(p) \/ Goto(p, "bind"))
    BY <1>5 DEF InsertSession, LostFence
  <2>2. Goto(p, "bind") => proc'[p].pc = "bind" /\ proc'[p].left = proc[p].left
    BY GotoKeeps DEF TypeOK
  <2> QED
    BY <1>2, <2>1, <2>2 DEF Reached
<1>6. CASE BindRead(p, a)
  <2>1. proc[p].pc = "bind"
    BY <1>6 DEF BindRead
  <2>2. CASE proc'[p].pc = "write" /\ proc'[p].left = proc[p].left
    BY <2>1, <2>2 DEF Reached
  <2> QED
    BY <1>2, <1>6, <2>2, BindReadEffect DEF Raise
<1>11. CASE BindWrite(p, a)
  <2>1. PICK x \in Accounts : proc[p].cur = x
    BY <1>11 DEF BindWrite, Writes, TypeOK, Collector
  <2>2. CASE /\ proc'[p].pc = "fetch" /\ proc'[p].left = proc[p].left
             /\ proc'[p].cur = proc[p].cur
             /\ acct' = [acct EXCEPT ![x] = Upserted(x, a)]
    <3>1. acct'[x] = Upserted(x, a)
      BY <2>2 DEF TypeOK
    <3>2. acct[x].life \in Nat /\ (acct[x].present => acct[x].life >= 1)
      BY DEF TypeOK, Account, Lives
    <3>3. /\ Upserted(x, a).bound = a
          /\ Upserted(x, a).life
               = IF acct[x].present THEN acct[x].life ELSE acct[x].life + 1
      BY DEF Upserted, TypeOK, Account
    <3>4. Had(x, a)'
      BY <3>1, <3>2, <3>3 DEF Had
    <3>5. proc[p].pc = "write"
      BY <1>11 DEF BindWrite
    <3>6. \A y \in Reached(p)' : y \in Reached(p) \/ y = x
      BY <2>1, <2>2, <3>5 DEF Reached
    <3> QED
      BY <3>4, <3>6
  <2> QED
    BY <1>2, <1>11, <2>1, <2>2, BindWriteEffect DEF Raise
<1>7. CASE Page(p, a)
  <2>1. proc[p].pc \in {"fetch", "page"} /\ (Raise(p) \/ Goto(p, "page"))
    BY <1>7 DEF Page, LostFence
  <2>2. Goto(p, "page") => /\ proc'[p].pc = "page" /\ proc'[p].left = proc[p].left
                           /\ proc'[p].cur = proc[p].cur
    BY GotoKeeps DEF TypeOK
  <2> QED
    BY <1>2, <2>1, <2>2 DEF Reached
<1>8. CASE Fetched(p, a)
  <2>1. proc[p].pc = "page" /\ (Raise(p) \/ \E ok : AfterFetch(p, a, ok))
    BY <1>8 DEF Fetched
  <2>2. ASSUME NEW ok, AfterFetch(p, a, ok)
        PROVE  \A x \in Reached(p)' : x \in Reached(p)
    <3>1. /\ proc'[p].left = proc[p].left \ {proc[p].cur}
          /\ \/ proc'[p].pc = "bind"
             \/ proc'[p].left = {} /\ proc'[p].pc = "declare"
      BY <2>2, AfterFetchGoes DEF TypeOK
    <3> QED
      BY <2>1, <3>1 DEF Reached
  <2> QED
    BY <1>2, <2>1, <2>2
<1>9. CASE Switch(p, a) \/ Revoke(p, a) \/ RecordRevocation(p, a)
  BY <1>9, ExchangeNames DEF Switch, Revoke, RecordRevocation, Discipline,
     Exchanges, InExchange, Of
<1>10. CASE Declare(p, a)
  <2>1. proc[p].pc = "declare"
    BY <1>10 DEF Declare
  <2> QED
    BY <2>1 DEF Reached
<1> QED
  BY <1>3, <1>4, <1>5, <1>6, <1>7, <1>8, <1>9, <1>10, <1>11 DEF Exchange

LEMMA ReachesMove ==
  ASSUME TypeOK, HasPrior, Bindings, Discipline, StepFacts,
         NEW p \in Procs, NEW a \in Attempts, Exchange(p, a), Goes(p), proc[p].a = a
  PROVE  Reaches(p)'
<1>1. /\ proc'[p].a = a /\ att'[a].purpose = att[a].purpose
      /\ att'[a].token = att[a].token /\ InExchange(p)
      /\ proc[p].pc # "tail"
  BY DEF Goes, SameAttempt, InExchange
<1> SUFFICES ASSUME Holds(p, a), att[a].purpose = "link",
                    proc'[p].pc = "tail" => att'[a].outcome \in Verdicts
             PROVE  sess'[a].closed \/ \A x \in Reached(p)' : Had(x, a)'
  BY <1>1 DEF Reaches, Leased, Holds, Of, Had
<1>2. sess[a].closed \/ \A x \in Reached(p) : Had(x, a)
  BY <1>1 DEF Bindings, Reaches, Leased, Holds, Of
<1>3. Reached(p) \in SUBSET Accounts
  BY DEF Reached
<1>4. sess'[a].closed \/ \A x \in Reached(p) : Had(x, a)'
  BY <1>1, <1>2, <1>3, ReachKeeps DEF Holds
<1>5. \A x \in Reached(p)' : x \in Reached(p) \/ Had(x, a)'
  BY ReachedFrom DEF Bindings
<1> QED
  BY <1>4, <1>5


-----------------------------------------------------------------------------
(* What a first link between its read and its write may rely on.           *)

\* Nobody takes the lease, and no erasure removes the row, of a first link
\* that is between its read and its write.
LEMMA LeaseSteps ==
  ASSUME TypeOK, NoLease, [Next]_vars, NEW q \in Procs, NEW b \in Attempts,
         Holds(q, b), ~att[b].lapsed, At(q, b, "write"), att[b].account = Nobody
  PROVE  att'[b].token = q /\ ~att'[b].lapsed
<1> USE DEF vars, db
<1> DEFINE Kept == att'[b].token = q /\ ~att'[b].lapsed
<1>1. att'[b] = att[b] => Kept
  BY DEF Holds
<1>2. ASSUME NEW p \in Procs, NEW a \in Attempts, Others(a), Holds(p, a),
             proc[p].pc # "write"
      PROVE  Kept
  BY <1>1, <1>2 DEF Others, Holds, At
<1>3. ASSUME NEW p \in Procs, NEW a \in Attempts,
             Read(p, a) \/ Pass(p, a) \/ Settle(p, a)
      PROVE  Kept
  <2>1. CASE Take(p, a)
    <3>1. ~Takeable(b)
      BY SomeProc DEF Takeable, Holds
    <3>2. CASE a = b
      BY <1>1, <2>1, <3>1, <3>2 DEF Take
    <3>3. CASE a # b
      BY <1>1, <2>1, <3>3 DEF Take, TypeOK
    <3> QED
      BY <3>2, <3>3
  <2>2. CASE att' = att
    BY <1>1, <2>2
  <2>3. CASE /\ Holds(p, a) /\ proc[p].pc # "write"
             /\ \/ \E phase, outcome : SettleAs(a, phase, outcome)
                \/ att' = Free(a)
                \/ att' = [att EXCEPT ![a].phase = "exchange_started",
                                     ![a].lapsed = FALSE]
    <3>1. Others(a)
      <4>1. ASSUME NEW phase, NEW outcome, SettleAs(a, phase, outcome)
            PROVE  Others(a)
        BY <4>1, SettleEffect DEF TypeOK
      <4>2. CASE att' = Free(a)
        BY <4>2, FreeEffect DEF TypeOK
      <4>3. CASE att' = [att EXCEPT ![a].phase = "exchange_started",
                                   ![a].lapsed = FALSE]
        BY <4>3 DEF Others, TypeOK
      <4> QED
        BY <2>3, <4>1, <4>2, <4>3
    <3> QED
      BY <1>2, <2>3, <3>1
  <2>4. CASE Read(p, a) \/ Vanished(p, a) \/ Ack(p, a) \/ Stale(p, a)
    BY <2>2, <2>4 DEF Read, Vanished, Ack, Stale
  <2>5. CASE \/ AckAgain(p, a) \/ Abandon(p, a) \/ CasaEnded(p, a)
             \/ NotYet(p, a) \/ Begin(p, a) \/ Interrupted(p, a)
    BY <2>3, <2>5 DEF AckAgain, Abandon, CasaEnded, NotYet, Begin, Interrupted,
                      Published, Held
  <2>6. CASE Discard(p, a)
    BY <2>3, <2>6 DEF Discard, Published, Held
  <2>7. CASE Tail(p, a) \/ Fail(p, a)
    BY <2>3, <2>7 DEF Tail, Fail, At
  <2> QED
    BY <1>3, <2>1, <2>4, <2>5, <2>6, <2>7 DEF Pass, Settle
<1>4. ASSUME NEW p \in Procs, NEW a \in Attempts, Exchange(p, a)
      PROVE  Kept
  <2>1. \/ att' = att
        \/ /\ Holds(p, a) /\ proc[p].pc # "write"
           /\ \E v : \/ att' = [att EXCEPT ![a].lapsed = FALSE]
                     \/ att' = [att EXCEPT ![a].session = v, ![a].lapsed = FALSE]
                     \/ att' = [att EXCEPT ![a].outcome = v, ![a].lapsed = FALSE]
    <3>1. CASE Post(p, a) \/ BindWrite(p, a) \/ Fetched(p, a) \/ Switch(p, a)
               \/ Revoke(p, a) \/ RecordRevocation(p, a)
      BY <3>1 DEF Post, BindWrite, Fetched, Switch, Revoke, RecordRevocation
    <3>2. CASE Note(p, a)
      BY <3>2 DEF Note, LostFence, At
    <3>3. CASE Verify(p, a)
      BY <3>3 DEF Verify, Beats, At
    <3>4. CASE InsertSession(p, a)
      BY <3>4 DEF InsertSession, LostFence, Beats, At
    <3>5. CASE BindRead(p, a)
      BY <3>5 DEF BindRead, LostFence, Beats, At
    <3>6. CASE Page(p, a)
      BY <3>6 DEF Page, LostFence, Beats, At
    <3>7. CASE Declare(p, a)
      <4> DEFINE short == \/ proc[p].short
                          \/ att[a].purpose = "renew"
                             /\ \E x \in Accounts : ~DeepFetched(x, a)
                 v == IF short THEN "verified_partial" ELSE att[a].outcome
      <4>1. \/ att' = att
            \/ Holds(p, a) /\ att' = [att EXCEPT ![a].lapsed = FALSE, ![a].outcome = v]
        BY <3>7 DEF Declare, LostFence
      <4> HIDE DEF v
      <4>2. [att EXCEPT ![a].lapsed = FALSE, ![a].outcome = v]
              = [att EXCEPT ![a].outcome = v, ![a].lapsed = FALSE]
        BY DEF TypeOK, Attempt
      <4> QED
        BY <3>7, <4>1, <4>2 DEF Declare, At
    <3> QED
      BY <1>4, <3>1, <3>2, <3>3, <3>4, <3>5, <3>6, <3>7 DEF Exchange
  <2>2. att' = att \/ (Holds(p, a) /\ proc[p].pc # "write" /\ Others(a))
    BY <2>1, StampEffect DEF TypeOK
  <2> QED
    BY <1>1, <1>2, <2>2
<1>5. ASSUME NEW a \in Attempts, Mint(a)
      PROVE  Kept
  <2>1. Others(a) /\ att[a].phase = "none"
    BY <1>5, MintRows
  <2>2. a # b
    BY <2>1, SomeProc DEF NoLease, Holds
  <2> QED
    BY <1>1, <2>1, <2>2 DEF Others
<1>6. ASSUME NEW a \in Attempts, Lapse(a)
      PROVE  Kept
  <2>1. a # b
    BY <1>6 DEF Lapse, Holds, At, Calls
  <2> QED
    BY <1>1, <1>6, <2>1 DEF Lapse, TypeOK
<1>7. ASSUME NEW x \in Accounts, Forget(x)
      PROVE  Kept
  BY <1>1, <1>7, CollectionAssumption DEF Forget, CollectionAssumption
<1>8. ASSUME \/ \E a \in Attempts : Casa(a) \/ UnlinkCall(a) \/ UnlinkWrite(a)
             \/ \E p \in Procs : Crash(p)
             \/ UnlinkDies \/ UNCHANGED vars
      PROVE  Kept
  <2>1. att' = att
    BY <1>8 DEF Casa, Redirect, Land, CasaEnds, UnlinkCall, UnlinkWrite, Crash,
                UnlinkDies
  <2> QED
    BY <1>1, <2>1
<1> QED
  BY <1>3, <1>4, <1>5, <1>6, <1>7, <1>8 DEF Next

\* What it read stays true of the life it read, or the account was let go or
\* erased since.
LEMMA WritesStay ==
  ASSUME TypeOK, NoLease, HasPrior, Discipline, Bindings, StepFacts, [Next]_vars,
         NEW q \in Procs, proc'[q] = proc[q]
  PROVE  Writes(q)'
<1> SUFFICES ASSUME proc[q].pc = "write"
             PROVE  Writes(q)'
  BY DEF Writes
<1>1. PICK x \in Accounts, a \in Attempts :
        /\ proc[q].cur = x /\ proc[q].a = a /\ x \in proc[q].left
        /\ att[a].token = q /\ ~att[a].lapsed
        /\ proc[q].lives[x] <= acct[x].life
        /\ ~proc[q].fresh /\ acct[x].present /\ acct[x].life = proc[q].lives[x]
             => acct[x].released \/ acct[x].bound = a
  BY DEF HasPrior, Bindings, Writes, Leased, Holds, Of, TypeOK, Collector
<1>2. att[a].purpose = "link" /\ ~Past(a)
  BY <1>1, NotPast, ExchangeNames
     DEF HasPrior, Discipline, Exchanges, InExchange, Of, Leaving
<1>3. att'[a].token = q /\ ~att'[a].lapsed
  BY <1>1, <1>2, LeaseSteps DEF Bindings, Unfenced, Holds, At
<1>4. proc[q].lives[x] \in Nat /\ acct[x].life \in Nat
  BY <1>1 DEF TypeOK, Collector, Account
<1>5. BindStep(x)
  BY <1>1 DEF StepFacts, Effects
<1> DEFINE Rest == /\ proc[q].lives[x] <= acct'[x].life
                   /\ ~proc[q].fresh /\ acct'[x].present
                      /\ acct'[x].life = proc[q].lives[x]
                        => acct'[x].released \/ acct'[x].bound = a
<1>6. ASSUME Keeps(x) PROVE Rest
  BY <1>1, <1>6 DEF Keeps
<1>7. ASSUME Frees(x) PROVE Rest
  BY <1>1, <1>7 DEF Frees
<1>8. ASSUME Drops(x) PROVE Rest
  BY <1>1, <1>8 DEF Drops
<1>9. ASSUME NEW b \in Attempts, Gains(x, b)
      PROVE  Rest
  BY <1>1, <1>2, <1>4, <1>9, CollectionAssumption
     DEF Gains, CollectionAssumption
<1>10. ASSUME NEW b \in Attempts, NEW old \in Attempts, Carries(x, b, old)
       PROVE  Rest
  BY <1>1, <1>2, <1>10 DEF Carries
<1>11. Rest
  BY <1>5, <1>6, <1>7, <1>8, <1>9, <1>10 DEF BindStep
<1> HIDE DEF Rest
<1> QED
  BY <1>1, <1>3, <1>11 DEF Writes, Leased, Holds, Of, Rest

\* The read itself: an account that is there and bound nowhere was let go.
LEMMA WritesMove ==
  ASSUME TypeOK, HasPrior, Lives, NEW p \in Procs, NEW a \in Attempts,
         Exchange(p, a), Goes(p)
  PROVE  Writes(p)'
<1> SUFFICES ASSUME proc'[p].pc = "write"
             PROVE  Writes(p)'
  BY DEF Writes
<1>1. proc[p].pc = "bind"
  BY DEF Goes, Follows
<1>2. BindRead(p, a)
  BY <1>1 DEF Exchange, Post, Note, Verify, InsertSession, BindWrite, Page, Fetched,
              Switch, Revoke, RecordRevocation, Declare, At
<1>3. ~Raise(p)
  BY EnterEffect DEF Raise, TypeOK
<1>4. PICK x \in proc[p].left :
        /\ Holds(p, a) /\ att' = [att EXCEPT ![a].lapsed = FALSE]
        /\ ~BoundElsewhere(x, a)
        /\ proc' = [proc EXCEPT ![p].pc = "write", ![p].cur = x,
                     ![p].fresh = ~acct[x].present,
                     ![p].lives = [proc[p].lives EXCEPT ![x] = acct[x].life]]
        /\ acct' = acct
  BY <1>2, <1>3 DEF BindRead, LostFence, Beats
<1>5. x \in Accounts /\ proc[p].a = a
  BY <1>2 DEF TypeOK, Collector, BindRead, At
<1> DEFINE f == [proc[p].lives EXCEPT ![x] = acct[x].life]
           fresh == ~acct[x].present
<1>6. f[x] = acct[x].life /\ acct[x].life \in Nat
  BY <1>5 DEF TypeOK, Collector, Account
<1>7. proc' = [proc EXCEPT ![p].pc = "write", ![p].cur = x, ![p].fresh = fresh,
                           ![p].lives = f]
  BY <1>4
<1>8. acct[x].present => acct[x].released \/ acct[x].bound = a
  BY <1>4, <1>5 DEF BoundElsewhere, Lives
<1>9. att'[a].token = p /\ ~att'[a].lapsed
  BY <1>4 DEF Holds, TypeOK, Attempt
<1> HIDE DEF f, fresh
<1>10. /\ proc'[p].cur = x /\ proc'[p].left = proc[p].left
       /\ proc'[p].lives = f /\ proc'[p].fresh = fresh /\ proc'[p].a = a
  BY <1>5, <1>7 DEF TypeOK, Collector
<1>11. acct' = acct /\ proc'[p].lives[x] = acct'[x].life /\ x \in proc'[p].left
  BY <1>4, <1>6, <1>10
<1>12. acct'[x].present => acct'[x].released \/ acct'[x].bound = a
  BY <1>8, <1>11
<1>13. acct'[x].life \in Nat
  BY <1>6, <1>11
<1> QED
  BY <1>9, <1>10, <1>11, <1>12, <1>13 DEF Writes, Leased, Holds, Of

-----------------------------------------------------------------------------
(* The invariant, and what it says of every run.                           *)

LEMMA KnowledgeNext ==
  ASSUME CollectionInv, Discipline, Discipline', Bindings, StepFacts, [Next]_vars,
         NEW q \in Procs
  PROVE  Priors(q)' /\ Reaches(q)' /\ Writes(q)'
<1> USE DEF CollectionInv
<1>1. ASSUME \/ Quiet
             \/ \E a \in Attempts : Mint(a)
             \/ \E x \in Accounts : Forget(x)
             \/ \E p \in Procs \ {q} : Tends(p) \/ Starts(p) \/ Goes(p)
      PROVE  Priors(q)' /\ Reaches(q)' /\ Writes(q)'
  <2>1. /\ proc'[q] = proc[q]
        /\ InExchange(q) /\ att'[proc[q].a].token = q => Steady(proc[q].a)
    BY <1>1, Bystands
  <2> QED
    BY <2>1, PriorsStay, ReachesStay, WritesStay DEF Bindings
<1>2. ASSUME Tends(q) \/ Starts(q)
      PROVE  Priors(q)' /\ Reaches(q)' /\ Writes(q)'
  <2>1. proc'[q].pc \notin Exchanging \ {"post"}
    BY <1>2 DEF Tends, Starts
  <2>2. Reached(q)' = {}
    BY <2>1, ExchangeNames DEF Reached
  <2> QED
    BY <2>1, <2>2, ExchangeNames DEF Priors, Reaches, Writes
<1>3. ASSUME NEW p \in Procs, NEW a \in Attempts, Exchange(p, a)
      PROVE  Priors(q)' /\ Reaches(q)' /\ Writes(q)'
  <2>1. Goes(p) /\ proc[p].a = a
    BY <1>3, ExchangeFlows
  <2>2. CASE p = q
    BY <1>3, <2>1, <2>2, PriorsMove, ReachesMove, WritesMove DEF Bindings
  <2>3. CASE p # q
    BY <1>1, <2>1, <2>3
  <2> QED
    BY <2>2, <2>3
<1>4. ASSUME NEW p \in Procs, NEW a \in Attempts,
             Read(p, a) \/ Pass(p, a) \/ Settle(p, a)
      PROVE  Priors(q)' /\ Reaches(q)' /\ Writes(q)'
  <2>1. Tends(p) \/ Starts(p)
    BY <1>4, PassFlows
  <2> QED
    BY <1>1, <1>2, <2>1
<1>5. ASSUME NEW p \in Procs, Crash(p)
      PROVE  Priors(q)' /\ Reaches(q)' /\ Writes(q)'
  <2>1. Tends(p)
    BY <1>5, CrashFlows
  <2> QED
    BY <1>1, <1>2, <2>1
<1>6. ASSUME NEW a \in Attempts,
             Casa(a) \/ Lapse(a) \/ UnlinkCall(a) \/ UnlinkWrite(a)
      PROVE  Priors(q)' /\ Reaches(q)' /\ Writes(q)'
  BY <1>1, <1>6, QuietFlows
<1>7. CASE UnlinkDies \/ UNCHANGED vars
  <2>1. Quiet
    BY <1>7, SameRows DEF UnlinkDies, Quiet, vars, db, casa, bank
  <2> QED
    BY <1>1, <2>1
<1> QED
  BY <1>1, <1>3, <1>4, <1>5, <1>6, <1>7 DEF Next

LEMMA BindingsInit == Init => Bindings
<1> SUFFICES ASSUME Init PROVE Bindings
  OBVIOUS
<1>1. \A a \in Attempts : BoundTo(a) = {}
  BY CollectionAssumption DEF Init, NoRowYet, LeftRow, BoundTo, CollectionAssumption
<1>2. Unposted /\ Unfenced /\ ClosedRows /\ Authorized /\ RenewBound /\ LinkBound
      /\ ConsentVisible
  BY <1>1 DEF Init, NoAttempt, NoSession, Unposted, Unfenced, ClosedRows,
              Authorized, RenewBound, LinkBound, ConsentVisible
<1>3. Lives /\ Unlinks
  BY DEF Init, NoRowYet, LeftRow, NoUnlink, Lives, Unlinks
<1>4. ASSUME NEW p \in Procs PROVE Priors(p) /\ Reaches(p) /\ Writes(p)
  <2>1. proc[p].pc = "idle"
    BY DEF Init, Idle
  <2> QED
    BY <2>1, TailPc DEF Priors, Reaches, Writes, InExchange
<1> QED
  BY <1>2, <1>3, <1>4 DEF Bindings

LEMMA BindingsStep ==
  ASSUME BindingsInv, [Next]_vars
  PROVE  StepFacts /\ BindingsInv'
<1> USE DEF BindingsInv
<1>1. RowStep /\ Flow
  BY RowSteps, Flows DEF CollectionInv
<1>2. CollectionInv'
  BY CollectionNext
<1>3. Discipline'
  BY <1>1, DisciplineNext DEF CollectionInv
<1>4. StepFacts
  BY <1>1, AllFacts
<1>5. \A q \in Procs : Priors(q)' /\ Reaches(q)' /\ Writes(q)'
  BY <1>3, <1>4, KnowledgeNext
<1>6. Unposted' /\ Unfenced' /\ ClosedRows' /\ Lives' /\ Unlinks'
  BY <1>1, <1>4, UnpostedNext, UnfencedNext, ClosedRowsNext, LivesNext, UnlinksNext
     DEF CollectionInv
<1>7. Authorized' /\ RenewBound' /\ LinkBound' /\ ConsentVisible'
  BY <1>4, AuthorizedNext, RenewBoundNext, LinkBoundNext, ConsentVisibleNext
     DEF CollectionInv
<1> QED
  BY <1>2, <1>3, <1>4, <1>5, <1>6, <1>7 DEF Bindings

LEMMA BindingsInvariant == Spec => []BindingsInv
<1>1. Init => BindingsInv
  BY CollectionInit, DisciplineInit, BindingsInit DEF BindingsInv
<1>2. BindingsInv /\ [Next]_vars => BindingsInv'
  BY BindingsStep
<1> QED
  BY <1>1, <1>2, PTL DEF Spec

\* A first link that the ledger shows as live is settled: `_promote` and
\* `_settle` commit together, and no later step brings it back into flight.
THEOREM LiveAlwaysSettled == Spec => []LiveOnlySettled
<1>1. BindingsInv => LiveOnlySettled
  BY DEF BindingsInv, Bindings, Authorized, LiveOnlySettled
<1> QED
  BY <1>1, BindingsInvariant, PTL

\* Two live links never divide the bank between them, except where two
\* accounts were erased and bound again, or had been let go: what `_promote`
\* and `switch_bindings` look at is enough for every number of processes,
\* accounts and authorizations.
THEOREM OneLinkAlwaysLive == Spec => []OneLiveLink
<1>1. ASSUME BindingsInv, NEW s \in Attempts, NEW t \in Attempts, s # t,
             LiveLink(sess, acct, s), LiveLink(sess, acct, t)
      PROVE  \E x, y \in Accounts :
               /\ x # y
               /\ acct[x].life > 1 \/ acct[x].released
               /\ acct[y].life > 1 \/ acct[y].released
  <2>1. PICK x \in Accounts : acct[x].bound = s
    BY <1>1 DEF LiveLink
  <2>2. PICK y \in Accounts : acct[y].bound = t
    BY <1>1 DEF LiveLink
  <2>3. Had(x, t) /\ Had(y, s)
    BY <1>1 DEF LiveLink, BindingsInv, Bindings, Authorized
  <2>4. acct[x].present /\ acct[y].present
    BY <1>1, <2>1, <2>2, CollectionAssumption
       DEF BindingsInv, Bindings, Lives, CollectionAssumption
  <2> QED
    BY <1>1, <2>1, <2>2, <2>3, <2>4 DEF Had
<1>2. BindingsInv => OneLiveLink
  BY <1>1 DEF OneLiveLink
<1> QED
  BY <1>2, BindingsInvariant, PTL

\* A first link that settled without becoming live has no account: `_contain`
\* finds every one it bound, and the lease keeps a collector that was robbed of
\* the attempt from binding another.
THEOREM ContainedAlwaysUnbound == Spec => []ContainedIsUnbound
<1>1. BindingsInv => ContainedIsUnbound
  BY DEF BindingsInv, Bindings, LinkBound, ContainedIsUnbound
<1> QED
  BY <1>1, BindingsInvariant, PTL

\* An exchange settled by a collector leaves the consent it noted where the
\* operator can see it, and a consent is recorded as closed by the provider
\* only when the bank confirmed it (`_contain`, `record_revocation`).
THEOREM ConsentAlwaysVisible == Spec => []ConsentVisible
<1>1. BindingsInv => ConsentVisible
  BY DEF BindingsInv, Bindings
<1> QED
  BY <1>1, BindingsInvariant, PTL

\* The binding of an account that lives moves only upwards in generation, and
\* only onto a consent whose history it has fetched: a collector that lost its
\* lease, at any point, cannot move it back (`upsert_account`,
\* `switch_bindings`).  Only a first link that read the account while it was
\* let go, and still holds its lease, may take it from another.
THEOREM BindingsNeverRollBack == Spec => NoRollback
<1> DEFINE Rises == \A x \in Accounts :
                      LET s == acct[x].bound
                          t == acct'[x].bound
                      IN  s # Nobody /\ t # Nobody /\ s # t
                            => \/ sess'[t].gen > sess[s].gen /\ acct[x].fetched = t
                               \/ /\ acct[x].released
                                  /\ \E p \in Procs :
                                       Holds(p, t) /\ At(p, t, "write") /\ proc[p].cur = x
<1>1. BindingsInv /\ [Next]_vars => [Rises]_vars
  <2> SUFFICES ASSUME BindingsInv, [Next]_vars, NEW x \in Accounts,
                      acct[x].bound # Nobody, acct'[x].bound # Nobody,
                      acct[x].bound # acct'[x].bound
               PROVE  \/ /\ sess'[acct'[x].bound].gen > sess[acct[x].bound].gen
                         /\ acct[x].fetched = acct'[x].bound
                      \/ /\ acct[x].released
                         /\ \E p \in Procs : /\ At(p, acct'[x].bound, "write")
                                            /\ proc[p].cur = x
                                            /\ Holds(p, acct'[x].bound)
    OBVIOUS
  <2>1. BindStep(x)
    BY BindingsStep DEF StepFacts, Effects
  <2> QED
    BY <2>1 DEF BindStep, Keeps, Frees, Drops, Gains, Carries
<1> QED
  BY <1>1, BindingsInvariant, PTL DEF Spec, NoRollback

\* No renewal withdraws a consent that still serves an account, whoever else
\* binds, erases or withdraws meanwhile (`apply.py`, `_revoke`).
THEOREM ReplacedAlwaysBefore == Spec => ReplacedBeforeWithdrawn
<1> DEFINE Replaced == \A p \in Procs, s \in Attempts :
              proc[p].pc = "revoke" /\ proc'[p].pc = "record" /\ proc[p].prior = s
                => BoundTo(s) = {}
<1>1. BindingsInv /\ [Next]_vars => [Replaced]_vars
  BY DEF BindingsInv, Bindings, Priors
<1> QED
  BY <1>1, BindingsInvariant, PTL DEF Spec, ReplacedBeforeWithdrawn

=============================================================================
