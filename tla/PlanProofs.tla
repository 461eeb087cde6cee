----------------------------- MODULE PlanProofs -----------------------------
(* Proofs about Ingest: what every plan is, whatever was loaded and         *)
(* fetched.  Sorting and matching first, then one lemma per pass.           *)
EXTENDS Ingest, FiniteSetTheorems, SequenceTheorems, TLAPS

-----------------------------------------------------------------------------
(* Orders on tuples of integers.                                           *)

LEMMA LeastNumber ==
  ASSUME NEW S \in SUBSET Nat, S # {}
  PROVE  \E m \in S : \A n \in S : m <= n
<1>1. PICK m \in S : \A n \in S : ~(<<n, m>> \in OpToRel(<, Nat))
  BY NatLessThanWellFounded, WFMin
<1>2. ASSUME NEW n \in S PROVE m <= n
  <2>1. m \in Nat /\ n \in Nat /\ ~(n < m)
    BY <1>1 DEF OpToRel
  <2> QED
    BY <2>1
<1> QED
  BY <1>2

LEMMA LexIrreflexive ==
  ASSUME NEW m \in Nat, NEW a \in [1 .. m -> Int]
  PROVE  ~LexLess(a, a)
BY DEF LexLess

LEMMA LexTransitive ==
  ASSUME NEW m \in Nat, NEW a \in [1 .. m -> Int], NEW b \in [1 .. m -> Int],
         NEW d \in [1 .. m -> Int], LexLess(a, b), LexLess(b, d)
  PROVE  LexLess(a, d)
<1>1. PICK i \in 1 .. m : a[i] < b[i] /\ \A j \in 1 .. i - 1 : a[j] = b[j]
  BY DEF LexLess
<1>2. PICK k \in 1 .. m : b[k] < d[k] /\ \A j \in 1 .. k - 1 : b[j] = d[j]
  BY DEF LexLess
<1>3. CASE i < k
  <2>1. b[i] = d[i] /\ a[i] < d[i]
    BY <1>1, <1>2, <1>3
  <2>2. \A j \in 1 .. i - 1 : a[j] = d[j]
    BY <1>1, <1>2, <1>3
  <2> QED
    BY <2>1, <2>2 DEF LexLess
<1>4. CASE k < i
  <2>1. a[k] = b[k] /\ a[k] < d[k]
    BY <1>1, <1>2, <1>4
  <2>2. \A j \in 1 .. k - 1 : a[j] = d[j]
    BY <1>1, <1>2, <1>4
  <2> QED
    BY <2>1, <2>2 DEF LexLess
<1>5. CASE i = k
  <2>1. a[i] < d[i]
    <3>1. a[i] \in Int /\ b[i] \in Int /\ d[i] \in Int
      OBVIOUS
    <3> QED
      BY <3>1, <1>1, <1>2, <1>5
  <2>2. \A j \in 1 .. i - 1 : a[j] = d[j]
    BY <1>1, <1>2, <1>5
  <2> QED
    BY <2>1, <2>2 DEF LexLess
<1> QED
  BY <1>3, <1>4, <1>5

LEMMA LexTotal ==
  ASSUME NEW m \in Nat, NEW a \in [1 .. m -> Int], NEW b \in [1 .. m -> Int], a # b
  PROVE  LexLess(a, b) \/ LexLess(b, a)
<1> DEFINE apart == {i \in 1 .. m : a[i] # b[i]}
<1>1. apart # {}
  OBVIOUS
<1>2. apart \in SUBSET Nat
  OBVIOUS
<1> HIDE DEF apart
<1>3. PICK i \in apart : \A j \in apart : i <= j
  BY <1>1, <1>2, LeastNumber
<1>4. i \in 1 .. m /\ a[i] # b[i]
  BY DEF apart
<1>5. \A j \in 1 .. i - 1 : a[j] = b[j]
  BY <1>3, <1>4 DEF apart
<1>6. a[i] < b[i] \/ b[i] < a[i]
  BY <1>4
<1> QED
  BY <1>4, <1>5, <1>6 DEF LexLess

\* How many come before x.
Before(S, key, x) == {y \in S : LexLess(key[y], key[x])}

Keyed(S, key, m) == \A x \in S : key[x] \in [1 .. m -> Int]

LEMMA RankGrows ==
  ASSUME NEW S, IsFiniteSet(S), NEW m \in Nat, NEW key, Keyed(S, key, m),
         NEW x \in S, NEW y \in S, LexLess(key[x], key[y])
  PROVE  /\ Cardinality(Before(S, key, x)) < Cardinality(Before(S, key, y))
         /\ Cardinality(Before(S, key, x)) \in Nat /\ Cardinality(Before(S, key, y)) \in Nat
<1>1. Before(S, key, x) \subseteq Before(S, key, y)
  <2> SUFFICES ASSUME NEW z \in S, LexLess(key[z], key[x])
      PROVE  LexLess(key[z], key[y])
    BY DEF Before
  <2> QED
    BY LexTransitive DEF Keyed
<1>2. x \in Before(S, key, y) /\ x \notin Before(S, key, x)
  BY LexIrreflexive DEF Before, Keyed
<1>3. IsFiniteSet(Before(S, key, y)) /\ IsFiniteSet(Before(S, key, x))
  BY FS_Subset DEF Before
<1>4. /\ Cardinality(Before(S, key, x)) <= Cardinality(Before(S, key, y))
      /\ Cardinality(Before(S, key, x)) # Cardinality(Before(S, key, y))
  BY <1>1, <1>2, <1>3, FS_Subset
<1>5. Cardinality(Before(S, key, x)) \in Nat /\ Cardinality(Before(S, key, y)) \in Nat
  BY <1>3, FS_CardinalityType
<1> QED
  BY <1>4, <1>5

\* A finite set has a member nothing comes before.
LEMMA SomeFirst ==
  ASSUME NEW S, IsFiniteSet(S), S # {}, NEW m \in Nat, NEW key, Keyed(S, key, m)
  PROVE  \E x \in S : \A y \in S : ~LexLess(key[y], key[x])
<1> DEFINE rank(x) == Cardinality(Before(S, key, x))
           ranks == {rank(x) : x \in S}
<1>1. \A x \in S : rank(x) \in Nat
  BY FS_Subset, FS_CardinalityType DEF Before
<1> HIDE DEF rank
<1>2. ranks \in SUBSET Nat /\ ranks # {}
  BY <1>1
<1>3. PICK r \in ranks : \A s \in ranks : r <= s
  BY <1>2, LeastNumber
<1>4. PICK x \in S : r = rank(x)
  BY <1>3
<1>5. ASSUME NEW y \in S, LexLess(key[y], key[x]) PROVE FALSE
  <2>1. rank(y) < rank(x)
    BY <1>5, RankGrows DEF rank
  <2> QED
    BY <2>1, <1>1, <1>3, <1>4
<1> QED
  BY <1>5

\* Sorted lists the members: every rank below the size of the set is taken.
LEMMA SortedIn ==
  ASSUME NEW S, IsFiniteSet(S), NEW m \in Nat, NEW key, Keyed(S, key, m),
         \A x, y \in S : key[x] = key[y] => x = y
  PROVE  /\ Cardinality(S) \in Nat /\ DOMAIN Sorted(S, key) = 1 .. Cardinality(S)
         /\ \A n \in 1 .. Cardinality(S) : Sorted(S, key)[n] \in S
<1>1. Cardinality(S) \in Nat
  BY FS_CardinalityType
<1> DEFINE top == Cardinality(S)
           rank == [x \in S |-> Cardinality(Before(S, key, x)) + 1]
<1>2. ASSUME NEW x \in S PROVE rank[x] \in 1 .. top
  <2>1. /\ IsFiniteSet(Before(S, key, x)) /\ Cardinality(Before(S, key, x)) <= top
        /\ (Cardinality(S) = Cardinality(Before(S, key, x)) => S = Before(S, key, x))
    BY FS_Subset DEF Before
  <2>2. x \notin Before(S, key, x)
    BY LexIrreflexive DEF Before, Keyed
  <2>3. Cardinality(Before(S, key, x)) \in Nat
    BY <2>1, FS_CardinalityType
  <2> QED
    BY <1>1, <2>1, <2>2, <2>3
<1>3. ASSUME NEW x \in S, NEW y \in S, x # y PROVE rank[x] # rank[y]
  <2>1. key[x] # key[y] /\ key[x] \in [1 .. m -> Int] /\ key[y] \in [1 .. m -> Int]
    BY <1>3 DEF Keyed
  <2>2. LexLess(key[x], key[y]) \/ LexLess(key[y], key[x])
    BY <2>1, LexTotal
  <2>3. CASE LexLess(key[x], key[y])
    BY <2>3, RankGrows
  <2>4. CASE LexLess(key[y], key[x])
    BY <2>4, RankGrows
  <2> QED
    BY <2>2, <2>3, <2>4
<1> HIDE DEF rank
<1>4. rank \in [S -> 1 .. top]
  <2>1. rank = [x \in S |-> rank[x]]
    BY DEF rank
  <2> QED
    BY <2>1, <1>2
<1>5. rank \in Injection(S, 1 .. top)
  BY <1>3, <1>4 DEF Injection, IsInjective
<1>6. IsFiniteSet(1 .. top) /\ Cardinality(1 .. top) = top
  BY <1>1, FS_Interval
<1>7. rank \in Surjection(S, 1 .. top)
  BY <1>5, <1>6, FS_Injection
<1>8. ASSUME NEW n \in 1 .. top PROVE Sorted(S, key)[n] \in S
  <2>1. PICK x \in S : rank[x] = n
    BY <1>7 DEF Surjection
  <2>2. Cardinality(Before(S, key, x)) = n - 1
    <3>1. Cardinality(Before(S, key, x)) \in Nat
      BY FS_Subset, FS_CardinalityType DEF Before
    <3> QED
      BY <2>1, <3>1 DEF rank
  <2>3. \E y \in S : Cardinality({z \in S : LexLess(key[z], key[y])}) = n - 1
    BY <2>2 DEF Before
  <2> QED
    BY <2>3 DEF Sorted
<1> QED
  BY <1>1, <1>8 DEF Sorted

-----------------------------------------------------------------------------
(* What is loaded and fetched, and what a plan is.                         *)

Statuses == {"PDNG", "BOOK", "CNCL"}
Reasons == {"none", "direction_or_currency_changed", "amount_changed",
            "duplicate_of_stored_booking", "reference_shared_in_fetch",
            "content_present_elsewhere", "provider_ref_reuse", "windowed_ambiguous",
            "unresolved_cluster", "duplicate_across_window_edge"}
Raised == Reasons \ {"none"}
Pays == [content : Idents, date : Int, ref : Int, status : Statuses]

\* The context of a run: rows and marks as they were loaded, whatever they say.
Context(c) ==
  /\ c.page \in Seq(Pays)
  /\ IsFiniteSet(c.win) /\ IsFiniteSet(c.below) /\ IsFiniteSet(DOMAIN c.rows)
  /\ c.win \subseteq DOMAIN c.rows /\ c.below \subseteq DOMAIN c.rows
  /\ \A i \in DOMAIN c.rows :
       /\ i \in Nat /\ c.rows[i].ident \in Idents /\ c.rows[i].occ \in Nat
       /\ c.rows[i].date \in Int /\ c.rows[i].ref \in Int /\ c.rows[i].why \in Reasons
  /\ c.alloc \in [Idents -> Nat] /\ c.trusted \in BOOLEAN

\* An insert carries the identity of its content, under an occurrence that is
\* not below the durable mark.
Inserts(c) ==
  {e \in [content : Idents, date : Int, ref : Int, status : Statuses, ident : Idents,
          occ : Nat, why : Reasons] : e.ident = e.content /\ c.alloc[e.ident] <= e.occ}

\* A row that is rewritten keeps its identity and occurrence, or is given the
\* identity of its new content under such an occurrence, on trusted references.
Rewrites(c) ==
  {u \in [op : {"update"}, id : DOMAIN c.rows, row : Pays, ident : Idents, occ : Nat,
          why : Reasons] :
     /\ u.ident = u.row.content
     /\ \/ u.ident = c.rows[u.id].ident /\ u.occ = c.rows[u.id].occ
        \/ c.trusted /\ c.alloc[u.ident] <= u.occ}

Successions(c) == [op : {"supersede"}, id : DOMAIN c.rows, by : Nat, why : Reasons]

\* A row is superseded by an insert of the plan, which takes its finding over and,
\* without trust, has its identity.
Succeeds(c, ins, u) ==
  /\ u.by \in 1 .. Len(ins)
  /\ c.rows[u.id].why # "none" => ins[u.by].why # "none"
  /\ c.trusted \/ ins[u.by].ident = c.rows[u.id].ident

\* Each by one of its own.
Successors(c, ins, upd) ==
  /\ \A n \in 1 .. Len(upd) : upd[n].op = "supersede" => Succeeds(c, ins, upd[n])
  /\ \A m, n \in 1 .. Len(upd) :
       upd[m].op = "supersede" /\ upd[n].op = "supersede" /\ upd[m].by = upd[n].by => m = n

Listed(s) == \E S : s \in Seq(S)
Disclosed(flags) == Listed(flags) /\ \A n \in 1 .. Len(flags) : flags[n].why \in Raised

GoodPlan(c, p) ==
  /\ p.ins \in Seq(Inserts(c)) /\ p.upd \in Seq(Rewrites(c) \cup Successions(c))
  /\ Successors(c, p.ins, p.upd) /\ Listed(p.tomb) /\ Disclosed(p.flags)

\* A plan under construction.
Draft(c, b) ==
  /\ DOMAIN b = DOMAIN NoPlan
  /\ GoodPlan(c, b)
  /\ b.spent \subseteq Idents \X Nat /\ IsFiniteSet(b.spent)
  /\ b.reps \subseteq DOMAIN c.page /\ (b.reps # {} => c.trusted)
  /\ b.edge \subseteq DOMAIN c.page

\* What a step of the reconciliation needs of the plan besides what it writes.
Alike(b, d) ==
  /\ DOMAIN d = DOMAIN b
  /\ d.ins = b.ins /\ d.upd = b.upd /\ d.tomb = b.tomb /\ d.flags = b.flags
  /\ d.spent = b.spent /\ d.reps = b.reps /\ d.edge \subseteq b.edge

LEMMA AlikeKeeps ==
  ASSUME NEW c, NEW b, NEW d, Draft(c, b), Alike(b, d)
  PROVE  Draft(c, d)
BY DEF Draft, Alike, GoodPlan

LEMMA Appended ==
  ASSUME NEW s, Listed(s), NEW e
  PROVE  /\ Listed(Append(s, e)) /\ Len(s) \in Nat /\ Len(Append(s, e)) = Len(s) + 1
         /\ \A n \in 1 .. Len(s) : Append(s, e)[n] = s[n]
         /\ Append(s, e)[Len(s) + 1] = e
<1>1. PICK S : s \in Seq(S)
  BY DEF Listed
<1> DEFINE T == S \cup {e}
<1>2. s \in Seq(T) /\ e \in T
  BY <1>1, SeqMonotonic
<1> HIDE DEF T
<1>3. /\ Append(s, e) \in Seq(T) /\ Len(s) \in Nat /\ Len(Append(s, e)) = Len(s) + 1
      /\ \A n \in 1 .. Len(s) : Append(s, e)[n] = s[n]
      /\ Append(s, e)[Len(s) + 1] = e
  BY <1>2
<1> QED
  BY <1>3 DEF Listed

LEMMA FlagKeeps ==
  ASSUME NEW c, NEW b, Draft(c, b), NEW i, NEW why \in Raised
  PROVE  Draft(c, Flag(b, i, why)) /\ Flag(b, i, why).edge = b.edge
<1> DEFINE d == Flag(b, i, why)
<1>1. /\ DOMAIN d = DOMAIN b /\ d.ins = b.ins /\ d.upd = b.upd /\ d.tomb = b.tomb
      /\ d.flags = Append(b.flags, [id |-> i, why |-> why])
      /\ d.spent = b.spent /\ d.reps = b.reps /\ d.edge = b.edge
  BY DEF Draft, NoPlan, Flag
<1> HIDE DEF d
<1>2. Disclosed(d.flags)
  <2> DEFINE e == [id |-> i, why |-> why]
  <2>1. e.why \in Raised
    OBVIOUS
  <2> HIDE DEF e
  <2>2. /\ Listed(Append(b.flags, e)) /\ Len(b.flags) \in Nat
        /\ Len(Append(b.flags, e)) = Len(b.flags) + 1
        /\ \A n \in 1 .. Len(b.flags) : Append(b.flags, e)[n] = b.flags[n]
        /\ Append(b.flags, e)[Len(b.flags) + 1] = e
    BY Appended DEF Draft, GoodPlan, Disclosed
  <2>3. d.flags = Append(b.flags, e)
    BY <1>1 DEF e
  <2>4. \A n \in 1 .. Len(b.flags) : b.flags[n].why \in Raised
    BY DEF Draft, GoodPlan, Disclosed
  <2>5. ASSUME NEW n \in 1 .. Len(b.flags) + 1 PROVE Append(b.flags, e)[n].why \in Raised
    <3>1. CASE n \in 1 .. Len(b.flags)
      BY <3>1, <2>2, <2>4
    <3>2. CASE n = Len(b.flags) + 1
      BY <3>2, <2>1, <2>2
    <3> QED
      BY <3>1, <3>2, <2>2
  <2> QED
    BY <2>2, <2>3, <2>5 DEF Disclosed
<1>3. Draft(c, d)
  BY <1>1, <1>2 DEF Draft, GoodPlan
<1> QED
  BY <1>1, <1>3 DEF d

-----------------------------------------------------------------------------
(* Occurrences.                                                            *)

LEMMA ImageFinite ==
  ASSUME NEW S, IsFiniteSet(S), NEW f
  PROVE  IsFiniteSet({f[x] : x \in S})
<1> DEFINE g == [x \in S |-> f[x]]
           T == {f[x] : x \in S}
<1>1. g \in Surjection(S, T)
  BY DEF Surjection
<1> QED
  BY <1>1, FS_Surjection

LEMMA Greatest ==
  ASSUME NEW S \in SUBSET Int, IsFiniteSet(S), S # {}
  PROVE  Max(S) \in S /\ \A x \in S : x <= Max(S)
<1> DEFINE key == [x \in S |-> <<-x>>]
<1>1. Keyed(S, key, 1)
  BY DEF Keyed
<1>2. PICK x \in S : \A y \in S : ~LexLess(key[y], key[x])
  BY <1>1, SomeFirst
<1>3. ASSUME NEW y \in S PROVE y <= x
  <2> SUFFICES ASSUME x < y PROVE FALSE
    OBVIOUS
  <2>1. DOMAIN key[y] = 1 .. 1 /\ key[y][1] = -y /\ key[x][1] = -x
    OBVIOUS
  <2>2. LexLess(key[y], key[x])
    <3> HIDE DEF key
    <3> QED
      BY <2>1 DEF LexLess
  <2> QED
    BY <2>2, <1>2
<1>4. \E z \in S : \A y \in S : z >= y
  BY <1>3
<1> QED
  BY <1>4 DEF Max

LEMMA Smallest ==
  ASSUME NEW S \in SUBSET Int, IsFiniteSet(S), S # {}
  PROVE  Min(S) \in S /\ \A x \in S : Min(S) <= x
<1> DEFINE key == [x \in S |-> <<x>>]
<1>1. Keyed(S, key, 1)
  BY DEF Keyed
<1>2. PICK x \in S : \A y \in S : ~LexLess(key[y], key[x])
  BY <1>1, SomeFirst
<1>3. ASSUME NEW y \in S PROVE x <= y
  <2> SUFFICES ASSUME y < x PROVE FALSE
    OBVIOUS
  <2>1. DOMAIN key[y] = 1 .. 1 /\ key[y][1] = y /\ key[x][1] = x
    OBVIOUS
  <2>2. LexLess(key[y], key[x])
    <3> HIDE DEF key
    <3> QED
      BY <2>1 DEF LexLess
  <2> QED
    BY <2>2, <1>2
<1>4. \E z \in S : \A y \in S : z =< y
  BY <1>3
<1> QED
  BY <1>4 DEF Min

LEMMA NextOccurrenceFits ==
  ASSUME NEW c, NEW b, Context(c), Draft(c, b), NEW ident \in Idents
  PROVE  NextOccurrence(c, b, ident) \in Nat /\ c.alloc[ident] <= NextOccurrence(c, b, ident)
<1> DEFINE inView == {j \in c.win : c.rows[j].ident = ident}
           handed == {r \in b.spent : r[1] = ident}
           A == {c.rows[i].occ + 1 : i \in inView}
           B == {q[2] + 1 : q \in handed}
           S == {c.alloc[ident]} \cup A \cup B
<1>1. IsFiniteSet(A) /\ A \subseteq Nat
  <2> DEFINE f == [i \in inView |-> c.rows[i].occ + 1]
  <2>1. IsFiniteSet(inView) /\ inView \subseteq DOMAIN c.rows
    BY FS_Subset DEF Context
  <2>2. A = {f[i] : i \in inView}
    OBVIOUS
  <2>3. IsFiniteSet({f[i] : i \in inView})
    <3> HIDE DEF f, inView
    <3> QED
      BY <2>1, ImageFinite
  <2>4. A \subseteq Nat
    BY <2>1 DEF Context
  <2> QED
    BY <2>2, <2>3, <2>4
<1>2. IsFiniteSet(B) /\ B \subseteq Nat
  <2> DEFINE f == [q \in handed |-> q[2] + 1]
  <2>1. IsFiniteSet(handed) /\ handed \subseteq Idents \X Nat
    BY FS_Subset DEF Draft
  <2>2. B = {f[q] : q \in handed}
    OBVIOUS
  <2>3. IsFiniteSet({f[q] : q \in handed})
    <3> HIDE DEF f, handed
    <3> QED
      BY <2>1, ImageFinite
  <2>4. B \subseteq Nat
    BY <2>1
  <2> QED
    BY <2>2, <2>3, <2>4
<1>3. c.alloc[ident] \in Nat
  BY DEF Context
<1> HIDE DEF A, B
<1>4. S \in SUBSET Int /\ S \in SUBSET Nat /\ IsFiniteSet(S) /\ S # {} /\ c.alloc[ident] \in S
  <2>1. IsFiniteSet({c.alloc[ident]})
    BY FS_Singleton
  <2>2. IsFiniteSet({c.alloc[ident]} \cup A)
    BY <1>1, <2>1, FS_Union
  <2>3. IsFiniteSet(S)
    BY <1>2, <2>2, FS_Union
  <2>4. \A x \in S : x \in Nat
    BY <1>1, <1>2, <1>3
  <2>5. c.alloc[ident] \in S
    OBVIOUS
  <2> HIDE DEF S
  <2> QED
    BY <2>3, <2>4, <2>5
<1>5. Max(S) \in S /\ \A x \in S : x <= Max(S)
  <2> HIDE DEF S
  <2> QED
    BY <1>4, Greatest
<1>6. NextOccurrence(c, b, ident) = Max(S)
  BY DEF NextOccurrence, A, B
<1> QED
  BY <1>4, <1>5, <1>6

-----------------------------------------------------------------------------
(* What a match or an insert adds to the plan.                             *)

LEMMA InsertAdds ==
  ASSUME NEW c, NEW b, Context(c), Draft(c, b), NEW f \in Pays, NEW why \in Reasons
  PROVE  LET d == EmitInsert(c, b, f, why)
         IN /\ Draft(c, d) /\ d.edge = b.edge
            /\ Len(b.ins) \in Nat /\ Len(d.ins) = Len(b.ins) + 1
            /\ \A n \in 1 .. Len(b.ins) : d.ins[n] = b.ins[n]
            /\ d.ins[Len(d.ins)].why = why /\ d.ins[Len(d.ins)].ident = f.content
            /\ d.upd = b.upd
<1> DEFINE d == EmitInsert(c, b, f, why)
           occ == NextOccurrence(c, b, f.content)
           e == [content |-> f.content, date |-> f.date, ref |-> f.ref, status |-> f.status,
                 ident |-> f.content, occ |-> occ, why |-> why]
<1>1. f.content \in Idents /\ f.date \in Int /\ f.ref \in Int /\ f.status \in Statuses
  BY DEF Pays
<1>2. occ \in Nat /\ c.alloc[f.content] <= occ
  BY <1>1, NextOccurrenceFits
<1>3. /\ DOMAIN d = DOMAIN b /\ d.ins = Append(b.ins, e) /\ d.upd = b.upd
      /\ d.tomb = b.tomb /\ d.flags = b.flags
      /\ d.spent = b.spent \cup {<<f.content, occ>>}
      /\ d.reps = b.reps /\ d.edge = b.edge
  BY DEF Draft, NoPlan, EmitInsert, InsertAs, IdentityKey
<1> HIDE DEF d, occ
<1>4. e \in Inserts(c)
  BY <1>1, <1>2 DEF Inserts
<1>5. e.why = why /\ e.ident = f.content
  OBVIOUS
<1> HIDE DEF e
<1>6. b.ins \in Seq(Inserts(c))
  BY DEF Draft, GoodPlan
<1>7. /\ d.ins \in Seq(Inserts(c)) /\ Len(b.ins) \in Nat /\ Len(d.ins) = Len(b.ins) + 1
      /\ \A n \in 1 .. Len(b.ins) : d.ins[n] = b.ins[n]
      /\ d.ins[Len(d.ins)] = e
  BY <1>3, <1>4, <1>6
<1>8. Successors(c, d.ins, d.upd)
  <2>1. Successors(c, b.ins, b.upd)
    BY DEF Draft, GoodPlan
  <2>2. ASSUME NEW n \in 1 .. Len(b.upd), b.upd[n].op = "supersede"
        PROVE  Succeeds(c, d.ins, b.upd[n])
    <3>1. Succeeds(c, b.ins, b.upd[n])
      BY <2>1, <2>2 DEF Successors
    <3>2. b.upd[n].by \in 1 .. Len(d.ins) /\ d.ins[b.upd[n].by] = b.ins[b.upd[n].by]
      BY <3>1, <1>7 DEF Succeeds
    <3> QED
      BY <3>1, <3>2 DEF Succeeds
  <2> QED
    BY <2>1, <2>2, <1>3 DEF Successors
<1>9. d.spent \subseteq Idents \X Nat /\ IsFiniteSet(d.spent)
  <2>1. b.spent \subseteq Idents \X Nat /\ IsFiniteSet(b.spent)
    BY DEF Draft
  <2>2. <<f.content, occ>> \in Idents \X Nat
    BY <1>1, <1>2
  <2>3. IsFiniteSet(b.spent \cup {<<f.content, occ>>})
    BY <2>1, FS_AddElement
  <2> QED
    BY <1>3, <2>1, <2>2, <2>3
<1>10. Draft(c, d)
  <2>1. GoodPlan(c, d)
    BY <1>3, <1>7, <1>8 DEF Draft, GoodPlan
  <2> QED
    BY <1>3, <1>9, <2>1 DEF Draft
<1> QED
  BY <1>3, <1>5, <1>7, <1>10 DEF d

LEMMA SupersedeKeeps ==
  ASSUME NEW c, NEW b, Context(c), Draft(c, b), NEW i \in DOMAIN c.rows, NEW f \in Pays,
         NEW why \in Reasons, c.trusted \/ f.content = c.rows[i].ident
  PROVE  /\ Draft(c, EmitSupersede(c, b, i, f, why))
         /\ EmitSupersede(c, b, i, f, why).edge = b.edge
<1> DEFINE inherited == IF why = "none" THEN c.rows[i].why ELSE why
           a == EmitInsert(c, b, f, inherited)
           u == [op |-> "supersede", id |-> i, by |-> Len(a.ins), why |-> inherited]
           d == EmitSupersede(c, b, i, f, why)
<1>1. inherited \in Reasons /\ (c.rows[i].why # "none" => inherited # "none")
  BY DEF Context
<1> HIDE DEF inherited
<1>2. /\ Draft(c, a) /\ a.edge = b.edge
      /\ Len(b.ins) \in Nat /\ Len(a.ins) = Len(b.ins) + 1
      /\ \A n \in 1 .. Len(b.ins) : a.ins[n] = b.ins[n]
      /\ a.ins[Len(a.ins)].why = inherited /\ a.ins[Len(a.ins)].ident = f.content
      /\ a.upd = b.upd
  BY <1>1, InsertAdds
<1>3. d = PointTo(a, i, inherited)
  BY DEF EmitSupersede, inherited
<1> HIDE DEF d, a
<1>4. /\ DOMAIN d = DOMAIN a /\ d.ins = a.ins /\ d.upd = Append(a.upd, u)
      /\ d.tomb = a.tomb /\ d.flags = a.flags /\ d.spent = a.spent
      /\ d.reps = a.reps /\ d.edge = a.edge
  BY <1>2, <1>3 DEF Draft, NoPlan, PointTo
<1>5. u \in Successions(c) /\ u.op = "supersede" /\ u.by = Len(a.ins)
  BY <1>1, <1>2 DEF Successions
<1>6. Succeeds(c, a.ins, u)
  BY <1>1, <1>2 DEF Succeeds
<1> HIDE DEF u
<1>7. a.upd \in Seq(Rewrites(c) \cup Successions(c))
  BY <1>2 DEF Draft, GoodPlan
<1>8. /\ d.upd \in Seq(Rewrites(c) \cup Successions(c)) /\ Len(a.upd) \in Nat
      /\ Len(d.upd) = Len(a.upd) + 1
      /\ \A n \in 1 .. Len(a.upd) : d.upd[n] = a.upd[n]
      /\ d.upd[Len(a.upd) + 1] = u
  BY <1>4, <1>5, <1>7
<1>9. Successors(c, b.ins, b.upd) /\ Successors(c, a.ins, a.upd)
  BY <1>2 DEF Draft, GoodPlan
<1>10. Successors(c, d.ins, d.upd)
  <2>1. ASSUME NEW n \in 1 .. Len(d.upd), d.upd[n].op = "supersede"
        PROVE  Succeeds(c, d.ins, d.upd[n])
    BY <2>1, <1>4, <1>6, <1>8, <1>9 DEF Successors
  <2>2. ASSUME NEW n \in 1 .. Len(a.upd), a.upd[n].op = "supersede"
        PROVE  a.upd[n].by # u.by
    <3>1. Succeeds(c, b.ins, b.upd[n])
      BY <2>2, <1>2, <1>9 DEF Successors
    <3> QED
      BY <3>1, <1>2, <1>5 DEF Succeeds
  <2>3. ASSUME NEW m \in 1 .. Len(d.upd), NEW n \in 1 .. Len(d.upd),
               d.upd[m].op = "supersede", d.upd[n].op = "supersede",
               d.upd[m].by = d.upd[n].by
        PROVE  m = n
    <3>1. CASE m \in 1 .. Len(a.upd) /\ n \in 1 .. Len(a.upd)
      BY <3>1, <2>3, <1>8, <1>9 DEF Successors
    <3>2. CASE m \in 1 .. Len(a.upd) /\ n = Len(a.upd) + 1
      BY <3>2, <2>2, <2>3, <1>8
    <3>3. CASE n \in 1 .. Len(a.upd) /\ m = Len(a.upd) + 1
      BY <3>3, <2>2, <2>3, <1>8
    <3> QED
      BY <3>1, <3>2, <3>3, <1>8
  <2> QED
    BY <2>1, <2>3 DEF Successors
<1>11. Draft(c, d)
  <2>1. GoodPlan(c, d)
    BY <1>2, <1>4, <1>8, <1>10 DEF Draft, GoodPlan
  <2> QED
    BY <1>2, <1>4, <2>1 DEF Draft
<1> QED
  BY <1>2, <1>4, <1>11 DEF d

LEMMA UpdateKeeps ==
  ASSUME NEW c, NEW b, Context(c), Draft(c, b), NEW i \in DOMAIN c.rows, NEW f \in Pays,
         NEW why \in Reasons, c.trusted \/ f.content = c.rows[i].ident
  PROVE  /\ Draft(c, EmitUpdate(c, b, i, f, why))
         /\ EmitUpdate(c, b, i, f, why).edge = b.edge
<1> DEFINE s == c.rows[i]
           rekeyed == f.content # s.ident
           occ == IF rekeyed THEN NextOccurrence(c, b, f.content) ELSE s.occ
           u == [op |-> "update", id |-> i, row |-> f, ident |-> f.content, occ |-> occ,
                 why |-> why]
           d == [b EXCEPT !.upd = Append(@, u),
                          !.spent = IF rekeyed THEN @ \cup {<<f.content, occ>>} ELSE @]
<1>1. EmitUpdate(c, b, i, f, why) = d \/ EmitUpdate(c, b, i, f, why) = b
  BY DEF EmitUpdate, IdentityKey
<1>2. f.content \in Idents
  BY DEF Pays
<1>3. s.ident \in Idents /\ s.occ \in Nat
  BY DEF Context
<1>4. occ \in Nat /\ (rekeyed => c.alloc[f.content] <= occ)
  BY <1>2, <1>3, NextOccurrenceFits
<1>5. u \in Rewrites(c) /\ u.op = "update"
  <2>1. \/ f.content = s.ident /\ occ = s.occ
        \/ c.trusted /\ c.alloc[f.content] <= occ
    BY <1>4
  <2> HIDE DEF occ, rekeyed
  <2> QED
    BY <2>1, <1>2, <1>4 DEF Rewrites
<1> HIDE DEF u
<1>6. /\ DOMAIN d = DOMAIN b /\ d.ins = b.ins /\ d.upd = Append(b.upd, u)
      /\ d.tomb = b.tomb /\ d.flags = b.flags
      /\ d.spent \in {b.spent, b.spent \cup {<<f.content, occ>>}}
      /\ d.reps = b.reps /\ d.edge = b.edge
  <2> HIDE DEF occ, rekeyed
  <2> QED
    BY DEF Draft, NoPlan
<1> HIDE DEF d, occ, rekeyed
<1>7. b.upd \in Seq(Rewrites(c) \cup Successions(c))
  BY DEF Draft, GoodPlan
<1>8. /\ d.upd \in Seq(Rewrites(c) \cup Successions(c)) /\ Len(b.upd) \in Nat
      /\ Len(d.upd) = Len(b.upd) + 1
      /\ \A n \in 1 .. Len(b.upd) : d.upd[n] = b.upd[n]
      /\ d.upd[Len(b.upd) + 1] = u
  BY <1>5, <1>6, <1>7
<1>9. Successors(c, d.ins, d.upd)
  <2>1. Successors(c, b.ins, b.upd)
    BY DEF Draft, GoodPlan
  <2>2. \A n \in 1 .. Len(d.upd) : d.upd[n].op = "supersede" => n \in 1 .. Len(b.upd)
    BY <1>5, <1>8
  <2> QED
    BY <2>1, <2>2, <1>6, <1>8 DEF Successors
<1>10. d.spent \subseteq Idents \X Nat /\ IsFiniteSet(d.spent)
  <2>1. b.spent \subseteq Idents \X Nat /\ IsFiniteSet(b.spent)
    BY DEF Draft
  <2>2. <<f.content, occ>> \in Idents \X Nat
    BY <1>2, <1>4
  <2>3. IsFiniteSet(b.spent \cup {<<f.content, occ>>})
    BY <2>1, FS_AddElement
  <2> QED
    BY <1>6, <2>1, <2>2, <2>3
<1>11. Draft(c, d)
  <2>1. GoodPlan(c, d)
    BY <1>6, <1>8, <1>9 DEF Draft, GoodPlan
  <2> QED
    BY <1>6, <1>10, <2>1 DEF Draft
<1> QED
  BY <1>1, <1>6, <1>11

\* A match keeps the plan, whichever of the two it is.
LEMMA MatchKeeps ==
  ASSUME NEW c, NEW b, Context(c), Draft(c, b), NEW i \in DOMAIN c.rows, NEW f \in Pays,
         NEW why \in Reasons, c.trusted \/ f.content = c.rows[i].ident
  PROVE  Draft(c, EmitMatch(c, b, i, f, why)) /\ EmitMatch(c, b, i, f, why).edge = b.edge
BY SupersedeKeeps, UpdateKeeps DEF EmitMatch

\* What a pass notes of the rows it has used leaves the plan alone.
LEMMA UsedKeeps ==
  ASSUME NEW c, NEW b, Draft(c, b), NEW S, NEW T, NEW E, E \subseteq b.edge
  PROVE  /\ Draft(c, [b EXCEPT !.usedS = S, !.usedF = T])
         /\ [b EXCEPT !.usedS = S, !.usedF = T].edge = b.edge
         /\ Draft(c, [b EXCEPT !.edge = E, !.usedF = T])
         /\ [b EXCEPT !.edge = E, !.usedF = T].edge = E
<1>1. Alike(b, [b EXCEPT !.usedS = S, !.usedF = T])
  BY DEF Alike, Draft, NoPlan
<1>2. Alike(b, [b EXCEPT !.edge = E, !.usedF = T])
  BY DEF Alike, Draft, NoPlan
<1>3. "edge" \in DOMAIN b
  BY DEF Draft, NoPlan
<1> QED
  BY <1>1, <1>2, <1>3, AlikeKeeps

-----------------------------------------------------------------------------
(* The pre-pass.                                                           *)

\* Rows paired so far, and the stored copies left.
Pairing(group, cands, a) ==
  /\ DOMAIN a = {"pairs", "paired", "s"}
  /\ a.pairs \in Seq(group \X cands) /\ a.s \in Seq(cands)

OpPair(c, round, sets, a, k) == PairOne(c, round, a, k)
GoodPair(c, round, sets, i, a) == Pairing(sets.group, sets.cands, a)
PairFold == INSTANCE Folding WITH Op <- OpPair, Good <- GoodPair

OpRound(c, sets, fetched, a, round) ==
  FoldLeft(LAMBDA acc, k : PairOne(c, round, acc, k), a, fetched)
GoodRound(c, sets, fetched, i, a) == Pairing(sets.group, sets.cands, a)
RoundFold == INSTANCE Folding WITH Op <- OpRound, Good <- GoodRound

LEMMA PairOneKeeps ==
  ASSUME NEW c, NEW round, NEW group, NEW cands, NEW a, Pairing(group, cands, a),
         NEW k \in group
  PROVE  Pairing(group, cands, PairOne(c, round, a, k))
<1> DEFINE I == {n \in 1 .. Len(a.s) : Admissible(round, Rank(c.page[k]), Rank(c.rows[a.s[n]]))}
           n == IF I # {} THEN Min(I) ELSE 0
           d == [pairs |-> Append(a.pairs, <<k, a.s[n]>>), s |-> RemoveAt(a.s, n),
                 paired |-> a.paired \cup {k}]
<1>1. PairOne(c, round, a, k) = IF n = 0 \/ k \in a.paired THEN a ELSE d
  BY DEF PairOne, SelectInSeq
<1>2. a.s \in Seq(cands) /\ a.pairs \in Seq(group \X cands) /\ Len(a.s) \in Nat
  BY DEF Pairing
<1>3. n # 0 => n \in 1 .. Len(a.s)
  <2>1. IsFiniteSet(1 .. Len(a.s))
    BY <1>2, FS_Interval
  <2>2. I \subseteq 1 .. Len(a.s)
    OBVIOUS
  <2>3. IsFiniteSet(I) /\ I \in SUBSET Int
    <3> HIDE DEF I
    <3>1. IsFiniteSet(I)
      BY <2>1, <2>2, FS_Subset
    <3>2. I \in SUBSET Int
      BY <2>2, <1>2
    <3> QED
      BY <3>1, <3>2
  <2> HIDE DEF I
  <2> QED
    BY <2>2, <2>3, Smallest
<1> HIDE DEF n
<1>4. ASSUME n # 0 PROVE Pairing(group, cands, d)
  <2>1. n \in 1 .. Len(a.s) /\ a.s[n] \in cands
    BY <1>2, <1>3, <1>4
  <2>2. Append(a.pairs, <<k, a.s[n]>>) \in Seq(group \X cands)
    BY <1>2, <2>1
  <2>3. RemoveAt(a.s, n) \in Seq(cands)
    <3>1. SubSeq(a.s, 1, n - 1) \in Seq(cands)
      BY <1>2, <2>1, SubSeqProperties
    <3>2. SubSeq(a.s, n + 1, Len(a.s)) \in Seq(cands)
      BY <1>2, <2>1, SubSeqProperties
    <3> QED
      BY <3>1, <3>2, ConcatProperties DEF RemoveAt
  <2> QED
    BY <2>2, <2>3 DEF Pairing
<1> QED
  BY <1>1, <1>4

LEMMA IntKeys ==
  ASSUME NEW x \in Int, NEW y \in Int
  PROVE  <<x, y>> \in [1 .. 2 -> Int]
OBVIOUS

LEMMA RankInt == \A r : Rank(r) \in Int
BY DEF Rank

LEMMA PageMembers ==
  ASSUME NEW c, Context(c)
  PROVE  /\ IsFiniteSet(DOMAIN c.page) /\ DOMAIN c.page \in SUBSET Nat
         /\ \A k \in DOMAIN c.page :
              /\ c.page[k] \in Pays /\ c.page[k].content \in Idents /\ c.page[k].content \in Int
              /\ c.page[k].date \in Int /\ c.page[k].ref \in Int
<1>1. c.page \in Seq(Pays) /\ Len(c.page) \in Nat /\ DOMAIN c.page = 1 .. Len(c.page)
  BY DEF Context
<1>2. IsFiniteSet(1 .. Len(c.page))
  BY <1>1, FS_Interval
<1>3. \A k \in DOMAIN c.page : c.page[k] \in Pays
  BY <1>1
<1>4. Idents \subseteq Int
  BY DEF Idents
<1>5. IsFiniteSet(DOMAIN c.page)
  BY <1>1, <1>2
<1>6. DOMAIN c.page \in SUBSET Nat
  BY <1>1
<1>7. \A f \in Pays : /\ f.content \in Idents /\ f.content \in Int
                     /\ f.date \in Int /\ f.ref \in Int
  BY <1>4 DEF Pays
<1> QED
  BY <1>3, <1>5, <1>6, <1>7

LEMMA Pairs ==
  ASSUME NEW c, Context(c), NEW group \in SUBSET DOMAIN c.page,
         NEW cands \in SUBSET c.below
  PROVE  Pairing(group, cands, PairBooking(c, group, cands))
<1> DEFINE fkey == [k \in group |-> <<Rank(c.page[k]), k>>]
           skey == [i \in cands |-> <<c.rows[i].occ, i>>]
           fetched == Sorted(group, fkey)
           base == [pairs |-> <<>>, paired |-> {}, s |-> Sorted(cands, skey)]
           sets == [group |-> group, cands |-> cands]
<1>1. /\ IsFiniteSet(group) /\ IsFiniteSet(cands) /\ group \in SUBSET Int
      /\ cands \subseteq DOMAIN c.rows
  <2>1. IsFiniteSet(DOMAIN c.page) /\ DOMAIN c.page \in SUBSET Nat
    BY PageMembers
  <2>2. IsFiniteSet(c.below) /\ c.below \subseteq DOMAIN c.rows
    BY DEF Context
  <2> QED
    BY <2>1, <2>2, FS_Subset
<1>2. Keyed(group, fkey, 2) /\ \A x, y \in group : fkey[x] = fkey[y] => x = y
  <2>1. \A k \in group : fkey[k] = <<Rank(c.page[k]), k>> /\ fkey[k] \in [1 .. 2 -> Int]
    BY <1>1, RankInt, IntKeys
  <2> HIDE DEF fkey
  <2> QED
    BY <2>1 DEF Keyed
<1>3. Keyed(cands, skey, 2) /\ \A x, y \in cands : skey[x] = skey[y] => x = y
  <2>1. \A i \in cands : c.rows[i].occ \in Int /\ i \in Int
    BY <1>1 DEF Context
  <2>2. \A i \in cands : skey[i] = <<c.rows[i].occ, i>> /\ skey[i] \in [1 .. 2 -> Int]
    BY <2>1, IntKeys
  <2> HIDE DEF skey
  <2> QED
    BY <2>2 DEF Keyed
<1> HIDE DEF fkey, skey
<1>4. /\ Cardinality(group) \in Nat /\ DOMAIN fetched = 1 .. Cardinality(group)
      /\ \A n \in 1 .. Cardinality(group) : fetched[n] \in group
  BY <1>1, <1>2, SortedIn
<1>5. base.s \in Seq(cands)
  <2>1. /\ Cardinality(cands) \in Nat /\ DOMAIN Sorted(cands, skey) = 1 .. Cardinality(cands)
        /\ \A n \in 1 .. Cardinality(cands) : Sorted(cands, skey)[n] \in cands
    BY <1>1, <1>3, SortedIn
  <2>2. Sorted(cands, skey) \in [1 .. Cardinality(cands) -> cands]
    BY <2>1 DEF Sorted
  <2> QED
    BY <2>1, <2>2
<1> HIDE DEF fetched
<1>6. GoodRound(c, sets, fetched, 0, base)
  BY <1>5 DEF GoodRound, Pairing
<1> HIDE DEF base
<1>7. ASSUME NEW round, NEW a, Pairing(group, cands, a)
      PROVE  Pairing(group, cands, OpRound(c, sets, fetched, a, round))
  <2>1. GoodPair(c, round, sets, 0, a)
    BY <1>7 DEF GoodPair
  <2>2. \A i \in 1 .. Cardinality(group) : \A x : GoodPair(c, round, sets, i - 1, x)
          => GoodPair(c, round, sets, i, OpPair(c, round, sets, x, fetched[i]))
    BY <1>4, PairOneKeeps DEF GoodPair, OpPair
  <2>3. GoodPair(c, round, sets, Cardinality(group),
                 PairFold!Folded(c, round, sets, a, fetched))
    BY <1>4, <2>1, <2>2, PairFold!FoldKeeps
  <2>4. PairFold!Folded(c, round, sets, a, fetched) = OpRound(c, sets, fetched, a, round)
    BY DEF PairFold!Folded, OpRound, OpPair, FoldLeft,
           MapThenFoldSet, PairFold!Top, Max
  <2> QED
    BY <2>3, <2>4 DEF GoodPair
<1>8. \A i \in 1 .. 3 : \A a : GoodRound(c, sets, fetched, i - 1, a)
        => GoodRound(c, sets, fetched, i, OpRound(c, sets, fetched, a, <<1, 2, 3>>[i]))
  BY <1>7 DEF GoodRound
<1>9. GoodRound(c, sets, fetched, 3, RoundFold!Folded(c, sets, fetched, base, <<1, 2, 3>>))
  <2>1. 3 \in Nat /\ DOMAIN <<1, 2, 3>> = 1 .. 3
    OBVIOUS
  <2> QED
    BY <1>6, <1>8, <2>1, RoundFold!FoldKeeps
<1>10. RoundFold!Folded(c, sets, fetched, base, <<1, 2, 3>>) = PairBooking(c, group, cands)
  BY DEF RoundFold!Folded, PairBooking, OpRound, fetched, base, fkey, skey,
         FoldLeft, MapThenFoldSet,
         RoundFold!Top, Max
<1> QED
  BY <1>9, <1>10 DEF GoodRound

OpTake(c, e, f, a, pr) ==
  LET used == [a EXCEPT !.edge = @ \ {pr[1]}, !.usedF = @ \cup {pr[1]}]
  IN IF Rank(c.page[pr[1]]) <= Rank(c.rows[pr[2]])
     THEN EmitMatch(c, used, pr[2], c.page[pr[1]], "none")
     ELSE used
OpCopy(c, e, f, a, i) ==
  IF c.rows[i].why = "none" THEN Flag(a, i, "duplicate_of_stored_booking") ELSE a
GoodDraft(c, e, f, i, a) == Draft(c, a)
TakeFold == INSTANCE Folding WITH Op <- OpTake, Good <- GoodDraft
CopyFold == INSTANCE Folding WITH Op <- OpCopy, Good <- GoodDraft

LEMMA PairedOffKeeps ==
  ASSUME NEW c, NEW b, Context(c), Draft(c, b), NEW paired, NEW group \in SUBSET DOMAIN c.page,
         NEW cands \in SUBSET c.below, Pairing(group, cands, paired),
         \A k \in group, i \in cands : c.page[k].content = c.rows[i].ident
  PROVE  Draft(c, PairedOff(c, b, paired))
<1>1. /\ paired.pairs \in Seq(group \X cands) /\ paired.s \in Seq(cands)
      /\ Len(paired.pairs) \in Nat /\ DOMAIN paired.pairs = 1 .. Len(paired.pairs)
      /\ Len(paired.s) \in Nat /\ DOMAIN paired.s = 1 .. Len(paired.s)
  BY DEF Pairing
<1>2. ASSUME NEW a, Draft(c, a), NEW k \in group, NEW i \in cands
      PROVE  Draft(c, OpTake(c, 0, 0, a, <<k, i>>))
  <2> DEFINE used == [a EXCEPT !.edge = a.edge \ {k}, !.usedF = a.usedF \cup {k}]
  <2>1. Draft(c, used)
    BY <1>2, UsedKeeps
  <2>2. c.page[k] \in Pays /\ i \in DOMAIN c.rows /\ c.page[k].content = c.rows[i].ident
    BY PageMembers DEF Context
  <2>3. Draft(c, EmitMatch(c, used, i, c.page[k], "none"))
    <3> HIDE DEF used
    <3>1. "none" \in Reasons
      BY DEF Reasons
    <3> QED
      BY <2>1, <2>2, <3>1, MatchKeeps
  <2>4. OpTake(c, 0, 0, a, <<k, i>>) \in {used, EmitMatch(c, used, i, c.page[k], "none")}
    BY DEF OpTake
  <2> QED
    BY <2>1, <2>3, <2>4
<1>3. \A n \in 1 .. Len(paired.pairs) : \A a :
        GoodDraft(c, 0, 0, n - 1, a) => GoodDraft(c, 0, 0, n, OpTake(c, 0, 0, a, paired.pairs[n]))
  <2> SUFFICES ASSUME NEW n \in 1 .. Len(paired.pairs), NEW a, Draft(c, a)
      PROVE  Draft(c, OpTake(c, 0, 0, a, paired.pairs[n]))
    BY DEF GoodDraft
  <2>1. paired.pairs[n] \in group \X cands
    BY <1>1
  <2>2. PICK k \in group, i \in cands : paired.pairs[n] = <<k, i>>
    BY <2>1
  <2> QED
    BY <1>2, <2>2
<1> DEFINE half == TakeFold!Folded(c, 0, 0, b, paired.pairs)
<1>4. Draft(c, half)
  BY <1>1, <1>3, TakeFold!FoldKeeps DEF GoodDraft
<1> HIDE DEF half
<1>5. \A n \in 1 .. Len(paired.s) : \A a :
        GoodDraft(c, 0, 0, n - 1, a) => GoodDraft(c, 0, 0, n, OpCopy(c, 0, 0, a, paired.s[n]))
  <2>1. "duplicate_of_stored_booking" \in Raised
    BY DEF Raised, Reasons
  <2> QED
    BY <2>1, FlagKeeps DEF GoodDraft, OpCopy
<1>6. Draft(c, CopyFold!Folded(c, 0, 0, half, paired.s))
  BY <1>1, <1>4, <1>5, CopyFold!FoldKeeps DEF GoodDraft
<1>7. CopyFold!Folded(c, 0, 0, half, paired.s) = PairedOff(c, b, paired)
  BY DEF half, PairedOff, OpTake, OpCopy, TakeFold!Folded, CopyFold!Folded,
         FoldLeft, MapThenFoldSet, TakeFold!Top, CopyFold!Top, Max
<1> QED
  BY <1>6, <1>7

LEMMA PrePassKeyKeeps ==
  ASSUME NEW c, NEW b, Context(c), Draft(c, b), NEW key
  PROVE  Draft(c, PrePassKey(c, b, key))
<1> DEFINE group == {k \in b.edge : BookingKey(c.page[k], c.page[k].content) = key}
           cands == {i \in c.below : /\ c.rows[i].state = "active"
                                     /\ BookingKey(c.rows[i], c.rows[i].ident) = key}
<1>1. group \in SUBSET DOMAIN c.page /\ cands \in SUBSET c.below
  BY DEF Draft
<1>2. \A k \in group, i \in cands : c.page[k].content = c.rows[i].ident
  BY DEF BookingKey
<1>3. PrePassKey(c, b, key) = PairedOff(c, b, PairBooking(c, group, cands))
  BY DEF PrePassKey
<1> HIDE DEF group, cands
<1> QED
  BY <1>1, <1>2, <1>3, Pairs, PairedOffKeeps

OpKey(c, e, f, a, k) == PrePassKey(c, a, BookingKey(c.page[k], c.page[k].content))
KeyFold == INSTANCE Folding WITH Op <- OpKey, Good <- GoodDraft

LEMMA PrePassKeeps ==
  ASSUME NEW c, NEW b, Context(c), Draft(c, b)
  PROVE  Draft(c, PrePass(c, b))
<1> DEFINE edge == {k \in DOMAIN c.page : k \notin b.usedF /\ c.page[k].date < c.from}
           Key(k) == BookingKey(c.page[k], c.page[k].content)
           first == {k \in edge : \A l \in edge : Key(l) = Key(k) => k <= l}
           keys == [k \in first |-> Key(k)]
           base == [b EXCEPT !.edge = edge]
<1>1. IsFiniteSet(first) /\ first \subseteq edge /\ edge \subseteq DOMAIN c.page
      /\ first \subseteq Nat
  <2>1. IsFiniteSet(DOMAIN c.page) /\ DOMAIN c.page \in SUBSET Nat
    BY PageMembers
  <2>2. first \subseteq edge /\ edge \subseteq DOMAIN c.page
    OBVIOUS
  <2> HIDE DEF first, edge
  <2> QED
    BY <2>1, <2>2, FS_Subset
<1>2. Keyed(first, keys, 3) /\ \A x, y \in first : keys[x] = keys[y] => x = y
  <2>1. \A k \in first : keys[k] \in [1 .. 3 -> Int]
    BY <1>1, PageMembers DEF BookingKey
  <2>2. ASSUME NEW x \in first, NEW y \in first, keys[x] = keys[y] PROVE x = y
    <3>1. x <= y /\ y <= x /\ x \in Nat /\ y \in Nat
      BY <2>2, <1>1
    <3> QED
      BY <3>1
  <2> HIDE DEF keys
  <2> QED
    BY <2>1, <2>2 DEF Keyed
<1>3. Draft(c, base)
  <2>1. /\ DOMAIN base = DOMAIN b /\ base.ins = b.ins /\ base.upd = b.upd /\ base.tomb = b.tomb
        /\ base.flags = b.flags /\ base.spent = b.spent /\ base.reps = b.reps
        /\ base.edge = edge
    BY DEF Draft, NoPlan
  <2> HIDE DEF base
  <2> QED
    BY <2>1, <1>1 DEF Draft, GoodPlan
<1>4. /\ Cardinality(first) \in Nat
      /\ DOMAIN Sorted(first, keys) = 1 .. Cardinality(first)
  BY <1>1, <1>2, SortedIn
<1>5. \A n \in 1 .. Cardinality(first) : \A a :
        GoodDraft(c, 0, 0, n - 1, a)
          => GoodDraft(c, 0, 0, n, OpKey(c, 0, 0, a, Sorted(first, keys)[n]))
  BY PrePassKeyKeeps DEF GoodDraft, OpKey
<1>6. Draft(c, KeyFold!Folded(c, 0, 0, base, Sorted(first, keys)))
  BY <1>3, <1>4, <1>5, KeyFold!FoldKeeps DEF GoodDraft
<1>7. KeyFold!Folded(c, 0, 0, base, Sorted(first, keys)) = PrePass(c, b)
  BY DEF PrePass, OpKey, KeyFold!Folded, FoldLeft,
         MapThenFoldSet, KeyFold!Top, Max
<1> QED
  BY <1>6, <1>7

-----------------------------------------------------------------------------
(* The kept restatements.                                                  *)

LEMMA SortedSeq ==
  ASSUME NEW S, IsFiniteSet(S), NEW m \in Nat, NEW key, Keyed(S, key, m),
         \A x, y \in S : key[x] = key[y] => x = y
  PROVE  /\ Sorted(S, key) \in Seq(S) /\ Len(Sorted(S, key)) = Cardinality(S)
         /\ S # {} => Head(Sorted(S, key)) \in S
<1>1. /\ Cardinality(S) \in Nat /\ DOMAIN Sorted(S, key) = 1 .. Cardinality(S)
      /\ \A n \in 1 .. Cardinality(S) : Sorted(S, key)[n] \in S
  BY SortedIn
<1>2. Sorted(S, key) \in [1 .. Cardinality(S) -> S]
  BY <1>1 DEF Sorted
<1>3. S # {} => Cardinality(S) # 0
  BY FS_EmptySet
<1> DEFINE s == Sorted(S, key)
<1> HIDE DEF s
<1>4. s \in Seq(S) /\ Len(s) = Cardinality(S)
  BY <1>1, <1>2 DEF s
<1>5. S # {} => s # <<>> /\ Head(s) \in S
  BY <1>1, <1>3, <1>4
<1> QED
  BY <1>4, <1>5 DEF s

\* The row ids, references or keys of a finite set, in ascending order.
LEMMA AscendingSeq ==
  ASSUME NEW S \in SUBSET Int, IsFiniteSet(S)
  PROVE  Ascending(S) \in Seq(S) /\ Len(Ascending(S)) \in Nat
         /\ DOMAIN Ascending(S) = 1 .. Len(Ascending(S)) /\ (S # {} => Ascending(S) # <<>>)
<1> DEFINE key == [i \in S |-> <<i>>]
<1>1. Keyed(S, key, 1) /\ \A x, y \in S : key[x] = key[y] => x = y
  BY DEF Keyed
<1>2. Sorted(S, key) \in Seq(S) /\ Len(Sorted(S, key)) = Cardinality(S)
  BY <1>1, SortedSeq
<1>3. S # {} => Cardinality(S) # 0
  BY FS_EmptySet
<1>4. Ascending(S) = Sorted(S, key)
  BY DEF Ascending
<1> HIDE DEF key
<1>5. /\ Ascending(S) \in Seq(S) /\ Len(Ascending(S)) = Cardinality(S)
      /\ (S # {} => Len(Ascending(S)) # 0)
  BY <1>2, <1>3, <1>4
<1> DEFINE s == Ascending(S)
<1> HIDE DEF s
<1>6. s \in Seq(S) /\ (S # {} => Len(s) # 0)
  BY <1>5 DEF s
<1>7. Len(s) \in Nat /\ DOMAIN s = 1 .. Len(s) /\ (S # {} => s # <<>>)
  BY <1>6
<1> QED
  BY <1>6, <1>7 DEF s

OpBand(c, e, f, bands, k) ==
  IF /\ bands # <<>>
     /\ Days(c.page[bands[Len(bands)][1]].date, c.page[k].date) <= DriftBound
  THEN [bands EXCEPT ![Len(bands)] = Append(@, k)]
  ELSE Append(bands, <<k>>)
GoodBands(c, group, f, i, bands) == bands \in Seq(Seq(group) \ {<<>>})
BandFold == INSTANCE Folding WITH Op <- OpBand, Good <- GoodBands

\* A band is a non-empty sequence of members of the group.
LEMMA BandsAre ==
  ASSUME NEW c, NEW group \in SUBSET Int, IsFiniteSet(group),
         \A k \in group : c.page[k].date \in Int
  PROVE  Bands(c, group) \in Seq(Seq(group) \ {<<>>})
<1> DEFINE key == [k \in group |-> <<c.page[k].date, k>>]
           some == Seq(group) \ {<<>>}
<1>1. Keyed(group, key, 2) /\ \A x, y \in group : key[x] = key[y] => x = y
  <2>1. \A k \in group : key[k] = <<c.page[k].date, k>> /\ key[k] \in [1 .. 2 -> Int]
    BY IntKeys
  <2> HIDE DEF key
  <2> QED
    BY <2>1 DEF Keyed
<1>2. /\ Cardinality(group) \in Nat
      /\ DOMAIN Sorted(group, key) = 1 .. Cardinality(group)
      /\ \A n \in 1 .. Cardinality(group) : Sorted(group, key)[n] \in group
  BY <1>1, SortedIn
<1>3. ASSUME NEW bands \in Seq(some), NEW k \in group
      PROVE  OpBand(c, group, 0, bands, k) \in Seq(some)
  <2>1. <<k>> \in some
    OBVIOUS
  <2>2. Append(bands, <<k>>) \in Seq(some)
    BY <2>1
  <2>3. ASSUME bands # <<>>
        PROVE  [bands EXCEPT ![Len(bands)] = Append(bands[Len(bands)], k)] \in Seq(some)
    <3>1. Len(bands) \in 1 .. Len(bands) /\ Len(bands) \in Nat
      BY <2>3
    <3>2. bands[Len(bands)] \in some
      BY <3>1
    <3>3. Append(bands[Len(bands)], k) \in some
      BY <3>2
    <3> DEFINE e == Append(bands[Len(bands)], k)
    <3> HIDE DEF e
    <3>4. [bands EXCEPT ![Len(bands)] = e] \in Seq(some)
      <4>1. e \in some
        BY <3>3 DEF e
      <4> HIDE DEF some
      <4> QED
        BY <4>1, <3>1, ExceptSeq
    <3> QED
      BY <3>4 DEF e
  <2> QED
    BY <2>2, <2>3 DEF OpBand
<1>4. GoodBands(c, group, 0, 0, <<>>)
  BY DEF GoodBands
<1>5. \A n \in 1 .. Cardinality(group) : \A a :
        GoodBands(c, group, 0, n - 1, a)
          => GoodBands(c, group, 0, n, OpBand(c, group, 0, a, Sorted(group, key)[n]))
  BY <1>2, <1>3 DEF GoodBands
<1>6. BandFold!Folded(c, group, 0, <<>>, Sorted(group, key)) \in Seq(some)
  BY <1>2, <1>4, <1>5, BandFold!FoldKeeps DEF GoodBands
<1>7. BandFold!Folded(c, group, 0, <<>>, Sorted(group, key)) = Bands(c, group)
  BY DEF Bands, OpBand, BandFold!Folded, FoldLeft,
         MapThenFoldSet, BandFold!Top, Max
<1> QED
  BY <1>6, <1>7

LEMMA KeptIn ==
  ASSUME NEW c, Context(c), NEW group \in SUBSET DOMAIN c.page, NEW band \in Seq(group),
         band # <<>>
  PROVE  Kept(c, band) \in group
<1> DEFINE S == ToSet(band)
           key == [k \in S |-> <<Rank(c.page[k]), c.page[k].date, k>>]
<1>1. S \subseteq group /\ S # {}
  <2>1. Len(band) \in Nat /\ DOMAIN band = 1 .. Len(band) /\ Len(band) # 0
    OBVIOUS
  <2>2. band[1] \in S
    BY <2>1 DEF ToSet
  <2>3. \A n \in DOMAIN band : band[n] \in group
    OBVIOUS
  <2> QED
    BY <2>2, <2>3 DEF ToSet
<1>2. IsFiniteSet(S) /\ S \in SUBSET Int /\ \A k \in S : c.page[k].date \in Int
  <2>1. IsFiniteSet(DOMAIN c.page) /\ DOMAIN c.page \in SUBSET Nat
    BY PageMembers
  <2>2. S \subseteq DOMAIN c.page
    BY <1>1
  <2> HIDE DEF S
  <2>3. IsFiniteSet(S)
    BY <2>1, <2>2, FS_Subset
  <2>4. \A k \in S : k \in Int /\ c.page[k].date \in Int
    BY <2>1, <2>2, PageMembers
  <2> QED
    BY <2>3, <2>4
<1> HIDE DEF S
<1>3. Keyed(S, key, 3) /\ \A x, y \in S : key[x] = key[y] => x = y
  <2>1. \A k \in S : /\ key[k] = <<Rank(c.page[k]), c.page[k].date, k>>
                     /\ key[k] \in [1 .. 3 -> Int]
    BY <1>2, RankInt
  <2> HIDE DEF key
  <2> QED
    BY <2>1 DEF Keyed
<1>4. Head(Sorted(S, key)) \in S
  BY <1>1, <1>2, <1>3, SortedSeq
<1>5. Kept(c, band) = Head(Sorted(S, key))
  BY DEF Kept, S
<1> QED
  BY <1>1, <1>4, <1>5

LEMMA CollapseKeeps ==
  ASSUME NEW c, NEW b, Context(c), Draft(c, b)
  PROVE  Draft(c, CollapseRestatements(c, b))
<1> DEFINE withRef == {k \in DOMAIN c.page : c.page[k].ref # NoRef}
           groups == {{k \in withRef : c.page[k].ref = c.page[l].ref
                                       /\ c.page[k].content = c.page[l].content} : l \in withRef}
           bands == UNION {ToSet(Bands(c, g)) : g \in groups}
           kept == {Kept(c, band) : band \in bands}
           d == [b EXCEPT !.reps = kept, !.usedF = withRef \ kept]
<1>1. ASSUME NEW g \in groups, NEW band \in ToSet(Bands(c, g))
      PROVE  Kept(c, band) \in DOMAIN c.page
  <2>1. g \in SUBSET DOMAIN c.page
    OBVIOUS
  <2>2. /\ IsFiniteSet(g) /\ g \in SUBSET Int
        /\ \A k \in g : c.page[k].date \in Int
    <3>1. IsFiniteSet(DOMAIN c.page) /\ DOMAIN c.page \in SUBSET Nat
      BY PageMembers
    <3> QED
      BY <2>1, <3>1, PageMembers, FS_Subset
  <2> HIDE DEF groups
  <2>3. Bands(c, g) \in Seq(Seq(g) \ {<<>>})
    BY <2>2, BandsAre
  <2>4. band \in Seq(g) /\ band # <<>>
    BY <1>1, <2>3 DEF ToSet
  <2> QED
    BY <2>1, <2>4, KeptIn
<1>2. kept \subseteq DOMAIN c.page
  BY <1>1
<1> HIDE DEF groups, bands, kept
<1>3. /\ DOMAIN d = DOMAIN b /\ d.ins = b.ins /\ d.upd = b.upd /\ d.tomb = b.tomb
      /\ d.flags = b.flags /\ d.spent = b.spent
      /\ d.reps = kept /\ d.edge = b.edge
  BY DEF Draft, NoPlan
<1> HIDE DEF d
<1>4. c.trusted => Draft(c, d)
  BY <1>2, <1>3 DEF Draft, GoodPlan
<1>5. CollapseRestatements(c, b) = IF c.trusted THEN d ELSE b
  BY DEF CollapseRestatements, d, kept, bands, groups
<1> QED
  BY <1>4, <1>5

-----------------------------------------------------------------------------
(* Rule 1.                                                                 *)

LEMMA NotedKeeps ==
  ASSUME NEW c, NEW b, Draft(c, b), NEW S, NEW T
  PROVE  /\ Draft(c, [b EXCEPT !.reused = S, !.failed = T])
         /\ Draft(c, [b EXCEPT !.reuseF = S])
         /\ Draft(c, [b EXCEPT !.unresolved = S])
<1>1. Alike(b, [b EXCEPT !.reused = S, !.failed = T])
  BY DEF Alike, Draft, NoPlan
<1>2. Alike(b, [b EXCEPT !.reuseF = S])
  BY DEF Alike, Draft, NoPlan
<1>3. Alike(b, [b EXCEPT !.unresolved = S])
  BY DEF Alike, Draft, NoPlan
<1> QED
  BY <1>1, <1>2, <1>3, AlikeKeeps

LEMMA RepHead ==
  ASSUME NEW c, Context(c), NEW pool \in SUBSET DOMAIN c.page, pool # {}
  PROVE  Head(Sorted(pool, [k \in pool |-> RepOrder(c, k)])) \in pool
<1> DEFINE key == [k \in pool |-> RepOrder(c, k)]
<1>1. /\ IsFiniteSet(pool)
      /\ \A k \in pool : k \in Int /\ c.page[k].content \in Int /\ c.page[k].date \in Int
  BY PageMembers, FS_Subset
<1>2. Keyed(pool, key, 3) /\ \A x, y \in pool : key[x] = key[y] => x = y
  <2>1. \A k \in pool : /\ key[k] = <<c.page[k].content, c.page[k].date, k>>
                        /\ key[k] \in [1 .. 3 -> Int]
    BY <1>1 DEF RepOrder
  <2> HIDE DEF key
  <2> QED
    BY <2>1 DEF Keyed
<1> HIDE DEF key
<1>3. Head(Sorted(pool, key)) \in pool
  BY <1>1, <1>2, SortedSeq
<1> QED
  BY <1>3 DEF key

LEMMA MatchReasonIs ==
  \A c, i, k, ambiguous : MatchReason(c, i, k, ambiguous) \in Reasons
<1>1. \A s, f : MoneyChange(s, f) \in Reasons
  BY DEF MoneyChange, Reasons
<1> SUFFICES ASSUME NEW c, NEW i, NEW k, NEW ambiguous
    PROVE  MatchReason(c, i, k, ambiguous) \in Reasons
  OBVIOUS
<1>2. CASE ambiguous
  BY <1>2 DEF MatchReason, Reasons
<1>3. CASE ~ambiguous
  <2>1. MatchReason(c, i, k, ambiguous)
          \in {"content_present_elsewhere", MoneyChange(c.rows[i], c.page[k])}
    BY <1>3 DEF MatchReason
  <2> QED
    BY <1>1, <2>1 DEF Reasons
<1> QED
  BY <1>2, <1>3

OpClaim(c, reps, reserved, acc, i) == ClaimRep(c, acc, reps, reserved, i)
GoodClaim(c, reps, reserved, i, acc) == DOMAIN acc = {"claimed", "b"} /\ Draft(c, acc.b)
ClaimFold == INSTANCE Folding WITH Op <- OpClaim, Good <- GoodClaim

LEMMA ClaimRepKeeps ==
  ASSUME NEW c, Context(c), NEW acc, Draft(c, acc.b), NEW reps \in SUBSET DOMAIN c.page,
         c.trusted, NEW reserved, NEW i \in DOMAIN c.rows
  PROVE  GoodClaim(c, reps, reserved, 0, ClaimRep(c, acc, reps, reserved, i))
<1> DEFINE near == {k \in reps : /\ k \notin acc.claimed \/ <<i, k>> \in reserved
                                 /\ Corroborates(c.rows[i], c.page[k])}
           same == {k \in near : c.page[k].content = c.rows[i].ident}
           pool == IF same # {} THEN same ELSE near
           k == Head(Sorted(pool, [l \in pool |-> RepOrder(c, l)]))
           ambiguous == Cardinality(near) > 1 /\ Cardinality(same) # 1
<1>1. ClaimRep(c, acc, reps, reserved, i) =
        IF near = {} THEN Refused(acc, i, reps \ acc.claimed)
        ELSE Claimed(c, acc, i, k, ambiguous)
  BY DEF ClaimRep
<1>2. ASSUME NEW free PROVE GoodClaim(c, reps, reserved, 0, Refused(acc, i, free))
  <2> DEFINE d == Flag(acc.b, i, "provider_ref_reuse")
             S == d.reused \cup {i}
             T == d.failed \cup {<<l, i>> : l \in free}
  <2>1. "provider_ref_reuse" \in Raised
    BY DEF Raised, Reasons
  <2>2. Draft(c, d)
    BY <2>1, FlagKeeps
  <2> HIDE DEF d
  <2>3. Draft(c, [d EXCEPT !.reused = S, !.failed = T])
    <3> HIDE DEF S, T
    <3> QED
      BY <2>2, NotedKeeps
  <2>4. Refused(acc, i, free) = [claimed |-> acc.claimed,
                                 b |-> [d EXCEPT !.reused = S, !.failed = T]]
    BY DEF Refused, d
  <2> HIDE DEF S, T
  <2> QED
    BY <2>3, <2>4 DEF GoodClaim
<1>3. ASSUME NEW l \in DOMAIN c.page, NEW shared
      PROVE  GoodClaim(c, reps, reserved, 0, Claimed(c, acc, i, l, shared))
  <2> DEFINE d == EmitMatch(c, acc.b, i, c.page[l], MatchReason(c, i, l, shared))
             S == d.usedS \cup {i}
             T == d.usedF \cup {l}
  <2>1. c.page[l] \in Pays
    BY PageMembers
  <2>2. Draft(c, d)
    BY <2>1, MatchReasonIs, MatchKeeps
  <2> HIDE DEF d
  <2>3. Draft(c, [d EXCEPT !.usedS = S, !.usedF = T])
    <3> HIDE DEF S, T
    <3>1. {} \subseteq d.edge
      OBVIOUS
    <3> QED
      BY <2>2, <3>1, UsedKeeps
  <2>4. Claimed(c, acc, i, l, shared) = [claimed |-> acc.claimed \cup {l},
                                         b |-> [d EXCEPT !.usedS = S, !.usedF = T]]
    BY DEF Claimed, d
  <2> HIDE DEF S, T
  <2> QED
    BY <2>3, <2>4 DEF GoodClaim
<1>4. near # {} => k \in DOMAIN c.page
  <2>1. near # {} => pool # {} /\ pool \in SUBSET DOMAIN c.page
    OBVIOUS
  <2>2. pool \subseteq DOMAIN c.page
    OBVIOUS
  <2> HIDE DEF pool
  <2>3. near # {} => k \in pool
    BY <2>1, RepHead
  <2> QED
    BY <2>2, <2>3
<1> HIDE DEF near, k, ambiguous
<1> QED
  BY <1>1, <1>2, <1>3, <1>4

LEMMA Rule1RefKeeps ==
  ASSUME NEW c, NEW b, Context(c), Draft(c, b), NEW ref
  PROVE  Draft(c, Rule1Ref(c, b, ref))
<1> DEFINE reps == {k \in b.reps : c.page[k].ref = ref} \ (b.usedF \cup b.edge)
           of == {i \in Live(c) : c.rows[i].ref = ref}
           cands == Ascending(of)
           reserved == Reserved(c, reps, cands)
           base == [b |-> b, claimed |-> {p[2] : p \in reserved}]
           done == Resolved(c, b, reps, cands, reserved)
<1>1. Rule1Ref(c, b, ref) = IF reps = {} \/ cands = <<>> THEN b ELSE Unclaimed(done, reps)
  BY DEF Rule1Ref
<1> SUFFICES ASSUME reps # {} PROVE Draft(c, Unclaimed(done, reps))
  BY <1>1
<1>2. c.trusted /\ reps \in SUBSET DOMAIN c.page
  BY DEF Draft
<1>3. of \subseteq DOMAIN c.rows /\ of \in SUBSET Int /\ IsFiniteSet(of)
  <2>1. of \subseteq c.win
    BY DEF Live
  <2>2. IsFiniteSet(c.win) /\ c.win \subseteq DOMAIN c.rows /\ DOMAIN c.rows \subseteq Int
    BY DEF Context
  <2> HIDE DEF of
  <2> QED
    BY <2>1, <2>2, FS_Subset
<1> HIDE DEF of, reps, reserved
<1>4. /\ cands \in Seq(of) /\ Len(cands) \in Nat /\ DOMAIN cands = 1 .. Len(cands)
  BY <1>3, AscendingSeq
<1> HIDE DEF cands
<1>5. GoodClaim(c, reps, reserved, 0, base)
  BY DEF GoodClaim
<1> HIDE DEF base
<1>6. \A n \in 1 .. Len(cands) : \A a :
        GoodClaim(c, reps, reserved, n - 1, a)
          => GoodClaim(c, reps, reserved, n, OpClaim(c, reps, reserved, a, cands[n]))
  <2> SUFFICES ASSUME NEW n \in 1 .. Len(cands), NEW a, Draft(c, a.b)
      PROVE  GoodClaim(c, reps, reserved, 0, ClaimRep(c, a, reps, reserved, cands[n]))
    BY DEF GoodClaim, OpClaim
  <2>1. cands[n] \in DOMAIN c.rows
    BY <1>3, <1>4
  <2> QED
    BY <1>2, <2>1, ClaimRepKeeps
<1>7. GoodClaim(c, reps, reserved, Len(cands),
                ClaimFold!Folded(c, reps, reserved, base, cands))
  BY <1>4, <1>5, <1>6, ClaimFold!FoldKeeps
<1>8. ClaimFold!Folded(c, reps, reserved, base, cands) = done
  BY DEF Resolved, OpClaim, base, ClaimFold!Folded, FoldLeft,
         MapThenFoldSet, ClaimFold!Top, Max
<1> HIDE DEF done
<1>9. Draft(c, done.b)
  BY <1>7, <1>8 DEF GoodClaim
<1> QED
  BY <1>9, NotedKeeps DEF Unclaimed

OpRef(c, e, f, a, ref) == Rule1Ref(c, a, ref)
RefFold == INSTANCE Folding WITH Op <- OpRef, Good <- GoodDraft

LEMMA Rule1Keeps ==
  ASSUME NEW c, NEW b, Context(c), Draft(c, b)
  PROVE  Draft(c, Rule1(c, b))
<1> DEFINE refs == {c.page[k].ref : k \in b.reps}
           s == Ascending(refs)
<1>1. refs \in SUBSET Int /\ IsFiniteSet(refs)
  <2> DEFINE g == [k \in b.reps |-> c.page[k].ref]
  <2>1. b.reps \subseteq DOMAIN c.page
    BY DEF Draft
  <2>2. IsFiniteSet(b.reps) /\ \A k \in b.reps : c.page[k].ref \in Int
    BY <2>1, PageMembers, FS_Subset
  <2>3. refs = {g[k] : k \in b.reps}
    OBVIOUS
  <2>4. IsFiniteSet({g[k] : k \in b.reps})
    <3> HIDE DEF g
    <3> QED
      BY <2>2, ImageFinite
  <2> QED
    BY <2>2, <2>3, <2>4
<1> HIDE DEF refs
<1>2. Len(s) \in Nat /\ DOMAIN s = 1 .. Len(s)
  BY <1>1, AscendingSeq
<1>3. \A n \in 1 .. Len(s) : \A a :
        GoodDraft(c, 0, 0, n - 1, a) => GoodDraft(c, 0, 0, n, OpRef(c, 0, 0, a, s[n]))
  BY Rule1RefKeeps DEF GoodDraft, OpRef
<1>4. Draft(c, RefFold!Folded(c, 0, 0, b, s))
  BY <1>2, <1>3, RefFold!FoldKeeps DEF GoodDraft
<1>5. RefFold!Folded(c, 0, 0, b, s) = Rule1(c, b)
  BY DEF Rule1, OpRef, s, refs, RefFold!Folded, FoldLeft,
         MapThenFoldSet, RefFold!Top, Max
<1> QED
  BY <1>4, <1>5

-----------------------------------------------------------------------------
(* Rule 2.                                                                 *)

\* Pairs of a page position and a row of the same identity.
Same(c, pairs) ==
  \A e \in pairs : /\ e[1] \in DOMAIN c.page /\ e[2] \in DOMAIN c.rows
                   /\ c.page[e[1]].content = c.rows[e[2]].ident

OpMatch(c, b, ambiguous, a, pr) ==
  LET Why(k) == CASE k \in b.reuseF -> "provider_ref_reuse"
                  [] k \notin b.reuseF /\ ambiguous -> "windowed_ambiguous"
                  [] OTHER -> "none"
  IN [EmitMatch(c, a, pr[2], c.page[pr[1]], Why(pr[1])) EXCEPT
        !.usedS = @ \cup {pr[2]}, !.usedF = @ \cup {pr[1]}]
GoodMatch(c, b, ambiguous, i, a) == Draft(c, a)
MatchFold == INSTANCE Folding WITH Op <- OpMatch, Good <- GoodMatch

LEMMA MatchPairsKeeps ==
  ASSUME NEW c, NEW b, Context(c), Draft(c, b), NEW edges, Same(c, edges),
         NEW pairs \in Seq(edges), NEW ambiguous
  PROVE  Draft(c, MatchPairs(c, b, pairs, ambiguous))
<1>1. Len(pairs) \in Nat /\ DOMAIN pairs = 1 .. Len(pairs)
      /\ \A n \in 1 .. Len(pairs) : pairs[n] \in edges
  OBVIOUS
<1>2. ASSUME NEW a, Draft(c, a), NEW e \in edges
      PROVE  Draft(c, OpMatch(c, b, ambiguous, a, e))
  <2> DEFINE why == CASE e[1] \in b.reuseF -> "provider_ref_reuse"
                      [] e[1] \notin b.reuseF /\ ambiguous -> "windowed_ambiguous"
                      [] OTHER -> "none"
             d == EmitMatch(c, a, e[2], c.page[e[1]], why)
             S == d.usedS \cup {e[2]}
             T == d.usedF \cup {e[1]}
  <2>1. why \in Reasons
    BY DEF Reasons
  <2> HIDE DEF why
  <2>2. /\ c.page[e[1]] \in Pays /\ e[2] \in DOMAIN c.rows
        /\ c.page[e[1]].content = c.rows[e[2]].ident
    BY PageMembers DEF Same
  <2>3. Draft(c, d)
    BY <1>2, <2>1, <2>2, MatchKeeps
  <2> HIDE DEF d
  <2>4. Draft(c, [d EXCEPT !.usedS = S, !.usedF = T])
    <3> HIDE DEF S, T
    <3>1. {} \subseteq d.edge
      OBVIOUS
    <3> QED
      BY <2>3, <3>1, UsedKeeps
  <2>5. OpMatch(c, b, ambiguous, a, e) = [d EXCEPT !.usedS = S, !.usedF = T]
    BY DEF OpMatch, d, why
  <2> QED
    BY <2>4, <2>5
<1>3. \A n \in 1 .. Len(pairs) : \A a :
        GoodMatch(c, b, ambiguous, n - 1, a)
          => GoodMatch(c, b, ambiguous, n, OpMatch(c, b, ambiguous, a, pairs[n]))
  BY <1>1, <1>2 DEF GoodMatch
<1>4. Draft(c, MatchFold!Folded(c, b, ambiguous, b, pairs))
  BY <1>1, <1>3, MatchFold!FoldKeeps DEF GoodMatch
<1>5. MatchFold!Folded(c, b, ambiguous, b, pairs) = MatchPairs(c, b, pairs, ambiguous)
  BY DEF MatchPairs, OpMatch, MatchFold!Folded, FoldLeft,
         MapThenFoldSet, MatchFold!Top, Max
<1> QED
  BY <1>4, <1>5

OpSilent(c, e, f, a, i) == Flag(a, i, "unresolved_cluster")
SilentFold == INSTANCE Folding WITH Op <- OpSilent, Good <- GoodDraft

LEMMA FlagSilentKeeps ==
  ASSUME NEW c, NEW b, Draft(c, b), NEW ss \in SUBSET Int, IsFiniteSet(ss)
  PROVE  Draft(c, FlagSilent(b, ss))
<1> DEFINE said == {u.id : u \in ToSet(b.upd)} \cup {f.id : f \in ToSet(b.flags)}
           s == Ascending(ss \ said)
<1> HIDE DEF said
<1>1. ss \ said \in SUBSET Int /\ IsFiniteSet(ss \ said)
  BY FS_Subset
<1>2. Len(s) \in Nat /\ DOMAIN s = 1 .. Len(s)
  BY <1>1, AscendingSeq
<1>3. "unresolved_cluster" \in Raised
  BY DEF Raised, Reasons
<1>4. \A n \in 1 .. Len(s) : \A a :
        GoodDraft(c, 0, 0, n - 1, a) => GoodDraft(c, 0, 0, n, OpSilent(c, 0, 0, a, s[n]))
  BY <1>3, FlagKeeps DEF GoodDraft, OpSilent
<1>5. Draft(c, SilentFold!Folded(c, 0, 0, b, s))
  BY <1>2, <1>4, SilentFold!FoldKeeps DEF GoodDraft
<1>6. SilentFold!Folded(c, 0, 0, b, s) = FlagSilent(b, ss)
  BY DEF FlagSilent, OpSilent, s, said, SilentFold!Folded, FoldLeft,
         MapThenFoldSet, SilentFold!Top, Max
<1> QED
  BY <1>5, <1>6

OpSum(d, e, f, x, y) == x + y
GoodSum(d, e, f, i, x) == x \in Int
SumFold == INSTANCE Folding WITH Op <- OpSum, Good <- GoodSum

LEMMA SumInt ==
  ASSUME NEW s \in Seq(Int)
  PROVE  FoldLeft(LAMBDA x, y : x + y, 0, s) \in Int
<1>1. Len(s) \in Nat /\ DOMAIN s = 1 .. Len(s) /\ \A n \in 1 .. Len(s) : s[n] \in Int
  OBVIOUS
<1>2. \A n \in 1 .. Len(s) : \A a :
        GoodSum(0, 0, 0, n - 1, a) => GoodSum(0, 0, 0, n, OpSum(0, 0, 0, a, s[n]))
  BY <1>1 DEF GoodSum, OpSum
<1>3. SumFold!Folded(0, 0, 0, 0, s) \in Int
  BY <1>1, <1>2, SumFold!FoldKeeps DEF GoodSum
<1>4. SumFold!Folded(0, 0, 0, 0, s) = FoldLeft(LAMBDA x, y : x + y, 0, s)
  BY DEF OpSum, SumFold!Folded, FoldLeft,
         MapThenFoldSet, SumFold!Top, Max
<1> QED
  BY <1>3, <1>4

\* The edges of a cluster: finite, between integers, dated.
Dated(c, edges) ==
  /\ IsFiniteSet(edges)
  /\ \A e \in edges : /\ e = <<e[1], e[2]>> /\ e[1] \in Int /\ e[2] \in Int
                      /\ c.page[e[1]].date \in Int /\ c.rows[e[2]].date \in Int

LEMMA Longer ==
  ASSUME NEW a, NEW b, a \in Seq(Int), b \in Seq(Int)
  PROVE  a \o b \in Seq(Int) /\ Len(a \o b) = Len(a) + Len(b)
BY ConcatProperties

LEMMA MatchingKeyIs ==
  ASSUME NEW c, NEW edges, Dated(c, edges), NEW m \in Seq(edges)
  PROVE  MatchingKey(c, m) \in [1 .. 1 + 4 * Len(m) -> Int]
<1> DEFINE f == [n \in DOMAIN m |-> c.page[m[n][1]].date]
           s == [n \in DOMAIN m |-> c.rows[m[n][2]].date]
           apart == [n \in DOMAIN m |-> Days(f[n], s[n])]
           sum == FoldLeft(LAMBDA x, y : x + y, 0, apart)
           ids == [n \in DOMAIN m |-> m[n][2]]
           ks == [n \in DOMAIN m |-> m[n][1]]
<1>1. Len(m) \in Nat /\ DOMAIN m = 1 .. Len(m) /\ \A n \in DOMAIN m : m[n] \in edges
  OBVIOUS
<1>2. \A n \in DOMAIN m : /\ c.page[m[n][1]].date \in Int /\ c.rows[m[n][2]].date \in Int
                          /\ m[n][1] \in Int /\ m[n][2] \in Int
  BY <1>1 DEF Dated
<1>3. \A n \in DOMAIN m : f[n] \in Int /\ s[n] \in Int /\ Days(f[n], s[n]) \in Int
  BY <1>2 DEF Days
<1>4. /\ f \in Seq(Int) /\ Len(f) = Len(m) /\ s \in Seq(Int) /\ Len(s) = Len(m)
      /\ ids \in Seq(Int) /\ Len(ids) = Len(m) /\ ks \in Seq(Int) /\ Len(ks) = Len(m)
  BY <1>1, <1>2
<1>5. apart \in Seq(Int)
  BY <1>1, <1>3
<1> HIDE DEF f, s, ids, ks, apart
<1>6. sum \in Int
  BY <1>5, SumInt
<1>7. MatchingKey(c, m) = <<sum>> \o f \o s \o ids \o ks
  BY DEF MatchingKey, f, s, ids, ks, apart
<1> HIDE DEF sum
<1>8. <<sum>> \in Seq(Int) /\ Len(<<sum>>) = 1
  BY <1>6
<1> DEFINE q1 == <<sum>> \o f
           q2 == q1 \o s
           q3 == q2 \o ids
           q4 == q3 \o ks
<1>9. q1 \in Seq(Int) /\ Len(q1) = 1 + Len(m)
  BY <1>4, <1>8, Longer
<1> HIDE DEF q1
<1>10. q2 \in Seq(Int) /\ Len(q2) = Len(q1) + Len(m)
  BY <1>4, <1>9, Longer
<1> HIDE DEF q2
<1>11. q3 \in Seq(Int) /\ Len(q3) = Len(q2) + Len(m)
  BY <1>4, <1>10, Longer
<1> HIDE DEF q3
<1>12. q4 \in Seq(Int) /\ Len(q4) = Len(q3) + Len(m)
  BY <1>4, <1>11, Longer
<1> HIDE DEF q4
<1>13. q4 \in Seq(Int) /\ Len(q4) = 1 + 4 * Len(m)
  BY <1>1, <1>9, <1>10, <1>11, <1>12
<1>14. q4 \in [1 .. 1 + 4 * Len(m) -> Int]
  BY <1>13
<1> QED
  BY <1>7, <1>14 DEF q1, q2, q3, q4

\* A largest matching of the least distance: a sequence of edges.
LEMMA ExactMatchingIs ==
  ASSUME NEW c, NEW edges, Dated(c, edges)
  PROVE  ExactMatching(c, edges) \in Seq(edges)
<1> DEFINE apart == {n \in SUBSET edges : \A x, y \in n : x # y => x[1] # y[1] /\ x[2] # y[2]}
           listing == [m \in apart |-> Sorted(m, [pr \in m |-> pr])]
           all == Matchings(edges)
           big == Largest(all)
<1>1. all = {listing[m] : m \in apart}
  BY DEF Matchings
<1>2. ASSUME NEW m \in apart PROVE listing[m] \in Seq(edges)
  <2> DEFINE key == [pr \in m |-> pr]
  <2>1. m \subseteq edges /\ IsFiniteSet(m)
    BY FS_Subset DEF Dated
  <2>2. Keyed(m, key, 2) /\ \A x, y \in m : key[x] = key[y] => x = y
    <3>1. \A e \in m : key[e] = e
      OBVIOUS
    <3>2. \A e \in m : e = <<e[1], e[2]>> /\ e[1] \in Int /\ e[2] \in Int
      BY <2>1 DEF Dated
    <3>3. ASSUME NEW e \in m PROVE e \in [1 .. 2 -> Int]
      <4>1. <<e[1], e[2]>> \in [1 .. 2 -> Int]
        BY <3>2, IntKeys
      <4> QED
        BY <4>1, <3>2
    <3> HIDE DEF key
    <3> QED
      BY <3>1, <3>3 DEF Keyed
  <2>3. Sorted(m, key) \in Seq(m)
    <3> HIDE DEF key, apart
    <3> QED
      BY <2>1, <2>2, SortedSeq
  <2>4. listing[m] = Sorted(m, key)
    OBVIOUS
  <2> HIDE DEF listing, key, apart
  <2> QED
    BY <2>1, <2>3, <2>4, SeqMonotonic
<1>3. IsFiniteSet(apart)
  <2>1. IsFiniteSet(SUBSET edges)
    BY FS_SUBSET DEF Dated
  <2>2. apart \subseteq SUBSET edges
    OBVIOUS
  <2> HIDE DEF apart
  <2> QED
    BY <2>1, <2>2, FS_Subset
<1>4. {} \in apart
  OBVIOUS
<1> HIDE DEF listing, apart, all
<1>5. IsFiniteSet(all) /\ all \subseteq Seq(edges) /\ all # {}
  <2>1. IsFiniteSet({listing[m] : m \in apart})
    BY <1>3, ImageFinite
  <2> QED
    BY <1>1, <1>2, <1>4, <2>1
<1>6. PICK longest \in all : \A o \in all : Len(o) <= Len(longest)
  <2> DEFINE length == [o \in all |-> Len(o)]
             lengths == {length[o] : o \in all}
  <2>1. IsFiniteSet(lengths)
    <3> HIDE DEF length
    <3> QED
      BY <1>5, ImageFinite
  <2>2. lengths \in SUBSET Int /\ lengths # {}
    <3>1. \A o \in all : length[o] \in Int
      BY <1>5
    <3> HIDE DEF length
    <3> QED
      BY <3>1, <1>5
  <2>3. Max(lengths) \in lengths /\ \A x \in lengths : x <= Max(lengths)
    <3> HIDE DEF lengths
    <3> QED
      BY <2>1, <2>2, Greatest
  <2>4. PICK o \in all : Max(lengths) = length[o]
    <3> HIDE DEF length
    <3> QED
      BY <2>3
  <2>5. \A x \in all : Len(x) \in lengths
    OBVIOUS
  <2>6. Max(lengths) = Len(o)
    BY <2>4
  <2> HIDE DEF lengths
  <2> QED
    BY <2>3, <2>5, <2>6
<1>7. longest \in big /\ big \subseteq all /\ IsFiniteSet(big)
  BY <1>5, <1>6, FS_Subset DEF Largest
<1> DEFINE key == [m \in big |-> MatchingKey(c, m)]
           width == 1 + 4 * Len(longest)
<1>8. width \in Nat
  BY <1>5
<1>9. Keyed(big, key, width)
  <2>1. ASSUME NEW m \in big PROVE key[m] \in [1 .. width -> Int]
    <3>1. m \in Seq(edges) /\ Len(m) = Len(longest)
      <4>1. m \in all /\ Len(longest) <= Len(m) /\ Len(m) <= Len(longest)
        BY <1>6, <1>7 DEF Largest
      <4>2. m \in Seq(edges) /\ longest \in Seq(edges)
        BY <4>1, <1>5
      <4> QED
        BY <4>1, <4>2
    <3>2. MatchingKey(c, m) \in [1 .. 1 + 4 * Len(m) -> Int]
      BY <3>1, MatchingKeyIs
    <3> HIDE DEF big
    <3> QED
      BY <3>1, <3>2
  <2> HIDE DEF key, width
  <2> QED
    BY <2>1 DEF Keyed
<1>10. \E x \in big : \A y \in big : ~LexLess(key[y], key[x])
  <2> HIDE DEF key, big, width
  <2> QED
    BY <1>7, <1>8, <1>9, SomeFirst
<1>11. \E x \in big : \A y \in big : ~LexLess(MatchingKey(c, y), MatchingKey(c, x))
  <2> HIDE DEF big
  <2> QED
    BY <1>10
<1>12. Least(c, big) \in big
  <2> HIDE DEF big
  <2> QED
    BY <1>11 DEF Least
<1>13. ExactMatching(c, edges) = Least(c, big)
  BY DEF ExactMatching, all
<1> HIDE DEF big
<1> QED
  BY <1>5, <1>7, <1>12, <1>13

OpGreedy(c, edges, e, pairs, k) ==
  LET free == {x[2] : x \in {y \in edges : y[1] = k}} \ {pr[2] : pr \in ToSet(pairs)}
      near == [i \in free |-> <<Days(c.page[k].date, c.rows[i].date), c.rows[i].date, i>>]
  IN IF free = {} THEN pairs ELSE Append(pairs, <<k, Head(Sorted(free, near))>>)
GoodGreedy(c, edges, e, i, pairs) == pairs \in Seq(edges)
GreedyFold == INSTANCE Folding WITH Op <- OpGreedy, Good <- GoodGreedy

LEMMA GreedyMatchingIs ==
  ASSUME NEW c, NEW edges, Dated(c, edges), NEW fs \in SUBSET Int, IsFiniteSet(fs),
         \A k \in fs : c.page[k].date \in Int
  PROVE  GreedyMatching(c, fs, edges) \in Seq(edges)
<1> DEFINE key == [k \in fs |-> <<c.page[k].date, k>>]
<1>1. Keyed(fs, key, 2) /\ \A x, y \in fs : key[x] = key[y] => x = y
  <2>1. \A k \in fs : key[k] = <<c.page[k].date, k>> /\ key[k] \in [1 .. 2 -> Int]
    BY IntKeys
  <2> HIDE DEF key
  <2> QED
    BY <2>1 DEF Keyed
<1>2. /\ Cardinality(fs) \in Nat /\ DOMAIN Sorted(fs, key) = 1 .. Cardinality(fs)
      /\ \A n \in 1 .. Cardinality(fs) : Sorted(fs, key)[n] \in fs
  BY <1>1, SortedIn
<1>3. ASSUME NEW pairs \in Seq(edges), NEW k \in fs
      PROVE  OpGreedy(c, edges, 0, pairs, k) \in Seq(edges)
  <2> DEFINE mine == {y \in edges : y[1] = k}
             second == [x \in mine |-> x[2]]
             free == {x[2] : x \in mine} \ {pr[2] : pr \in ToSet(pairs)}
             near == [i \in free |-> <<Days(c.page[k].date, c.rows[i].date), c.rows[i].date, i>>]
  <2>1. OpGreedy(c, edges, 0, pairs, k) =
          IF free = {} THEN pairs ELSE Append(pairs, <<k, Head(Sorted(free, near))>>)
    BY DEF OpGreedy
  <2>2. \A i \in free : i \in Int /\ c.rows[i].date \in Int /\ <<k, i>> \in edges
    <3> SUFFICES ASSUME NEW x \in edges, x[1] = k
        PROVE  x[2] \in Int /\ c.rows[x[2]].date \in Int /\ <<k, x[2]>> \in edges
      OBVIOUS
    <3> QED
      BY DEF Dated
  <2>3. IsFiniteSet(free)
    <3>1. IsFiniteSet(mine)
      BY FS_Subset DEF Dated
    <3>2. {x[2] : x \in mine} = {second[x] : x \in mine}
      OBVIOUS
    <3>3. IsFiniteSet({second[x] : x \in mine})
      <4> HIDE DEF mine, second
      <4> QED
        BY <3>1, ImageFinite
    <3>4. IsFiniteSet({x[2] : x \in mine})
      BY <3>2, <3>3
    <3> HIDE DEF mine, second
    <3> QED
      BY <3>4, FS_Subset
  <2> HIDE DEF free
  <2>4. Keyed(free, near, 3) /\ \A x, y \in free : near[x] = near[y] => x = y
    <3>1. \A x, y : x \in Int /\ y \in Int => Days(x, y) \in Int
      BY DEF Days
    <3>2. \A x, y, z \in Int : <<x, y, z>> \in [1 .. 3 -> Int]
      OBVIOUS
    <3>3. \A i \in free : Days(c.page[k].date, c.rows[i].date) \in Int
      BY <2>2, <3>1
    <3>4. \A i \in free : near[i] = <<Days(c.page[k].date, c.rows[i].date), c.rows[i].date, i>>
      OBVIOUS
    <3>5. \A i \in free : /\ near[i] = <<Days(c.page[k].date, c.rows[i].date), c.rows[i].date, i>>
                          /\ near[i] \in [1 .. 3 -> Int]
      BY <2>2, <3>2, <3>3, <3>4
    <3> HIDE DEF near
    <3> QED
      BY <3>5 DEF Keyed
  <2> HIDE DEF near
  <2>5. free # {} => Head(Sorted(free, near)) \in free
    BY <2>3, <2>4, SortedSeq
  <2> DEFINE e == <<k, Head(Sorted(free, near))>>
  <2>6. free # {} => e \in edges
    BY <2>2, <2>5
  <2>7. OpGreedy(c, edges, 0, pairs, k) \in {pairs, Append(pairs, e)}
        /\ (OpGreedy(c, edges, 0, pairs, k) = pairs \/ free # {})
    BY <2>1
  <2> HIDE DEF e
  <2> QED
    BY <2>6, <2>7
<1>4. \A n \in 1 .. Cardinality(fs) : \A a :
        GoodGreedy(c, edges, 0, n - 1, a)
          => GoodGreedy(c, edges, 0, n, OpGreedy(c, edges, 0, a, Sorted(fs, key)[n]))
  BY <1>2, <1>3 DEF GoodGreedy
<1>5. GoodGreedy(c, edges, 0, 0, <<>>)
  BY DEF GoodGreedy
<1>6. GreedyFold!Folded(c, edges, 0, <<>>, Sorted(fs, key)) \in Seq(edges)
  BY <1>2, <1>4, <1>5, GreedyFold!FoldKeeps DEF GoodGreedy
<1>7. GreedyFold!Folded(c, edges, 0, <<>>, Sorted(fs, key)) = GreedyMatching(c, fs, edges)
  BY DEF GreedyMatching, OpGreedy, GreedyFold!Folded, FoldLeft,
         MapThenFoldSet, GreedyFold!Top, Max
<1> QED
  BY <1>6, <1>7

LEMMA Rule2IdentKeeps ==
  ASSUME NEW c, NEW b, Context(c), Draft(c, b), NEW ident
  PROVE  Draft(c, Rule2Ident(c, b, ident))
<1> DEFINE fs == {k \in DOMAIN c.page : c.page[k].content = ident} \ (b.usedF \cup b.edge)
           ss == {i \in Live(c) : c.rows[i].ident = ident} \ b.usedS
           edges == Edges(c, fs, ss, b.failed)
           clear == \/ fs = {} \/ ss = {}
                    \/ Cardinality(fs) <= MaxExactCluster /\ Cardinality(ss) <= MaxExactCluster
           noted == [b EXCEPT !.unresolved = b.unresolved \cup {ident}]
           greedy == GreedyMatching(c, fs, edges)
<1>1. /\ fs \in SUBSET Int /\ IsFiniteSet(fs) /\ fs \subseteq DOMAIN c.page
      /\ \A k \in fs : c.page[k].date \in Int /\ c.page[k].content = ident
  <2>1. fs \subseteq DOMAIN c.page
    OBVIOUS
  <2>2. IsFiniteSet(fs) /\ fs \in SUBSET Int
    <3> HIDE DEF fs
    <3> QED
      BY <2>1, PageMembers, FS_Subset
  <2> QED
    BY <2>1, <2>2, PageMembers
<1>2. /\ ss \in SUBSET Int /\ IsFiniteSet(ss) /\ ss \subseteq DOMAIN c.rows
      /\ \A i \in ss : c.rows[i].date \in Int /\ c.rows[i].ident = ident
  <2>1. ss \subseteq c.win
    BY DEF Live
  <2>2. IsFiniteSet(ss) /\ ss \subseteq DOMAIN c.rows
    <3> HIDE DEF ss
    <3> QED
      BY <2>1, FS_Subset DEF Context
  <2>3. \A i \in ss : c.rows[i].ident = ident
    OBVIOUS
  <2> HIDE DEF ss
  <2> QED
    BY <2>2, <2>3 DEF Context
<1>3. edges \subseteq fs \X ss
  BY DEF Edges
<1> HIDE DEF fs, ss, edges, greedy
<1>4. Same(c, edges)
  BY <1>1, <1>2, <1>3 DEF Same
<1>5. Dated(c, edges)
  <2>1. IsFiniteSet(edges)
    <3>1. IsFiniteSet(fs \X ss)
      BY <1>1, <1>2, FS_Product
    <3> QED
      BY <3>1, <1>3, FS_Subset
  <2>2. ASSUME NEW e \in edges
        PROVE  /\ e = <<e[1], e[2]>> /\ e[1] \in Int /\ e[2] \in Int
               /\ c.page[e[1]].date \in Int /\ c.rows[e[2]].date \in Int
    <3>1. PICK k \in fs, i \in ss : e = <<k, i>>
      BY <1>3
    <3> QED
      BY <3>1, <1>1, <1>2
  <2> QED
    BY <2>1, <2>2 DEF Dated
<1>6. Draft(c, MatchPairs(c, b, ExactMatching(c, edges), FALSE))
  BY <1>4, <1>5, ExactMatchingIs, MatchPairsKeeps
<1>7. Draft(c, noted)
  BY NotedKeeps
<1>8. greedy \in Seq(edges)
  BY <1>1, <1>5, GreedyMatchingIs DEF greedy
<1> HIDE DEF noted
<1>9. Draft(c, MatchPairs(c, noted, greedy, TRUE))
  BY <1>4, <1>7, <1>8, MatchPairsKeeps
<1>10. Draft(c, FlagSilent(MatchPairs(c, noted, greedy, TRUE), ss))
  BY <1>2, <1>9, FlagSilentKeeps
<1>11. Rule2Ident(c, b, ident) \in {MatchPairs(c, b, ExactMatching(c, edges), FALSE),
                                    FlagSilent(MatchPairs(c, noted, greedy, TRUE), ss)}
  BY DEF Rule2Ident, fs, ss, edges, greedy, noted
<1> QED
  BY <1>6, <1>10, <1>11

OpIdent(c, e, f, a, ident) == Rule2Ident(c, a, ident)
IdentFold == INSTANCE Folding WITH Op <- OpIdent, Good <- GoodDraft

LEMMA Rule2Keeps ==
  ASSUME NEW c, NEW b, Context(c), Draft(c, b)
  PROVE  Draft(c, Rule2(c, b))
<1> DEFINE open == DOMAIN c.page \ (b.usedF \cup b.edge)
           contents == {c.page[k].content : k \in open}
           s == Ascending(contents)
<1>1. contents \in SUBSET Int /\ IsFiniteSet(contents)
  <2> DEFINE g == [k \in open |-> c.page[k].content]
  <2>1. open \subseteq DOMAIN c.page
    OBVIOUS
  <2>2. IsFiniteSet(open)
    <3> HIDE DEF open
    <3> QED
      BY <2>1, PageMembers, FS_Subset
  <2>3. contents = {g[k] : k \in open}
    OBVIOUS
  <2>4. IsFiniteSet({g[k] : k \in open})
    <3> HIDE DEF g, open
    <3> QED
      BY <2>2, ImageFinite
  <2>5. contents \in SUBSET Int
    <3> HIDE DEF open
    <3> QED
      BY <2>1, PageMembers
  <2> QED
    BY <2>3, <2>4, <2>5
<1> HIDE DEF contents, open
<1>2. Len(s) \in Nat /\ DOMAIN s = 1 .. Len(s)
  BY <1>1, AscendingSeq
<1>3. \A n \in 1 .. Len(s) : \A a :
        GoodDraft(c, 0, 0, n - 1, a) => GoodDraft(c, 0, 0, n, OpIdent(c, 0, 0, a, s[n]))
  BY Rule2IdentKeeps DEF GoodDraft, OpIdent
<1>4. Draft(c, IdentFold!Folded(c, 0, 0, b, s))
  BY <1>2, <1>3, IdentFold!FoldKeeps DEF GoodDraft
<1>5. IdentFold!Folded(c, 0, 0, b, s) = Rule2(c, b)
  BY DEF Rule2, OpIdent, s, contents, open, IdentFold!Folded, FoldLeft,
         MapThenFoldSet, IdentFold!Top, Max
<1> QED
  BY <1>4, <1>5

-----------------------------------------------------------------------------
(* What is left of the page and of the ledger.                             *)

OpRest(c, e, f, a, k) ==
  LET why == CASE k \in a.reuseF -> "provider_ref_reuse"
               [] k \notin a.reuseF /\ c.page[k].content \in a.unresolved -> "windowed_ambiguous"
               [] OTHER -> "none"
  IN [EmitInsert(c, a, c.page[k], why) EXCEPT !.fresh = @ \cup {Len(a.ins) + 1}]
RestFold == INSTANCE Folding WITH Op <- OpRest, Good <- GoodDraft

LEMMA InsertRestKeeps ==
  ASSUME NEW c, NEW b, Context(c), Draft(c, b)
  PROVE  Draft(c, InsertRest(c, b))
<1> DEFINE rest == DOMAIN c.page \ b.usedF
           s == Ascending(rest)
<1>1. rest \in SUBSET Int /\ IsFiniteSet(rest) /\ rest \subseteq DOMAIN c.page
  <2>1. rest \subseteq DOMAIN c.page
    OBVIOUS
  <2> HIDE DEF rest
  <2> QED
    BY <2>1, PageMembers, FS_Subset
<1> HIDE DEF rest
<1>2. s \in Seq(rest) /\ Len(s) \in Nat /\ DOMAIN s = 1 .. Len(s)
  BY <1>1, AscendingSeq
<1> HIDE DEF s
<1>3. ASSUME NEW a, Draft(c, a), NEW k \in DOMAIN c.page
      PROVE  Draft(c, OpRest(c, 0, 0, a, k))
  <2> DEFINE why == CASE k \in a.reuseF -> "provider_ref_reuse"
                      [] k \notin a.reuseF /\ c.page[k].content \in a.unresolved
                           -> "windowed_ambiguous"
                      [] OTHER -> "none"
             d == EmitInsert(c, a, c.page[k], why)
             S == d.fresh \cup {Len(a.ins) + 1}
             x == [d EXCEPT !.fresh = S]
  <2>1. why \in Reasons
    BY DEF Reasons
  <2> HIDE DEF why
  <2>2. c.page[k] \in Pays
    BY PageMembers
  <2>3. Draft(c, d)
    BY <1>3, <2>1, <2>2, InsertAdds
  <2> HIDE DEF d, S
  <2>4. Alike(d, x)
    BY <2>3 DEF Alike, Draft, NoPlan
  <2>5. Draft(c, x)
    BY <2>3, <2>4, AlikeKeeps
  <2>6. OpRest(c, 0, 0, a, k) = x
    BY DEF OpRest, S, d, why
  <2> QED
    BY <2>5, <2>6
<1>4. \A n \in 1 .. Len(s) : \A a :
        GoodDraft(c, 0, 0, n - 1, a) => GoodDraft(c, 0, 0, n, OpRest(c, 0, 0, a, s[n]))
  <2>1. \A n \in 1 .. Len(s) : s[n] \in DOMAIN c.page
    BY <1>1, <1>2
  <2> QED
    BY <1>3, <2>1 DEF GoodDraft
<1>5. Draft(c, RestFold!Folded(c, 0, 0, b, s))
  BY <1>2, <1>4, RestFold!FoldKeeps DEF GoodDraft
<1>6. RestFold!Folded(c, 0, 0, b, s) = InsertRest(c, b)
  BY DEF InsertRest, OpRest, s, rest, RestFold!Folded, FoldLeft,
         MapThenFoldSet, RestFold!Top, Max
<1> QED
  BY <1>5, <1>6

\* Row ids in ascending order.
LEMMA RowsListed ==
  ASSUME NEW c, Context(c), NEW ids \in SUBSET DOMAIN c.rows
  PROVE  /\ Ascending(ids) \in Seq(ids) /\ Len(Ascending(ids)) \in Nat
         /\ DOMAIN Ascending(ids) = 1 .. Len(Ascending(ids))
<1>1. IsFiniteSet(DOMAIN c.rows) /\ \A i \in DOMAIN c.rows : i \in Nat
  BY DEF Context
<1>2. ids \in SUBSET Int /\ IsFiniteSet(ids)
  BY <1>1, FS_Subset
<1> QED
  BY <1>2, AscendingSeq

OpElsewhere(c, e, f, a, i) == Flag(a, i, "content_present_elsewhere")
ElsewhereFold == INSTANCE Folding WITH Op <- OpElsewhere, Good <- GoodDraft

LEMMA Rule3Keeps ==
  ASSUME NEW c, NEW b, Context(c), Draft(c, b)
  PROVE  Draft(c, Rule3(c, b))
<1> DEFINE rest == {i \in Live(c) \ (b.usedS \cup b.reused) :
                      c.rows[i].ident \notin b.unresolved /\ ContentPresent(c, i)}
           s == Ascending(rest)
<1>1. rest \in SUBSET DOMAIN c.rows
  BY DEF Live, Context
<1> HIDE DEF rest
<1>2. Len(s) \in Nat /\ DOMAIN s = 1 .. Len(s)
  BY <1>1, RowsListed
<1>3. "content_present_elsewhere" \in Raised
  BY DEF Raised, Reasons
<1>4. \A n \in 1 .. Len(s) : \A a :
        GoodDraft(c, 0, 0, n - 1, a) => GoodDraft(c, 0, 0, n, OpElsewhere(c, 0, 0, a, s[n]))
  BY <1>3, FlagKeeps DEF GoodDraft, OpElsewhere
<1>5. Draft(c, ElsewhereFold!Folded(c, 0, 0, b, s))
  BY <1>2, <1>4, ElsewhereFold!FoldKeeps DEF GoodDraft
<1>6. ElsewhereFold!Folded(c, 0, 0, b, s) = Rule3(c, b)
  BY DEF Rule3, OpElsewhere, s, rest, ElsewhereFold!Folded, FoldLeft,
         MapThenFoldSet, ElsewhereFold!Top, Max
<1> QED
  BY <1>5, <1>6

LEMMA Rule3bKeeps ==
  ASSUME NEW c, NEW b, Context(c), Draft(c, b)
  PROVE  Draft(c, Rule3b(c, b))
<1> DEFINE gone == {i \in Live(c) \ (b.usedS \cup b.reused) :
                      /\ Pending(c.rows[i]) \/ Cancelled(c.rows[i])
                      /\ c.rows[i].ident \notin b.unresolved
                      /\ ~ContentPresent(c, i)
                      /\ c.rows[i].date >= c.from + MatchWindow}
           s == Ascending(gone)
           d == [b EXCEPT !.tomb = s]
<1>1. gone \in SUBSET DOMAIN c.rows
  BY DEF Live, Context
<1>2. Rule3b(c, b) = d
  BY DEF Rule3b
<1> HIDE DEF gone
<1>3. Listed(s)
  BY <1>1, RowsListed DEF Listed
<1> HIDE DEF s
<1>4. /\ DOMAIN d = DOMAIN b /\ d.ins = b.ins /\ d.upd = b.upd /\ d.tomb = s
      /\ d.flags = b.flags /\ d.spent = b.spent /\ d.reps = b.reps /\ d.edge = b.edge
  BY DEF Draft, NoPlan
<1> HIDE DEF d
<1>5. Draft(c, d)
  BY <1>3, <1>4 DEF Draft, GoodPlan
<1> QED
  BY <1>2, <1>5

-----------------------------------------------------------------------------
(* Disclosure.                                                             *)

OpTwin(c, e, f, a, i) == Flag(a, i, "duplicate_across_window_edge")
TwinFold == INSTANCE Folding WITH Op <- OpTwin, Good <- GoodDraft

\* Whatever is flagged, only a reason is added to what had none.
LEMMA FlagTwinsKeeps ==
  ASSUME NEW c, NEW b, Context(c), Draft(c, b), NEW targets
  PROVE  Draft(c, FlagTwins(c, b, targets))
<1> DEFINE why == "duplicate_across_window_edge"
           Quiet(i) == /\ c.rows[i].why = "none"
                       /\ \A n \in DOMAIN b.flags : b.flags[n].id # i
                       /\ \A n \in DOMAIN b.upd : b.upd[n].id = i => b.upd[n].why = "none"
           Mark(n) == IF <<"i", n>> \in targets /\ b.ins[n].why = "none"
                      THEN [b.ins[n] EXCEPT !.why = why] ELSE b.ins[n]
           ids == {i \in DOMAIN c.rows : <<"s", i>> \in targets /\ Quiet(i)}
           s == Ascending(ids)
           ins == [n \in DOMAIN b.ins |-> Mark(n)]
           d == [b EXCEPT !.ins = ins]
<1>1. why \in Raised
  BY DEF Raised, Reasons
<1>2. b.ins \in Seq(Inserts(c)) /\ Len(b.ins) \in Nat /\ DOMAIN b.ins = 1 .. Len(b.ins)
  BY DEF Draft, GoodPlan
<1>3. ASSUME NEW n \in 1 .. Len(b.ins)
      PROVE  /\ ins[n] \in Inserts(c) /\ ins[n].ident = b.ins[n].ident
             /\ b.ins[n].why # "none" => ins[n].why # "none"
  <2>1. b.ins[n] \in Inserts(c)
    BY <1>2
  <2>2. ins[n] \in {b.ins[n], [b.ins[n] EXCEPT !.why = why]}
    BY <1>2
  <2>3. why # "none" /\ why \in Reasons
    BY <1>1 DEF Raised
  <2> DEFINE e == b.ins[n]
             x == ins[n]
  <2> HIDE DEF e, x, why
  <2>4. e \in Inserts(c) /\ x \in {e, [e EXCEPT !.why = why]}
    BY <2>1, <2>2 DEF e, x
  <2>5. x \in Inserts(c) /\ x.ident = e.ident /\ (e.why # "none" => x.why # "none")
    BY <2>3, <2>4 DEF Inserts
  <2> QED
    BY <2>5 DEF e, x
<1>4. ins \in Seq(Inserts(c)) /\ Len(ins) = Len(b.ins)
  <2>1. DOMAIN ins = 1 .. Len(b.ins)
    BY <1>2
  <2>2. ins = [n \in 1 .. Len(b.ins) |-> Mark(n)]
    BY <1>2
  <2>3. \A n \in 1 .. Len(b.ins) : Mark(n) \in Inserts(c)
    BY <1>2, <1>3
  <2> HIDE DEF Mark, ins
  <2>4. ins \in [1 .. Len(b.ins) -> Inserts(c)]
    BY <2>2, <2>3
  <2> QED
    BY <1>2, <2>4
<1>5. ids \in SUBSET DOMAIN c.rows
  OBVIOUS
<1> HIDE DEF ids, ins
<1>6. /\ DOMAIN d = DOMAIN b /\ d.ins = ins /\ d.upd = b.upd /\ d.tomb = b.tomb
      /\ d.flags = b.flags /\ d.spent = b.spent /\ d.reps = b.reps /\ d.edge = b.edge
  BY DEF Draft, NoPlan
<1> HIDE DEF d
<1>7. Successors(c, d.ins, d.upd)
  <2>1. Successors(c, b.ins, b.upd)
    BY DEF Draft, GoodPlan
  <2>2. ASSUME NEW n \in 1 .. Len(b.upd), b.upd[n].op = "supersede"
        PROVE  Succeeds(c, ins, b.upd[n])
    <3>1. Succeeds(c, b.ins, b.upd[n])
      BY <2>1, <2>2 DEF Successors
    <3>2. b.upd[n].by \in 1 .. Len(b.ins)
      BY <3>1 DEF Succeeds
    <3> QED
      BY <3>1, <3>2, <1>3, <1>4 DEF Succeeds
  <2> QED
    BY <2>1, <2>2, <1>6 DEF Successors
<1>8. Draft(c, d)
  BY <1>4, <1>6, <1>7 DEF Draft, GoodPlan
<1>9. Len(s) \in Nat /\ DOMAIN s = 1 .. Len(s)
  BY <1>5, RowsListed
<1> HIDE DEF s
<1>10. \A n \in 1 .. Len(s) : \A a :
         GoodDraft(c, 0, 0, n - 1, a) => GoodDraft(c, 0, 0, n, OpTwin(c, 0, 0, a, s[n]))
  BY <1>1, FlagKeeps DEF GoodDraft, OpTwin
<1>11. Draft(c, TwinFold!Folded(c, 0, 0, d, s))
  BY <1>8, <1>9, <1>10, TwinFold!FoldKeeps DEF GoodDraft
<1>12. TwinFold!Folded(c, 0, 0, d, s) = FlagTwins(c, b, targets)
  BY DEF FlagTwins, OpTwin, d, ins, s, ids, TwinFold!Folded, FoldLeft,
         MapThenFoldSet, TwinFold!Top, Max
<1> QED
  BY <1>11, <1>12

LEMMA DiscloseKeeps ==
  ASSUME NEW c, NEW b, Context(c), Draft(c, b)
  PROVE  Draft(c, Disclose(c, b))
<1> DEFINE targets == EdgeTwins(c, b, [n \in Nodes(c, b) |-> Place(c, b, n)],
                                      [n \in Nodes(c, b) |-> EndOf(c, b, n)])
<1>1. Disclose(c, b) \in {b, FlagTwins(c, b, targets)}
  BY DEF Disclose
<1> HIDE DEF targets
<1> QED
  BY <1>1, FlagTwinsKeeps

-----------------------------------------------------------------------------
(* The plan.                                                               *)

LEMMA NoPlanGood == ASSUME NEW c, Context(c) PROVE Draft(c, NoPlan)
<1>1. /\ NoPlan.ins = <<>> /\ NoPlan.upd = <<>> /\ NoPlan.tomb = <<>> /\ NoPlan.flags = <<>>
      /\ NoPlan.spent = {} /\ NoPlan.reps = {} /\ NoPlan.edge = {}
  BY DEF NoPlan
<1>2. IsFiniteSet({})
  BY FS_EmptySet
<1>3. \A S : <<>> \in Seq(S) /\ Len(<<>>) = 0
  OBVIOUS
<1>4. Listed(<<>>) /\ Disclosed(<<>>)
  BY <1>3 DEF Listed, Disclosed
<1>5. Successors(c, <<>>, <<>>)
  BY DEF Successors
<1> QED
  BY <1>1, <1>2, <1>3, <1>4, <1>5 DEF Draft, GoodPlan

LEMMA PassesKeep ==
  ASSUME NEW c, Context(c)
  PROVE  Draft(c, Passes(c))
<1>1. Draft(c, CollapseRestatements(c, NoPlan))
  BY NoPlanGood, CollapseKeeps
<1>2. Draft(c, PrePass(c, CollapseRestatements(c, NoPlan)))
  BY <1>1, PrePassKeeps
<1>3. Draft(c, Rule1(c, PrePass(c, CollapseRestatements(c, NoPlan))))
  BY <1>2, Rule1Keeps
<1> DEFINE b == Rule1(c, PrePass(c, CollapseRestatements(c, NoPlan)))
<1> HIDE DEF b
<1>4. Draft(c, Rule2(c, b))
  BY <1>3, Rule2Keeps DEF b
<1>5. Draft(c, InsertRest(c, Rule2(c, b)))
  BY <1>4, InsertRestKeeps
<1>6. Draft(c, Rule3(c, InsertRest(c, Rule2(c, b))))
  BY <1>5, Rule3Keeps
<1>7. Draft(c, Rule3b(c, Rule3(c, InsertRest(c, Rule2(c, b)))))
  BY <1>6, Rule3bKeeps
<1>8. Draft(c, Disclose(c, Rule3b(c, Rule3(c, InsertRest(c, Rule2(c, b))))))
  BY <1>7, DiscloseKeeps
<1> QED
  BY <1>8 DEF Passes, b

OpPay(d, e, f, page, x) == IF Cancelled(x) THEN page ELSE Append(page, x)
GoodPay(d, e, f, i, page) == page \in Seq(Pays)
PayFold == INSTANCE Folding WITH Op <- OpPay, Good <- GoodPay

LEMMA PaymentsAre ==
  ASSUME NEW fetched \in Seq(Pays)
  PROVE  Payments(fetched) \in Seq(Pays)
<1>1. /\ Len(fetched) \in Nat /\ DOMAIN fetched = 1 .. Len(fetched)
      /\ \A n \in 1 .. Len(fetched) : fetched[n] \in Pays
  OBVIOUS
<1>2. \A n \in 1 .. Len(fetched) : \A a :
        GoodPay(0, 0, 0, n - 1, a) => GoodPay(0, 0, 0, n, OpPay(0, 0, 0, a, fetched[n]))
  BY <1>1 DEF GoodPay, OpPay
<1>3. GoodPay(0, 0, 0, 0, <<>>)
  BY DEF GoodPay
<1>4. PayFold!Folded(0, 0, 0, <<>>, fetched) \in Seq(Pays)
  BY <1>1, <1>2, <1>3, PayFold!FoldKeeps DEF GoodPay
<1>5. PayFold!Folded(0, 0, 0, <<>>, fetched) = Payments(fetched)
  BY DEF Payments, OpPay, PayFold!Folded, FoldLeft,
         MapThenFoldSet, PayFold!Top, Max
<1> QED
  BY <1>4, <1>5

\* What the reconciliation of an answer with what was loaded plans is always
\* something the ledger can carry out: every insert carries the identity of its
\* content under an occurrence that is not below the durable mark; a row that is
\* rewritten keeps both, or takes such a number on trusted references; a row is
\* superseded by one insert of its own, which takes its finding over and, without
\* trust, has its identity; and every flag gives a reason (reconcile).
THEOREM ReconcileIsGood ==
  ASSUME NEW loaded, NEW fetched \in Seq(Pays), NEW trusted, NEW alloc, NEW from,
         NEW c, c = [rows |-> loaded.rows, win |-> loaded.win, below |-> loaded.below,
                     ends |-> loaded.ends, trusted |-> trusted, alloc |-> alloc,
                     from |-> from, page |-> Payments(fetched)],
         Context(c)
  PROVE  GoodPlan(c, Reconcile(loaded, fetched, trusted, alloc, from))
<1>1. Draft(c, Passes(c))
  BY PassesKeep
<1>2. Reconcile(loaded, fetched, trusted, alloc, from) = PlanOf(Passes(c))
  BY DEF Reconcile
<1> DEFINE b == Passes(c)
<1> HIDE DEF b
<1>3. /\ PlanOf(b).ins = b.ins /\ PlanOf(b).upd = b.upd /\ PlanOf(b).tomb = b.tomb
      /\ PlanOf(b).flags = b.flags
  BY DEF PlanOf
<1>4. GoodPlan(c, PlanOf(b))
  BY <1>1, <1>3 DEF Draft, GoodPlan, b
<1> QED
  BY <1>2, <1>4 DEF b

=============================================================================
