----------------------------- MODULE RowsProofs -----------------------------
(* Proofs about the rows of Ledger: that every step keeps their invariant,  *)
(* that the keys of the ledger follow the contents and are never given     *)
(* twice, that findings and tags are kept, and that nothing comes back     *)
(* behind an erasure.                                                      *)
EXTENDS LedgerProofs

-----------------------------------------------------------------------------
(* The bank and the clock.                                                 *)

LEMMA NobodyMoves ==
  ASSUME NEW q, run' = run
  PROVE  Held(q)
BY DEF Held, RunKeeps

LEMMA WorldMoves ==
  ASSUME RowsInv, Typed, run' = run, RowsStay(db'), UNCHANGED <<issued, hist>>, BankFits'
  PROVE  Calm
BY Rests, NobodyMoves, AllHeld

LEMMA UnlinkCalm ==
  ASSUME RowsInv, Typed, UnlinkBank
  PROVE  Calm
<1>1. RowsStay(db')
  <2>1. db' = [db EXCEPT !.acct.session = 0]
    BY DEF UnlinkBank
  <2> QED
    BY <2>1, SessionField
<1>2. run' = run /\ UNCHANGED <<today, bank, issued, hist>>
  BY DEF UnlinkBank
<1> QED
  BY <1>1, <1>2, ClockKept, WorldMoves

LEMMA TimeCalm ==
  ASSUME RowsInv, Typed, NEW what \in {"wait", "recent", "claim"}, TimePasses(what)
  PROVE  Calm
<1>1. \/ db' = [db EXCEPT !.sync.wait = FALSE]
      \/ db' = [db EXCEPT !.sync.recent = FALSE]
      \/ db' = [db EXCEPT !.claim.old = TRUE]
  BY DEF TimePasses
<1>2. RowsStay(db')
  BY <1>1 DEF RowsStay, Typed, DbTyped
<1>3. run' = run /\ UNCHANGED <<today, bank, issued, hist>>
  BY DEF TimePasses
<1> QED
  BY <1>2, <1>3, ClockKept, WorldMoves

LEMMA BankListed ==
  ASSUME RowsInv, NEW k \in DOMAIN bank
  PROVE  /\ Len(bank) \in Nat /\ DOMAIN bank = 1 .. Len(bank) /\ k \in 1 .. Len(bank)
         /\ bank[k] \in Pays /\ bank \in Seq(Pays) /\ today \in Nat
BY DEF RowsInv, BankFits

LEMMA ScenarioNow ==
  ASSUME Typed
  PROVE  /\ sc.entries \subseteq [content : Idents, age : Int, ref : Int, status : Statuses]
         /\ sc.firstDay \in Nat /\ sc.bank \in Seq(Pays)
         /\ \A r \in sc.rules \cup sc.offered : "tags" \in DOMAIN r /\ r.tags \subseteq Tags
         /\ \A tags \in sc.taggings : tags \subseteq Tags
BY ScenariosAssumption DEF Typed, Statuses, Pays

LEMMA BankCalm ==
  ASSUME RowsInv, Typed, UNCHANGED <<today, db, run, issued, hist>>, bank' \in Seq(Pays)
  PROVE  Calm
<1>1. BankFits'
  BY DEF RowsInv, BankFits
<1> QED
  BY <1>1, DbItself, WorldMoves

LEMMA PayIs ==
  ASSUME NEW r, r \in [content : Idents, date : Int, ref : Int, status : Statuses]
  PROVE  r \in Pays
BY DEF Pays

LEMMA PostCalm ==
  ASSUME RowsInv, Typed, NEW e \in sc.entries, Post(e)
  PROVE  Calm
<1> DEFINE r == [content |-> e.content, date |-> today - e.age, ref |-> e.ref,
                 status |-> e.status]
<1>1. r \in Pays
  <2>1. e \in [content : Idents, age : Int, ref : Int, status : Statuses]
    BY ScenarioNow
  <2>2. today \in Nat
    BY DEF RowsInv, BankFits
  <2> QED
    BY <2>1, <2>2 DEF Pays
<1>2. bank' = Append(bank, r) /\ UNCHANGED <<today, db, run, issued, hist>>
  BY DEF Post
<1> HIDE DEF r
<1>3. bank \in Seq(Pays)
  BY DEF RowsInv, BankFits
<1>4. bank' \in Seq(Pays)
  BY <1>1, <1>2, <1>3
<1> QED
  BY <1>2, <1>4, BankCalm

LEMMA LaterInt ==
  ASSUME Typed, NEW later \in sc.later
  PROVE  later \in Int
BY ScenariosAssumption DEF Typed

LEMMA EntryChanged ==
  ASSUME RowsInv, NEW k \in DOMAIN bank, NEW r \in Pays, NEW b, b = [bank EXCEPT ![k] = r]
  PROVE  b \in Seq(Pays)
BY DEF RowsInv, BankFits

LEMMA BookCalm ==
  ASSUME RowsInv, Typed, NEW k \in DOMAIN bank, NEW later \in sc.later, Book(k, later)
  PROVE  Calm
<1>1. bank[k] \in Pays /\ bank \in Seq(Pays) /\ later \in Int
  BY BankListed, LaterInt
<1> DEFINE old == bank[k]
<1>2. /\ UNCHANGED <<today, db, run, issued, hist>>
      /\ bank' = [bank EXCEPT ![k] = [old EXCEPT !.status = "BOOK", !.date = @ + later]]
  BY <1>1 DEF Book
<1> HIDE DEF old
<1>3. old \in Pays /\ old.date + later \in Int
  BY <1>1 DEF Pays, old
<1>4. [old EXCEPT !.status = "BOOK", !.date = @ + later] \in Pays
  BY <1>3 DEF Pays, Statuses
<1>5. bank' \in Seq(Pays)
  BY <1>2, <1>4, EntryChanged
<1> QED
  BY <1>2, <1>5, BankCalm

LEMMA ChangeCalm ==
  ASSUME RowsInv, Typed, NEW k \in DOMAIN bank, NEW content \in Idents,
         Correct(k, content) \/ Void(k)
  PROVE  Calm
<1>1. bank[k] \in Pays /\ bank \in Seq(Pays)
  BY BankListed
<1> DEFINE old == bank[k]
<1>2. UNCHANGED <<today, db, run, issued, hist>>
  BY DEF Correct, Void
<1>3. \/ bank' = [bank EXCEPT ![k] = [old EXCEPT !.content = content]]
      \/ bank' = [bank EXCEPT ![k] = [old EXCEPT !.status = "CNCL"]]
  BY <1>1 DEF Correct, Void
<1> HIDE DEF old
<1>4. /\ [old EXCEPT !.content = content] \in Pays
      /\ [old EXCEPT !.status = "CNCL"] \in Pays
  <2>1. old \in Pays
    BY <1>1 DEF old
  <2> QED
    BY <2>1 DEF Pays, Statuses
<1>5. bank' \in Seq(Pays)
  BY <1>3, <1>4, EntryChanged
<1> QED
  BY <1>2, <1>5, BankCalm

LEMMA WithdrawCalm ==
  ASSUME RowsInv, Typed, NEW k \in DOMAIN bank, Withdraw(k)
  PROVE  Calm
<1>1. bank' = RemoveAt(bank, k) /\ UNCHANGED <<today, db, run, issued, hist>>
  BY DEF Withdraw
<1>2. /\ bank \in Seq(Pays) /\ Len(bank) \in Nat /\ k \in 1 .. Len(bank)
  BY BankListed
<1>3. SubSeq(bank, 1, k - 1) \in Seq(Pays) /\ SubSeq(bank, k + 1, Len(bank)) \in Seq(Pays)
  BY <1>2, SubSeqProperties
<1>4. bank' \in Seq(Pays)
  BY <1>1, <1>3, ConcatProperties DEF RemoveAt
<1> QED
  BY <1>1, <1>4, BankCalm

LEMMA DayCalm ==
  ASSUME RowsInv, Typed, DayPasses
  PROVE  Calm
<1>1. today' = today + 1 /\ UNCHANGED <<bank, db, run, issued, hist>>
  BY DEF DayPasses
<1>2. BankFits'
  BY <1>1 DEF RowsInv, BankFits
<1> QED
  BY <1>1, <1>2, DbItself, WorldMoves

-----------------------------------------------------------------------------
(* The rulebook and the tags.                                              *)

\* Row r as it was, s with other tags, if any.
Retags(r, s) ==
  /\ DOMAIN s = RowFields /\ s.tags \subseteq Tags
  /\ r.succ # 0 => s.tags = {}
  /\ Cardinality(Plain(s.tags)) <= MaxTagsPerRow
  /\ \A x \in RowFields \ {"tags"} : s[x] = r[x]

\* A call that leaves the rows as they are but for their tags, and every run where
\* it was.
Retag(d) ==
  /\ DOMAIN d.rows = DOMAIN db.rows
  /\ \A i \in DOMAIN db.rows : Retags(db.rows[i], d.rows[i])

CallRuns == run' = run /\ UNCHANGED <<today, bank>>

LEMMA RetagCalm ==
  ASSUME RowsInv, Typed, CallRuns, UNCHANGED <<issued, hist>>, Retag(db'), RulesFit',
         db'.alloc = db.alloc, db'.cover = db.cover, db'.bals = db.bals, db'.acct = db.acct
  PROVE  Calm
<1>1. \A q \in Procs : RunFits(run[q])' /\ ~Landing(q)
  <2>1. issued.life \in Nat /\ issued.row \in Nat /\ issued.tick \in Nat
    BY DEF RowsInv, RowsFit, LivesFit, Typed, IssuedTyped
  <2>2. Grows /\ LivesOn
    BY <2>1 DEF Grows, LivesOn
  <2> QED
    BY <2>2, NobodyMoves, HeldFits, HeldLandsNot DEF CallRuns
<1>2. ASSUME NEW i \in DOMAIN db.rows
      PROVE  /\ RowFits(db'.rows[i]) /\ db'.rows[i].succ = db.rows[i].succ
             /\ db'.rows[i].ident = db.rows[i].ident /\ db'.rows[i].occ = db.rows[i].occ
             /\ db'.rows[i].why = db.rows[i].why /\ db'.rows[i].by = db.rows[i].by
             /\ db.rows[i].succ \in {0} \cup DOMAIN db.rows
  <2> DEFINE r == db.rows[i]
             s == db'.rows[i]
  <2>1. RowFits(r) /\ db.rows[i].succ \in {0} \cup DOMAIN db.rows
    BY DEF RowsInv, RowsFit
  <2>2. /\ DOMAIN s = RowFields /\ s.tags \subseteq Tags
        /\ r.succ # 0 => s.tags = {}
        /\ Cardinality(Plain(s.tags)) <= MaxTagsPerRow
        /\ \A x \in RowFields \ {"tags"} : s[x] = r[x]
    BY DEF Retag, Retags
  <2> HIDE DEF r, s
  <2>3. /\ s.content = r.content /\ s.date = r.date /\ s.ref = r.ref /\ s.status = r.status
        /\ s.state = r.state /\ s.succ = r.succ /\ s.ident = r.ident /\ s.occ = r.occ
        /\ s.why = r.why /\ s.by = r.by
    BY <2>2 DEF RowFields
  <2>4. RowFits(s)
    BY <2>1, <2>2, <2>3 DEF RowFits
  <2> QED
    BY <2>1, <2>3, <2>4 DEF r, s
<1>3. RowsFit'
  BY <1>2 DEF RowsInv, RowsFit, Retag
<1>4. MarksFit'
  <2>1. SpentPairs(db)' = SpentPairs(db)
    BY <1>2 DEF SpentPairs, Retag
  <2>2. KeysUnique(db.rows)'
    BY <1>2 DEF RowsInv, MarksFit, KeysUnique, Retag
  <2> QED
    BY <2>1, <2>2 DEF RowsInv, MarksFit
<1>5. LivesFit'
  BY <1>2 DEF RowsInv, LivesFit, LandedSinceErasure, Retag
<1>6. CoverFits' /\ BalancesOfOneAnswer' /\ BankFits'
  BY DEF RowsInv, CoverFits, CoverageProved, BalancesOfOneAnswer, BankFits, CallRuns
<1>7. Unmoved
  BY <1>2 DEF Unmoved, Retag
<1> QED
  BY <1>1, <1>3, <1>4, <1>5, <1>6, <1>7 DEF RowsInv, RunsFit, Calm, NoLanding

LEMMA NewTags ==
  ASSUME NEW r, RowFits(r), NEW tags, tags \subseteq Tags, r.succ # 0 => tags = {},
         Cardinality(Plain(tags)) <= MaxTagsPerRow,
         NEW s, s = [r EXCEPT !.tags = tags]
  PROVE  Retags(r, s)
BY DEF RowFits, Retags, RowFields

LEMMA SameTags ==
  ASSUME NEW r, RowFits(r)
  PROVE  Retags(r, r)
BY DEF RowFits, Retags

LEMMA RowNow ==
  ASSUME RowsInv, NEW i \in DOMAIN db.rows
  PROVE  /\ RowFits(db.rows[i]) /\ db.rows[i].tags \subseteq Tags
         /\ Cardinality(Plain(db.rows[i].tags)) <= MaxTagsPerRow
         /\ db.rows[i].succ # 0 => db.rows[i].tags = {}
BY DEF RowsInv, RowsFit, RowFits

LEMMA PlainFinite ==
  ASSUME NEW tags, tags \subseteq Tags
  PROVE  IsFiniteSet(Plain(tags)) /\ Cardinality(Plain(tags)) \in Nat
<1>1. IsFiniteSet(Tags) /\ Plain(tags) \subseteq Tags
  BY RulesAssumption DEF Plain
<1> QED
  BY <1>1, FS_Subset, FS_CardinalityType

\* Fewer tags are within the budget more tags are within.
LEMMA FewerTags ==
  ASSUME NEW tags, tags \subseteq Tags, NEW fewer, fewer \subseteq tags,
         Cardinality(Plain(tags)) <= MaxTagsPerRow
  PROVE  fewer \subseteq Tags /\ Cardinality(Plain(fewer)) <= MaxTagsPerRow
<1>1. Plain(fewer) \subseteq Plain(tags)
  BY DEF Plain
<1>2. Cardinality(Plain(fewer)) <= Cardinality(Plain(tags))
  BY <1>1, PlainFinite, FS_Subset
<1> DEFINE m == Cardinality(Plain(fewer))
           n == Cardinality(Plain(tags))
<1>3. m \in Nat /\ n \in Nat /\ m <= n /\ n <= MaxTagsPerRow /\ MaxTagsPerRow \in Nat
  <2>1. fewer \subseteq Tags
    OBVIOUS
  <2> QED
    BY <1>2, <2>1, PlainFinite, RulesAssumption
<1> HIDE DEF m, n
<1>4. m <= MaxTagsPerRow
  BY <1>3
<1> QED
  BY <1>4 DEF m

\* What a call may add to a row that is within its budget leaves it there.
LEMMA CappedTags ==
  ASSUME NEW tags, tags \subseteq Tags, NEW adding, adding \subseteq Tags,
         Cardinality(Plain(tags)) <= MaxTagsPerRow, ~CapProblem(tags, adding)
  PROVE  Cardinality(Plain(tags \cup adding)) <= MaxTagsPerRow
<1> DEFINE n == Cardinality(Plain(tags \cup adding))
<1>1. Plain(adding \ tags) = {} \/ ~(n > MaxTagsPerRow)
  BY DEF CapProblem
<1>2. n \in Nat /\ MaxTagsPerRow \in Nat
  BY PlainFinite, RulesAssumption
<1>3. CASE Plain(adding \ tags) = {}
  <2>1. Plain(tags \cup adding) = Plain(tags)
    BY <1>3 DEF Plain
  <2> QED
    BY <2>1
<1>4. CASE ~(n > MaxTagsPerRow)
  <2> HIDE DEF n
  <2>1. n <= MaxTagsPerRow
    BY <1>2, <1>4
  <2> QED
    BY <2>1 DEF n
<1> QED
  BY <1>1, <1>3, <1>4

LEMMA NotMore ==
  ASSUME NEW l \in Nat, NEW top \in Nat, l <= top, NEW m, m = l - 1, NEW n, n = m \/ n = m + 1
  PROVE  n <= top
OBVIOUS

\* A tag renamed, or removed: not one more of the plain ones.
LEMMA RenamedTags ==
  ASSUME NEW tags, tags \subseteq Tags, NEW old \in tags, Namespace[old] = "",
         NEW new \in Tags, Namespace[new] = "", new # old,
         Cardinality(Plain(tags)) <= MaxTagsPerRow
  PROVE  Cardinality(Plain((tags \ {old}) \cup {new})) <= MaxTagsPerRow
<1> DEFINE rest == Plain(tags) \ {old}
           l == Cardinality(Plain(tags))
           m == Cardinality(rest)
           n == Cardinality(rest \cup {new})
<1>1. Plain((tags \ {old}) \cup {new}) = rest \cup {new} /\ old \in Plain(tags)
  BY DEF Plain
<1>2. IsFiniteSet(Plain(tags)) /\ l \in Nat
  BY PlainFinite
<1>3. IsFiniteSet(rest) /\ m = l - 1
  BY <1>1, <1>2, FS_RemoveElement
<1>4. n = IF new \in rest THEN m ELSE m + 1
  BY <1>3, FS_AddElement
<1>5. l <= MaxTagsPerRow /\ MaxTagsPerRow \in Nat
  BY RulesAssumption
<1>7. n = m \/ n = m + 1
  BY <1>4
<1> HIDE DEF l, m, n, rest
<1>8. m = l - 1
  BY <1>3
<1>6. n <= MaxTagsPerRow
  BY <1>2, <1>5, <1>7, <1>8, NotMore
<1> QED
  BY <1>1, <1>6 DEF n, rest

\* A call on rows and rules.
LEMMA RowsRetagged ==
  ASSUME RowsInv, Typed, UNCHANGED <<today, bank, run, issued, hist>>, NEW rows, NEW rules,
         db' = [db EXCEPT !.rows = rows, !.rules = rules],
         DOMAIN rows = DOMAIN db.rows,
         \A i \in DOMAIN db.rows : Retags(db.rows[i], rows[i]),
         \A r \in rules : "tags" \in DOMAIN r /\ r.tags \subseteq Tags
  PROVE  Calm
<1>1. /\ db'.rows = rows /\ db'.rules = rules
      /\ db'.alloc = db.alloc /\ db'.cover = db.cover /\ db'.bals = db.bals /\ db'.acct = db.acct
  BY DEF Typed, DbTyped
<1>2. Retag(db') /\ RulesFit'
  BY <1>1 DEF Retag, RulesFit
<1>3. CallRuns
  BY DEF CallRuns
<1> QED
  BY <1>1, <1>2, <1>3, RetagCalm

LEMMA OtherRules ==
  ASSUME RowsInv, Typed, UNCHANGED <<today, bank, run, issued, hist>>, NEW rules,
         db' = [db EXCEPT !.rules = rules], rules \subseteq db.rules \cup sc.offered
  PROVE  Calm
<1>1. \A x \in rules : "tags" \in DOMAIN x /\ x.tags \subseteq Tags
  BY ScenarioNow DEF RowsInv, RulesFit
<1>2. db' = [db EXCEPT !.rows = db.rows, !.rules = rules]
  BY DEF Typed, DbTyped
<1>3. \A i \in DOMAIN db.rows : Retags(db.rows[i], db.rows[i])
  BY RowNow, SameTags
<1> QED
  BY <1>1, <1>2, <1>3, RowsRetagged

LEMMA RulebookCalm ==
  ASSUME RowsInv, Typed, NEW old, NEW r \in sc.offered, AddRule(r) \/ ReplaceRule(old, r)
  PROVE  Calm
<1>1. UNCHANGED <<today, bank, run, issued, hist>>
  BY DEF AddRule, ReplaceRule
<1>2. CASE AddRule(r)
  <2>1. db' = [db EXCEPT !.rules = db.rules \cup {r}]
    BY <1>2 DEF AddRule
  <2> QED
    BY <1>1, <2>1, OtherRules
<1>3. CASE ReplaceRule(old, r)
  <2>1. db' = [db EXCEPT !.rules = (db.rules \ {old}) \cup {r}]
    BY <1>3 DEF ReplaceRule
  <2> QED
    BY <1>1, <2>1, OtherRules
<1> QED
  BY <1>2, <1>3

LEMMA RemovalCalm ==
  ASSUME RowsInv, Typed, NEW r, RemoveRule(r)
  PROVE  Calm
<1>1. UNCHANGED <<today, bank, run, issued, hist>> /\ db' = [db EXCEPT !.rules = db.rules \ {r}]
  BY DEF RemoveRule
<1> QED
  BY <1>1, OtherRules

LEMMA RulesNow == ASSUME RowsInv PROVE \A x \in db.rules : "tags" \in DOMAIN x /\ x.tags \subseteq Tags
BY DEF RowsInv, RulesFit

LEMMA OnlyRows ==
  ASSUME Typed, NEW rows, db' = [db EXCEPT !.rows = rows]
  PROVE  db' = [db EXCEPT !.rows = rows, !.rules = db.rules]
BY DEF Typed, DbTyped

LEMMA ApplyRulesCalm ==
  ASSUME RowsInv, Typed, ApplyRules
  PROVE  Calm
<1> DEFINE more(i) == TagsByRules(db.rules, Contents[db.rows[i].content], db.rows[i].date,
                                  db.rows[i].tags)
           rows == [i \in DOMAIN db.rows |-> IF db.rows[i].state = "active"
                                             THEN [db.rows[i] EXCEPT !.tags = more(i)]
                                             ELSE db.rows[i]]
<1>1. db' = [db EXCEPT !.rows = rows] /\ UNCHANGED <<today, bank, run, issued, hist>>
  BY DEF ApplyRules
<1>2. ASSUME NEW i \in DOMAIN db.rows PROVE Retags(db.rows[i], rows[i])
  <2>1. CASE db.rows[i].state = "active"
    <3>1. RulesFit
      BY DEF RowsInv
    <3>2. more(i) \subseteq Tags /\ Cardinality(Plain(more(i))) <= MaxTagsPerRow
      BY <3>1, RowNow, RulesKeep
    <3>3. db.rows[i].succ = 0
      BY <2>1, RowNow DEF RowFits
    <3>4. rows[i] = [db.rows[i] EXCEPT !.tags = more(i)]
      BY <2>1
    <3> HIDE DEF more, rows
    <3> QED
      BY <3>2, <3>3, <3>4, RowNow, NewTags
  <2>2. CASE db.rows[i].state # "active"
    BY <2>2, RowNow, SameTags
  <2> QED
    BY <2>1, <2>2
<1>3. DOMAIN rows = DOMAIN db.rows
  OBVIOUS
<1> HIDE DEF rows
<1> QED
  BY <1>1, <1>2, <1>3, OnlyRows, RulesNow, RowsRetagged

\* Other tags on one row.
LEMMA OneRetagged ==
  ASSUME RowsInv, Typed, UNCHANGED <<today, bank, run, issued, hist>>,
         NEW i \in DOMAIN db.rows, NEW tags, tags \subseteq Tags,
         Cardinality(Plain(tags)) <= MaxTagsPerRow, db.rows[i].succ # 0 => tags = {},
         db' = [db EXCEPT !.rows[i].tags = tags]
  PROVE  Calm
<1> DEFINE rows == [db.rows EXCEPT ![i].tags = tags]
<1>1. db' = [db EXCEPT !.rows = rows]
  BY DEF Typed, DbTyped
<1>2. ASSUME NEW j \in DOMAIN db.rows PROVE Retags(db.rows[j], rows[j])
  <2>1. CASE j = i
    <3>1. rows[j] = [db.rows[j] EXCEPT !.tags = tags]
      BY <2>1
    <3> HIDE DEF rows
    <3> QED
      BY <2>1, <3>1, RowNow, NewTags
  <2>2. CASE j # i
    <3>1. rows[j] = db.rows[j]
      BY <2>2
    <3> HIDE DEF rows
    <3> QED
      BY <3>1, RowNow, SameTags
  <2> QED
    BY <2>1, <2>2
<1>3. DOMAIN rows = DOMAIN db.rows
  OBVIOUS
<1> HIDE DEF rows
<1> QED
  BY <1>1, <1>2, <1>3, OnlyRows, RulesNow, RowsRetagged

LEMMA TagCalm ==
  ASSUME RowsInv, Typed, NEW i, NEW tags \in sc.taggings, TagTransaction(i, tags)
  PROVE  Calm
<1>1. /\ i \in DOMAIN db.rows /\ db.rows[i].state # "superseded"
      /\ ~CapProblem(db.rows[i].tags, tags) /\ UNCHANGED <<today, bank, run, issued, hist>>
      /\ db' = [db EXCEPT !.rows[i].tags = db.rows[i].tags \cup tags]
  BY DEF TagTransaction, Annotatable
<1> DEFINE more == db.rows[i].tags \cup tags
<1>2. /\ more \subseteq Tags /\ Cardinality(Plain(more)) <= MaxTagsPerRow
      /\ db.rows[i].succ = 0
  <2>1. tags \subseteq Tags
    BY ScenarioNow
  <2>2. RowFits(db.rows[i]) /\ db.rows[i].tags \subseteq Tags
        /\ Cardinality(Plain(db.rows[i].tags)) <= MaxTagsPerRow
    BY <1>1, RowNow
  <2>3. db.rows[i].succ = 0
    BY <1>1, <2>2 DEF RowFits
  <2> QED
    BY <1>1, <2>1, <2>2, <2>3, CappedTags
<1> HIDE DEF more
<1>3. db' = [db EXCEPT !.rows[i].tags = more]
  BY <1>1 DEF more
<1> QED
  BY <1>1, <1>2, <1>3, OneRetagged

LEMMA UntagCalm ==
  ASSUME RowsInv, Typed, NEW i, NEW tags, UntagTransaction(i, tags)
  PROVE  Calm
<1>1. /\ i \in DOMAIN db.rows /\ UNCHANGED <<today, bank, run, issued, hist>>
      /\ db' = [db EXCEPT !.rows[i].tags = db.rows[i].tags \ tags]
  BY DEF UntagTransaction, Annotatable
<1> DEFINE fewer == db.rows[i].tags \ tags
<1>2. /\ fewer \subseteq Tags /\ Cardinality(Plain(fewer)) <= MaxTagsPerRow
      /\ db.rows[i].succ # 0 => fewer = {}
  <2>1. /\ db.rows[i].tags \subseteq Tags /\ Cardinality(Plain(db.rows[i].tags)) <= MaxTagsPerRow
        /\ db.rows[i].succ # 0 => db.rows[i].tags = {}
    BY <1>1, RowNow
  <2>2. fewer \subseteq db.rows[i].tags
    OBVIOUS
  <2> HIDE DEF fewer
  <2> QED
    BY <2>1, <2>2, FewerTags
<1> HIDE DEF fewer
<1>3. db' = [db EXCEPT !.rows[i].tags = fewer]
  BY <1>1 DEF fewer
<1> QED
  BY <1>1, <1>2, <1>3, OneRetagged

\* A name that becomes another plain one, or none.
Renames(old, new) ==
  \/ new = {}
  \/ Namespace[old] = "" /\ \E t \in Tags : new = {t} /\ t # old /\ Namespace[t] = ""

LEMMA RetaggedRow ==
  ASSUME RowsInv, NEW old, NEW new, Renames(old, new), NEW i \in DOMAIN db.rows
  PROVE  Retags(db.rows[i], Retagged(db.rows, old, new)[i])
<1> DEFINE r == db.rows[i]
           tags == IF old \in r.tags THEN (r.tags \ {old}) \cup new ELSE r.tags
<1>1. Retagged(db.rows, old, new)[i] = [r EXCEPT !.tags = tags]
  BY DEF Retagged
<1>2. /\ RowFits(r) /\ r.tags \subseteq Tags /\ Cardinality(Plain(r.tags)) <= MaxTagsPerRow
      /\ r.succ # 0 => r.tags = {}
  BY RowNow
<1> HIDE DEF r
<1>3. tags \subseteq Tags /\ (r.succ # 0 => tags = {})
  BY <1>2 DEF Renames
<1>4. Cardinality(Plain(tags)) <= MaxTagsPerRow
  <2>1. CASE old \notin r.tags
    BY <1>2, <2>1
  <2>2. CASE old \in r.tags /\ new = {}
    <3>1. tags \subseteq r.tags
      BY <2>2
    <3> HIDE DEF tags
    <3> QED
      BY <1>2, <3>1, FewerTags
  <2>3. CASE old \in r.tags /\ new # {}
    <3>1. PICK t \in Tags : new = {t} /\ t # old /\ Namespace[t] = "" /\ Namespace[old] = ""
      BY <2>3 DEF Renames
    <3>2. tags = (r.tags \ {old}) \cup {t}
      BY <2>3, <3>1
    <3>3. Cardinality(Plain((r.tags \ {old}) \cup {t})) <= MaxTagsPerRow
      BY <1>2, <2>3, <3>1, RenamedTags
    <3> QED
      BY <3>2, <3>3
  <2> QED
    BY <2>1, <2>2, <2>3
<1> HIDE DEF tags
<1>5. Retags(r, Retagged(db.rows, old, new)[i])
  BY <1>1, <1>2, <1>3, <1>4, NewTags
<1> QED
  BY <1>5 DEF r

LEMMA RewrittenRulesFit ==
  ASSUME RowsInv, NEW old, NEW new, new \subseteq Tags, NEW r \in RewrittenRules(db.rules, old, new)
  PROVE  "tags" \in DOMAIN r /\ r.tags \subseteq Tags
<1>1. PICK x \in db.rules :
        r = [x EXCEPT !.tags = IF old \in @ THEN (@ \ {old}) \cup new ELSE @]
  BY DEF RewrittenRules
<1>2. "tags" \in DOMAIN x /\ x.tags \subseteq Tags
  BY RulesNow
<1> QED
  BY <1>1, <1>2

LEMMA RenamesCalm ==
  ASSUME RowsInv, Typed, UNCHANGED <<today, bank, run, issued, hist>>,
         NEW old, NEW new, Renames(old, new),
         db' = [db EXCEPT !.rows = Retagged(@, old, new), !.rules = RewrittenRules(@, old, new)]
  PROVE  Calm
<1> DEFINE rows == Retagged(db.rows, old, new)
           rules == RewrittenRules(db.rules, old, new)
<1>1. db' = [db EXCEPT !.rows = rows, !.rules = rules]
  BY DEF Typed, DbTyped
<1>2. \A i \in DOMAIN db.rows : Retags(db.rows[i], rows[i])
  BY RetaggedRow
<1>3. \A r \in rules : "tags" \in DOMAIN r /\ r.tags \subseteq Tags
  <2>1. new \subseteq Tags
    BY DEF Renames
  <2> QED
    BY <2>1, RewrittenRulesFit
<1>4. DOMAIN rows = DOMAIN db.rows
  BY DEF Retagged
<1> HIDE DEF rows, rules
<1> QED
  BY <1>1, <1>2, <1>3, <1>4, RowsRetagged

LEMMA NameCalm ==
  ASSUME RowsInv, Typed, NEW old \in Tags, NEW new \in Tags,
         RenameTag(old, new) \/ DeleteTag(old)
  PROVE  Calm
<1>1. UNCHANGED <<today, bank, run, issued, hist>>
  BY DEF RenameTag, DeleteTag
<1>2. \E some : /\ Renames(old, some)
                /\ db' = [db EXCEPT !.rows = Retagged(@, old, some),
                                    !.rules = RewrittenRules(@, old, some)]
  <2>1. CASE RenameTag(old, new)
    <3>1. Renames(old, {new})
      BY <2>1 DEF RenameTag, Renames
    <3>2. db' = [db EXCEPT !.rows = Retagged(@, old, {new}),
                           !.rules = RewrittenRules(@, old, {new})]
      BY <2>1 DEF RenameTag
    <3> QED
      BY <3>1, <3>2
  <2>2. CASE DeleteTag(old)
    <3>1. Renames(old, {})
      BY DEF Renames
    <3>2. db' = [db EXCEPT !.rows = Retagged(@, old, {}), !.rules = RewrittenRules(@, old, {})]
      BY <2>2 DEF DeleteTag
    <3> QED
      BY <3>1, <3>2
  <2> QED
    BY <2>1, <2>2
<1> QED
  BY <1>1, <1>2, RenamesCalm

-----------------------------------------------------------------------------
(* Balances and coverage.                                                  *)

\* A step of one run that leaves rows, keys and lives alone.
LEMMA RowsRest ==
  ASSUME RowsInv, Typed, NEW p \in Procs, OthersStay(p), Held(p),
         UNCHANGED <<today, bank, issued, hist>>,
         db'.rows = db.rows, db'.alloc = db.alloc, db'.rules = db.rules, db'.acct = db.acct
  PROVE  /\ BankFits' /\ RulesFit' /\ RowsFit' /\ MarksFit' /\ LivesFit' /\ RunsFit'
         /\ NoLanding /\ Unmoved
<1>1. RulesFit' /\ RowsFit'
  BY DEF RowsInv, RulesFit, RowsFit, RowFits
<1>2. MarksFit' /\ LivesFit'
  BY DEF RowsInv, MarksFit, KeysUnique, SpentPairs, LivesFit, LandedSinceErasure
<1>3. Unmoved
  BY DEF Unmoved
<1>4. BankFits'
  BY ClockKept
<1>5. Grows /\ LivesOn
  BY RunNow DEF Grows, LivesOn
<1>6. \A q \in Procs : Held(q)
  BY Others
<1>7. \A q \in Procs : RunFits(run[q])' /\ ~Landing(q)
  BY <1>5, <1>6, HeldFits, HeldLandsNot
<1> QED
  BY <1>1, <1>2, <1>3, <1>4, <1>7 DEF RunsFit, NoLanding

LEMMA WriteBalancesCalm ==
  ASSUME RowsInv, Typed, NEW p \in Procs, WriteBalances(p)
  PROVE  Calm
<1>1. OthersStay(p) /\ Held(p)
  <2>1. Elsewhere("note") /\ Elsewhere("release")
    BY DEF Elsewhere
  <2>2. Reply(p, "failed", "note") \/ Goto(p, "release")
    BY DEF WriteBalances
  <2> QED
    BY <2>1, <2>2, GotoHeld, ReplyHeld
<1>2. UNCHANGED <<today, bank, issued, hist>>
  BY DEF WriteBalances
<1> DEFINE bals == Reconciled(db.bals, run[p].figures)
<1>3. db' = db \/ db' = [db EXCEPT !.bals = bals]
  BY DEF WriteBalances, Fenced
<1>4. \A t, u \in DOMAIN bals : bals[t] = bals[u]
  BY DEF Reconciled
<1> HIDE DEF bals
<1>5. /\ db'.rows = db.rows /\ db'.alloc = db.alloc /\ db'.rules = db.rules
      /\ db'.acct = db.acct /\ db'.cover = db.cover /\ db'.bals \in {db.bals, bals}
  BY <1>3 DEF Typed, DbTyped
<1>6. BalancesOfOneAnswer'
  <2>1. CASE db'.bals = db.bals
    BY <2>1 DEF RowsInv, BalancesOfOneAnswer
  <2>2. CASE db'.bals = bals
    BY <1>4, <2>2 DEF BalancesOfOneAnswer
  <2> QED
    BY <1>5, <2>1, <2>2
<1>7. CoverFits'
  BY <1>2, <1>5 DEF RowsInv, CoverFits, CoverageProved
<1>8. /\ BankFits' /\ RulesFit' /\ RowsFit' /\ MarksFit' /\ LivesFit' /\ RunsFit'
      /\ NoLanding /\ Unmoved
  BY <1>1, <1>2, <1>5, RowsRest
<1> QED
  BY <1>6, <1>7, <1>8 DEF Calm, RowsInv

\* Intervals of proven days that neither overlap nor touch.
Apart(cover) == \A c, d \in cover : c # d => c[2] < d[1] \/ d[2] < c[1]
Intervals(cover) == \A c \in cover : c \in Int \X Int /\ c[1] < c[2]
Within(cover, proven) == \A c \in cover : c[1] .. c[2] - 1 \subseteq proven

LEMMA CoverIs ==
  CoverFits <=> /\ IsFiniteSet(db.cover) /\ Intervals(db.cover) /\ Apart(db.cover)
                /\ Within(db.cover, hist.proven)
BY DEF CoverFits, CoverageProved, Intervals, Apart, Within

LEMMA LeastOf ==
  ASSUME NEW lo \in Int, NEW S \in SUBSET Int, IsFiniteSet(S)
  PROVE  /\ Min({lo} \cup S) \in Int /\ Min({lo} \cup S) \in {lo} \cup S
         /\ Min({lo} \cup S) <= lo /\ \A x \in S : Min({lo} \cup S) <= x
<1>1. IsFiniteSet({lo} \cup S) /\ {lo} \cup S \in SUBSET Int /\ {lo} \cup S # {}
  BY FS_Singleton, FS_Union
<1> QED
  BY <1>1, Smallest

LEMMA MostOf ==
  ASSUME NEW hi \in Int, NEW S \in SUBSET Int, IsFiniteSet(S)
  PROVE  /\ Max({hi} \cup S) \in Int /\ Max({hi} \cup S) \in {hi} \cup S
         /\ hi <= Max({hi} \cup S) /\ \A x \in S : x <= Max({hi} \cup S)
<1>1. IsFiniteSet({hi} \cup S) /\ {hi} \cup S \in SUBSET Int /\ {hi} \cup S # {}
  BY FS_Singleton, FS_Union
<1> QED
  BY <1>1, Greatest

\* The ends of what an interval absorbs.
Touching(cover, lo, hi) == {c \in cover : c[1] <= hi /\ c[2] >= lo}
OpenAt(cover, lo, hi) == Min({lo} \cup {c[1] : c \in Touching(cover, lo, hi)})
CloseAt(cover, lo, hi) == Max({hi} \cup {c[2] : c \in Touching(cover, lo, hi)})

LEMMA Absorbs ==
  ASSUME NEW cover, IsFiniteSet(cover), Intervals(cover), NEW lo \in Int, NEW hi \in Int
  PROVE  /\ OpenAt(cover, lo, hi) \in Int /\ CloseAt(cover, lo, hi) \in Int
         /\ OpenAt(cover, lo, hi) <= lo /\ hi <= CloseAt(cover, lo, hi)
         /\ \/ OpenAt(cover, lo, hi) = lo
            \/ \E c \in Touching(cover, lo, hi) : OpenAt(cover, lo, hi) = c[1]
         /\ \/ CloseAt(cover, lo, hi) = hi
            \/ \E c \in Touching(cover, lo, hi) : CloseAt(cover, lo, hi) = c[2]
<1> DEFINE touching == Touching(cover, lo, hi)
           a == Min({lo} \cup {c[1] : c \in touching})
           b == Max({hi} \cup {c[2] : c \in touching})
<1>0. /\ touching = {c \in cover : c[1] <= hi /\ c[2] >= lo}
      /\ OpenAt(cover, lo, hi) = a /\ CloseAt(cover, lo, hi) = b
  BY DEF Touching, OpenAt, CloseAt
<1> HIDE DEF touching
<1>1. IsFiniteSet(touching) /\ touching \subseteq cover
  BY <1>0, FS_Subset
<1> DEFINE first == [c \in touching |-> c[1]]
           last == [c \in touching |-> c[2]]
           firsts == {first[c] : c \in touching}
           lasts == {last[c] : c \in touching}
<1>2. {c[1] : c \in touching} = firsts /\ {c[2] : c \in touching} = lasts
  OBVIOUS
<1>3. \A c \in touching : first[c] = c[1] /\ last[c] = c[2] /\ c[1] \in Int /\ c[2] \in Int
  BY <1>1 DEF Intervals
<1> HIDE DEF first, last
<1>4. IsFiniteSet(firsts) /\ IsFiniteSet(lasts)
  BY <1>1, ImageFinite
<1>5. firsts \in SUBSET Int /\ lasts \in SUBSET Int
  BY <1>3
<1>6. /\ \A x \in firsts : \E c \in touching : x = c[1]
      /\ \A x \in lasts : \E c \in touching : x = c[2]
  BY <1>3
<1> HIDE DEF firsts, lasts
<1>7. a \in Int /\ a \in {lo} \cup firsts /\ a <= lo
  BY <1>2, <1>4, <1>5, LeastOf
<1>8. b \in Int /\ b \in {hi} \cup lasts /\ hi <= b
  BY <1>2, <1>4, <1>5, MostOf
<1> HIDE DEF a, b
<1> QED
  BY <1>0, <1>6, <1>7, <1>8 DEF touching


\* The merge of coverage keeps its intervals apart and within what was proven.
LEMMA Merges ==
  ASSUME NEW cover, IsFiniteSet(cover), Intervals(cover), Apart(cover),
         NEW proven, Within(cover, proven), NEW lo \in Int, NEW hi \in Int, lo < hi,
         lo .. hi - 1 \subseteq proven, NEW new, new = MergedCoverage(cover, lo, hi)
  PROVE  IsFiniteSet(new) /\ Intervals(new) /\ Apart(new) /\ Within(new, proven)
<1> DEFINE touching == Touching(cover, lo, hi)
           a == OpenAt(cover, lo, hi)
           b == CloseAt(cover, lo, hi)
           other == cover \ touching
           joined == <<a, b>>
<1>1. new = other \cup {joined}
  BY DEF MergedCoverage, Touching, OpenAt, CloseAt
<1>2. /\ a \in Int /\ b \in Int /\ a <= lo /\ hi <= b
      /\ a = lo \/ \E c \in touching : a = c[1]
      /\ b = hi \/ \E c \in touching : b = c[2]
  BY Absorbs
<1>3. /\ \A c \in touching : c \in cover /\ c[1] <= hi /\ c[2] >= lo
      /\ \A c \in other : c \in cover /\ (hi < c[1] \/ c[2] < lo)
      /\ \A c \in cover : c[1] \in Int /\ c[2] \in Int /\ c[1] < c[2]
  BY DEF Intervals, Touching
<1>4. IsFiniteSet(new)
  <2>1. IsFiniteSet(other)
    BY FS_Difference
  <2> HIDE DEF other, joined
  <2> QED
    BY <1>1, <2>1, FS_AddElement
<1> HIDE DEF other, touching, a, b
<1>5. Intervals(new)
  <2>1. a < b
    BY <1>2
  <2>2. ASSUME NEW c \in new PROVE c \in Int \X Int /\ c[1] < c[2]
    <3>1. CASE c \in other
      BY <1>3, <3>1 DEF Intervals
    <3>2. CASE c = <<a, b>>
      BY <1>2, <2>1, <3>2
    <3> QED
      BY <1>1, <3>1, <3>2
  <2> QED
    BY <2>2 DEF Intervals
<1>6. ASSUME NEW c \in other PROVE c[2] < a \/ b < c[1]
  <2>1. c \in cover /\ c[1] \in Int /\ c[2] \in Int /\ c[1] < c[2]
    BY <1>3
  <2>2. CASE hi < c[1]
    <3>1. CASE b = hi
      BY <2>2, <3>1
    <3>2. CASE \E e \in touching : b = e[2]
      <4> PICK e \in touching : b = e[2]
        BY <3>2
      <4>1. e \in cover /\ e[1] <= hi /\ e[1] \in Int /\ e[2] \in Int /\ e # c
        BY <1>3, <2>1, <2>2
      <4>2. e[2] < c[1] \/ c[2] < e[1]
        BY <2>1, <4>1 DEF Apart
      <4> QED
        BY <2>1, <2>2, <4>1, <4>2
    <3> QED
      BY <1>2, <3>1, <3>2
  <2>3. CASE c[2] < lo
    <3>1. CASE a = lo
      BY <2>3, <3>1
    <3>2. CASE \E e \in touching : a = e[1]
      <4> PICK e \in touching : a = e[1]
        BY <3>2
      <4>1. e \in cover /\ e[2] >= lo /\ e[1] \in Int /\ e[2] \in Int /\ e # c
        BY <1>3, <2>1, <2>3
      <4>2. e[2] < c[1] \/ c[2] < e[1]
        BY <2>1, <4>1 DEF Apart
      <4> QED
        BY <2>1, <2>3, <4>1, <4>2
    <3> QED
      BY <1>2, <3>1, <3>2
  <2> QED
    BY <1>3, <2>2, <2>3
<1>7. Apart(new)
  <2> SUFFICES ASSUME NEW c \in new, NEW d \in new, c # d PROVE c[2] < d[1] \/ d[2] < c[1]
    BY DEF Apart
  <2>1. CASE c \in other /\ d \in other
    BY <1>3, <2>1 DEF Apart
  <2>2. CASE c \in other /\ d = <<a, b>>
    BY <1>6, <2>2
  <2>3. CASE c = <<a, b>> /\ d \in other
    BY <1>6, <2>3
  <2> QED
    BY <1>1, <2>1, <2>2, <2>3
<1>8. Within(new, proven)
  <2>1. ASSUME NEW x \in a .. b - 1 PROVE x \in proven
    <3>1. x \in Int /\ a <= x /\ x < b
      BY <1>2
    <3>2. CASE x < lo
      <4> PICK e \in touching : a = e[1]
        BY <1>2, <3>1, <3>2
      <4>1. e \in cover /\ e[1] \in Int /\ e[2] \in Int /\ e[2] >= lo
        BY <1>3
      <4>2. x \in e[1] .. e[2] - 1
        BY <3>1, <3>2, <4>1
      <4> QED
        BY <4>1, <4>2 DEF Within
    <3>3. CASE lo <= x /\ x < hi
      BY <3>1, <3>3
    <3>4. CASE hi <= x
      <4> PICK e \in touching : b = e[2]
        BY <1>2, <3>1, <3>4
      <4>1. e \in cover /\ e[1] \in Int /\ e[2] \in Int /\ e[1] <= hi
        BY <1>3
      <4>2. x \in e[1] .. e[2] - 1
        BY <3>1, <3>4, <4>1
      <4> QED
        BY <4>1, <4>2 DEF Within
    <3> QED
      BY <3>1, <3>2, <3>3, <3>4
  <2> QED
    BY <1>1, <1>3, <2>1 DEF Within
<1> QED
  BY <1>4, <1>5, <1>7, <1>8

LEMMA ProvedFromInt ==
  ASSUME NEW r, r.page \in Seq(Pays), r.page # <<>>, r.from \in Int
  PROVE  ProvedFrom(r) \in Int
<1> DEFINE date == [k \in DOMAIN r.page |-> r.page[k].date]
           dates == {date[k] : k \in DOMAIN r.page}
<1>1. /\ Len(r.page) \in Nat /\ DOMAIN r.page = 1 .. Len(r.page) /\ Len(r.page) # 0
      /\ \A k \in DOMAIN r.page : r.page[k] \in Pays
  OBVIOUS
<1>2. {r.page[k].date : k \in DOMAIN r.page} = dates
  OBVIOUS
<1>3. \A k \in DOMAIN r.page : date[k] \in Int
  BY <1>1 DEF Pays
<1>4. IsFiniteSet(DOMAIN r.page) /\ 1 \in DOMAIN r.page
  BY <1>1, FS_Interval
<1>5. date[1] \in dates
  BY <1>4
<1> HIDE DEF date
<1>6. IsFiniteSet(dates) /\ dates \subseteq Int /\ dates # {}
  BY <1>3, <1>4, <1>5, ImageFinite
<1> HIDE DEF dates
<1>7. Min(dates) \in Int
  BY <1>6, Smallest
<1>8. Max({r.from, Min(dates)}) \in Int
  BY <1>7, MaxOfTwo
<1> QED
  BY <1>2, <1>8 DEF ProvedFrom

LEMMA RecordCoverageCalm ==
  ASSUME RowsInv, Typed, NEW p \in Procs, RecordCoverage(p)
  PROVE  Calm
<1> DEFINE r == run[p]
           lo == ProvedFrom(r)
           merged == MergedCoverage(db.cover, lo, r.end)
<1>1. run[p].pc = "cover" /\ UNCHANGED <<sc, today, bank, issued, left, hist>>
  BY DEF RecordCoverage
<1>2. OthersStay(p) /\ Held(p)
  <2>1. Elsewhere("finish") /\ Elsewhere(AfterError(p)) /\ Elsewhere(AfterFetch(p))
    BY AfterElsewhere DEF Elsewhere
  <2>2. \/ Reply(p, "failed", AfterError(p))
        \/ Goto(p, AfterFetch(p)) \/ Goto(p, "finish")
    BY DEF RecordCoverage
  <2> QED
    BY <2>1, <2>2, GotoHeld, ReplyHeld
<1>3. CASE db' = db
  BY <1>1, <1>2, <1>3, DbItself, RunRests
<1>4. CASE /\ run[p].page # <<>> /\ ~(lo >= r.end) /\ Lives(p)
           /\ db' = [db EXCEPT !.cover = merged]
  <2>1. RunFits(run[p])
    BY DEF RowsInv, RunsFit
  <2>2. lo \in Int /\ r.end \in Int
    BY <1>4, <2>1, ProvedFromInt DEF RunFits
  <2>3. lo < r.end
    BY <1>4, <2>2
  <2>4. lo .. r.end - 1 \subseteq hist.proven
    BY <1>1, <1>4, <2>1 DEF RunFits, Lives, Current, ProvedDays
  <2>5. CoverFits
    BY DEF RowsInv
  <2>6. /\ db'.cover = merged /\ db'.rows = db.rows /\ db'.alloc = db.alloc
        /\ db'.rules = db.rules /\ db'.acct = db.acct /\ db'.bals = db.bals
    BY <1>4 DEF Typed, DbTyped
  <2>7. /\ BankFits' /\ RulesFit' /\ RowsFit' /\ MarksFit' /\ LivesFit' /\ RunsFit'
        /\ NoLanding /\ Unmoved
    BY <1>1, <1>2, <2>6, RowsRest
  <2>8. IsFiniteSet(merged) /\ Intervals(merged) /\ Apart(merged) /\ Within(merged, hist.proven)
    <3> HIDE DEF lo
    <3> QED
      BY <2>2, <2>3, <2>4, <2>5, CoverIs, Merges
  <2>9. CoverFits'
    BY <1>1, <2>6, <2>8 DEF CoverFits, CoverageProved, Intervals, Apart, Within
  <2>10. BalancesOfOneAnswer'
    BY <2>6 DEF RowsInv, BalancesOfOneAnswer
  <2> QED
    BY <2>7, <2>9, <2>10 DEF Calm, RowsInv
<1> QED
  BY <1>3, <1>4 DEF RecordCoverage, Fenced

-----------------------------------------------------------------------------
(* Lives that begin and end.                                               *)

\* The state of a run that is bound for its window with a life of its own.
LEMMA LinkBindCalm ==
  ASSUME RowsInv, Typed, NEW p \in Procs, LinkBind(p)
  PROVE  Calm
<1>1. run[p].pc = "binding" /\ UNCHANGED <<today, bank, hist>>
  BY DEF LinkBind
<1>2. CASE run[p].life # 0 /\ Lives(p)
  <2>1. /\ db' = [db EXCEPT !.acct.session = run[p].session]
        /\ Goto(p, "preempt") /\ UNCHANGED issued
    BY <1>2 DEF LinkBind
  <2>2. RowsStay(db')
    BY <2>1, SessionField
  <2>3. OthersStay(p) /\ Held(p)
    BY <2>1, GotoHeld DEF Elsewhere
  <2> QED
    BY <1>1, <2>1, <2>2, <2>3, RunRests
<1>3. CASE run[p].life = 0 /\ ~db.acct.live
  <2> DEFINE n == issued.life + 1
  <2>1. /\ issued' = [issued EXCEPT !.life = n]
        /\ db' = [db EXCEPT !.acct = [live |-> TRUE, life |-> n, session |-> run[p].session]]
        /\ run' = [run EXCEPT ![p].life = n, ![p].pc = "preempt"]
    BY <1>3 DEF LinkBind
  <2>2. /\ issued.life \in Nat /\ issued.row \in Nat /\ issued.tick \in Nat
        /\ db.acct.life \in 0 .. issued.life /\ RunFits(run[p]) /\ DOMAIN run[p] = Runs
    BY RunNow
  <2>3. n \in Nat /\ n > issued.life
    BY <2>2
  <2> HIDE DEF n
  <2>4. /\ issued'.life = n /\ issued'.row = issued.row /\ issued'.tick = issued.tick
        /\ db'.acct.live /\ db'.acct.life = n
        /\ db'.rows = db.rows /\ db'.alloc = db.alloc /\ db'.rules = db.rules
        /\ db'.cover = db.cover /\ db'.bals = db.bals
    BY <2>1 DEF Typed, DbTyped, IssuedTyped
  <2>5. Grows /\ LivesOn
    BY <2>2, <2>3, <2>4 DEF Grows, LivesOn
  <2>6. /\ OthersStay(p) /\ run'[p].page = run[p].page /\ run'[p].from = run[p].from
        /\ run'[p].end = run[p].end /\ run'[p].started = run[p].started
        /\ run'[p].life = n /\ run'[p].pc = "preempt"
    BY <2>1, <2>2 DEF OthersStay, Typed, Runs
  <2>7. RunFits(run[p])' /\ ~Landing(p)
    <3>1. /\ run'[p].page \in Seq(Pays) /\ run'[p].from \in Int /\ run'[p].end \in Int
          /\ run'[p].life \in 0 .. issued'.life /\ run'[p].started <= issued'.tick
          /\ run'[p].pc \notin {"measure", "apply", "cover"}
      BY <2>2, <2>3, <2>4, <2>6 DEF RunFits
    <3> QED
      BY <3>1, FreshFits
  <2>8. ASSUME NEW q \in Procs PROVE RunFits(run[q])' /\ ~Landing(q)
    <3>1. CASE q # p
      BY <2>5, <2>6, <3>1, Others, HeldFits, HeldLandsNot
    <3> QED
      BY <2>7, <3>1
  <2>9. RunsFit' /\ NoLanding
    BY <2>8 DEF RunsFit, NoLanding
  <2>10. RulesFit' /\ RowsFit' /\ BankFits'
    BY <1>1, <2>2, <2>4 DEF RowsInv, RulesFit, RowsFit, RowFits, BankFits
  <2>11. MarksFit'
    BY <1>1, <2>4 DEF RowsInv, MarksFit, KeysUnique, SpentPairs
  <2>12. LivesFit'
    <3>1. hist.floor \in 0 .. issued.life + 1 /\ LandedSinceErasure
      BY DEF RowsInv, LivesFit
    <3>2. hist.floor <= n /\ hist.floor \in 0 .. n + 1
      BY <2>2, <2>3, <3>1 DEF n
    <3>3. LandedSinceErasure'
      BY <1>1, <2>4, <3>1 DEF LandedSinceErasure
    <3> QED
      BY <1>1, <2>3, <2>4, <3>2, <3>3 DEF LivesFit
  <2>13. CoverFits' /\ BalancesOfOneAnswer'
    BY <1>1, <2>4 DEF RowsInv, CoverFits, CoverageProved, BalancesOfOneAnswer
  <2>14. Unmoved
    BY <2>4 DEF Unmoved
  <2> QED
    BY <2>9, <2>10, <2>11, <2>12, <2>13, <2>14 DEF Calm, RowsInv
<1>4. CASE run' = [run EXCEPT ![p] = Idle] /\ UNCHANGED <<db, issued>>
  BY <1>1, <1>4, StopHeld, DbItself, RunRests
<1> QED
  BY <1>2, <1>3, <1>4 DEF LinkBind

\* Nothing on record is left of the runs but themselves.
LEMMA AllWait ==
  ASSUME RowsInv, Typed, run' = run, Grows, LivesOn
  PROVE  RunsFit' /\ NoLanding
<1>1. \A q \in Procs : RunFits(run[q])' /\ ~Landing(q)
  BY NobodyMoves, HeldFits, HeldLandsNot
<1> QED
  BY <1>1 DEF RunsFit, NoLanding

\* A ledger without rows.
LEMMA Emptied ==
  ASSUME RowsInv, Typed, UNCHANGED <<today, bank, run>>, Grows, LivesOn, LivesFit',
         db'.rows = NoRows, db'.alloc = NoAlloc, db'.cover = {}, db'.bals = NoRows,
         db'.rules = db.rules \/ db'.rules = {}, hist'.spent = {}
  PROVE  Calm
<1>1. DOMAIN db'.rows = {} /\ DOMAIN db'.bals = {}
  BY DEF NoRows
<1>2. RunsFit' /\ NoLanding
  BY AllWait
<1>3. RowsFit' /\ RulesFit' /\ BankFits'
  BY <1>1 DEF RowsFit, Grows, RulesFit, RowsInv, BankFits
<1>4. MarksFit'
  <2>1. db'.alloc \in [Idents -> Nat]
    BY DEF NoAlloc
  <2> QED
    BY <1>1, <2>1 DEF MarksFit, KeysUnique, SpentPairs
<1>5. CoverFits' /\ BalancesOfOneAnswer'
  <2>1. IsFiniteSet({})
    BY FS_EmptySet
  <2> QED
    BY <1>1, <2>1 DEF CoverFits, CoverageProved, BalancesOfOneAnswer
<1>6. Unmoved
  BY <1>1 DEF Unmoved
<1> QED
  BY <1>2, <1>3, <1>4, <1>5, <1>6 DEF Calm, RowsInv

LEMMA PurgeAllCalm ==
  ASSUME RowsInv, Typed, NEW erase, PurgeAll(erase)
  PROVE  Calm
<1> DEFINE n == issued.life + 1
           life == IF db.acct.live THEN n ELSE db.acct.life
           sync == IF db.acct.live THEN [db.sync EXCEPT !.row = TRUE, !.comp = "partial",
                                                       !.session = 0] ELSE db.sync
           rules == IF erase THEN {} ELSE db.rules
           d == [db EXCEPT !.rows = NoRows, !.cover = {}, !.alloc = NoAlloc, !.bals = NoRows,
                           !.sync = sync, !.rules = rules]
<1>1. /\ db' = [d EXCEPT !.acct.life = IF d.acct.live THEN n ELSE @]
      /\ issued' = [issued EXCEPT !.life = n]
      /\ hist' = [hist EXCEPT !.proven = {}, !.spent = {}, !.floor = n]
      /\ UNCHANGED <<today, bank, run>>
  BY DEF PurgeAll, Relived, NewLife
<1>2. /\ issued.life \in Nat /\ issued.row \in Nat /\ issued.tick \in Nat
      /\ db.acct.life \in 0 .. issued.life
  BY DEF RowsInv, RowsFit, LivesFit, Typed, IssuedTyped
<1>3. rules \in {db.rules, {}}
  OBVIOUS
<1>4. n \in Nat /\ n > issued.life
  BY <1>2
<1> HIDE DEF sync, rules, n
<1>5. /\ DOMAIN d = DOMAIN db /\ d.acct = db.acct
      /\ d.rows = NoRows /\ d.alloc = NoAlloc /\ d.cover = {} /\ d.bals = NoRows /\ d.rules = rules
  BY DEF Typed, DbTyped
<1> HIDE DEF d
<1>6. /\ db'.acct.live = db.acct.live /\ db'.acct.life = life
      /\ db'.rows = NoRows /\ db'.alloc = NoAlloc /\ db'.cover = {} /\ db'.bals = NoRows
      /\ db'.rules = rules
  BY <1>1, <1>5 DEF Typed, DbTyped, AcctTyped
<1>7. /\ issued'.life = n /\ issued'.row = issued.row /\ issued'.tick = issued.tick
      /\ hist'.spent = {} /\ hist'.floor = n
  BY <1>1 DEF Typed, IssuedTyped, HistTyped
<1>8. Grows /\ LivesOn
  BY <1>2, <1>4, <1>6, <1>7 DEF Grows, LivesOn
<1>9. LivesFit'
  <2>1. LandedSinceErasure'
    BY <1>6 DEF LandedSinceErasure, NoRows
  <2> QED
    BY <1>2, <1>4, <1>6, <1>7, <2>1 DEF LivesFit
<1> QED
  BY <1>1, <1>3, <1>6, <1>7, <1>8, <1>9, Emptied

LEMMA ForgetCalm ==
  ASSUME RowsInv, Typed, ForgetLocalAccount
  PROVE  Calm
<1> DEFINE n == issued.life + 1
           gone == [NoAccount EXCEPT !.life = db.acct.life]
           okAt == [session |-> 0, started |-> 0]
<1>1. /\ db' = [db EXCEPT !.acct = gone, !.rows = NoRows,
               !.alloc = NoAlloc, !.bals = NoRows, !.cover = {}, !.sync = NoSync,
               !.evid = NoEvidence, !.health = NoHealth]
      /\ hist' = [hist EXCEPT !.proven = {}, !.spent = {}, !.floor = n, !.okAt = okAt]
      /\ UNCHANGED <<today, bank, run, issued>>
  BY DEF ForgetLocalAccount
<1>2. /\ issued.life \in Nat /\ issued.row \in Nat /\ issued.tick \in Nat
      /\ db.acct.life \in 0 .. issued.life
  BY DEF RowsInv, RowsFit, LivesFit, Typed, IssuedTyped
<1>3. ~gone.live /\ gone.life = db.acct.life
  BY DEF NoAccount
<1> HIDE DEF gone, okAt
<1>6. /\ ~db'.acct.live /\ db'.acct.life = db.acct.life
      /\ db'.rows = NoRows /\ db'.alloc = NoAlloc /\ db'.cover = {} /\ db'.bals = NoRows
      /\ db'.rules = db.rules
  BY <1>1, <1>3 DEF Typed, DbTyped
<1>7. hist'.spent = {} /\ hist'.floor = n
  <2> HIDE DEF n
  <2> QED
    BY <1>1 DEF Typed, HistTyped
<1>8. Grows /\ LivesOn
  BY <1>1, <1>2, <1>6 DEF Grows, LivesOn
<1>9. LivesFit'
  <2>1. LandedSinceErasure'
    BY <1>6 DEF LandedSinceErasure, NoRows
  <2> QED
    BY <1>1, <1>2, <1>6, <1>7, <2>1 DEF LivesFit
<1> QED
  BY <1>1, <1>6, <1>7, <1>8, <1>9, Emptied

Joined(S) == {i \in DOMAIN db.rows : \/ db.rows[i].succ \in S
                                    \/ \E j \in S : db.rows[j].succ = i}

\* A purge keeps the successor of every row it keeps.
LEMMA ChainsKept ==
  ASSUME RowsFit, NEW before, before \subseteq DOMAIN db.rows,
         NEW doomed, doomed = before \ ChainMembersKept(before),
         NEW i \in DOMAIN db.rows \ doomed, db.rows[i].succ # 0
  PROVE  db.rows[i].succ \in DOMAIN db.rows \ doomed
<1> DEFINE closed == {S \in SUBSET DOMAIN db.rows :
                        DOMAIN db.rows \ before \subseteq S /\ Joined(S) \subseteq S}
           j == db.rows[i].succ
<1>1. ChainMembersKept(before) = {k \in before : \A S \in closed : k \in S}
  BY DEF ChainMembersKept, Joined
<1>2. j \in DOMAIN db.rows
  BY DEF RowsFit
<1>3. ASSUME NEW S \in closed PROVE j \in S
  <2>1. DOMAIN db.rows \ before \subseteq S /\ Joined(S) \subseteq S
    OBVIOUS
  <2>2. i \in S
    BY <1>1, <2>1
  <2>3. j \in Joined(S)
    BY <1>2, <2>2 DEF Joined
  <2> QED
    BY <2>1, <2>3
<1> HIDE DEF closed, j
<1> QED
  BY <1>1, <1>2, <1>3 DEF j

LEMMA Trims ==
  ASSUME NEW cover, IsFiniteSet(cover), Intervals(cover), Apart(cover),
         NEW proven, Within(cover, proven), NEW cut \in Int,
         NEW new, new = TrimmedCoverage(cover, cut)
  PROVE  /\ IsFiniteSet(new) /\ Intervals(new) /\ Apart(new)
         /\ Within(new, {d \in proven : d >= cut})
<1> DEFINE after == {x \in cover : x[2] > cut}
           start == [c \in after |-> Max({c[1], cut})]
           trimmed == [c \in after |-> <<start[c], c[2]>>]
<1>1. new = {trimmed[c] : c \in after}
  BY DEF TrimmedCoverage
<1>2. /\ IsFiniteSet(after) /\ after \subseteq cover /\ \A c \in after : c[2] > cut
      /\ \A c \in after : c[1] \in Int /\ c[2] \in Int /\ c[1] < c[2]
  BY FS_Subset DEF Intervals
<1>3. ASSUME NEW c \in after
      PROVE  start[c] \in Int /\ c[1] <= start[c] /\ cut <= start[c] /\ start[c] < c[2]
  <2>1. /\ Max({c[1], cut}) \in {c[1], cut} /\ c[1] <= Max({c[1], cut})
        /\ cut <= Max({c[1], cut})
    BY <1>2, MaxOfTwo
  <2>2. start[c] = Max({c[1], cut})
    OBVIOUS
  <2> HIDE DEF start
  <2> QED
    BY <1>2, <2>1, <2>2
<1>4. \A c \in after : trimmed[c] = <<start[c], c[2]>>
  OBVIOUS
<1> HIDE DEF trimmed, after, start
<1>5. IsFiniteSet(new)
  BY <1>1, <1>2, ImageFinite
<1>6. ASSUME NEW e \in new
      PROVE  \E c \in after : e = <<start[c], c[2]>>
  BY <1>1, <1>4
<1>7. Intervals(new)
  BY <1>2, <1>3, <1>6 DEF Intervals
<1>8. Apart(new)
  <2> SUFFICES ASSUME NEW e \in new, NEW f \in new, e # f PROVE e[2] < f[1] \/ f[2] < e[1]
    BY DEF Apart
  <2>1. PICK c \in after : e = <<start[c], c[2]>>
    BY <1>6
  <2>2. PICK d \in after : f = <<start[d], d[2]>>
    BY <1>6
  <2>3. c # d
    BY <2>1, <2>2
  <2>4. c[2] < d[1] \/ d[2] < c[1]
    BY <1>2, <2>3 DEF Apart
  <2>5. start[c] \in Int /\ c[1] <= start[c] /\ start[d] \in Int /\ d[1] <= start[d]
    BY <1>3
  <2>6. c[2] < start[d] \/ d[2] < start[c]
    BY <1>2, <2>4, <2>5
  <2> QED
    BY <2>1, <2>2, <2>6
<1>9. Within(new, {d \in proven : d >= cut})
  <2>1. ASSUME NEW e \in new, NEW x \in e[1] .. e[2] - 1 PROVE x \in proven /\ x >= cut
    <3>1. PICK c \in after : e = <<start[c], c[2]>>
      BY <1>6
    <3>2. x \in start[c] .. c[2] - 1
      BY <3>1
    <3>3. start[c] \in Int /\ c[1] <= start[c] /\ cut <= start[c] /\ c[1] \in Int /\ c[2] \in Int
      BY <1>2, <1>3
    <3>4. x \in c[1] .. c[2] - 1 /\ x >= cut
      BY <3>2, <3>3
    <3> QED
      BY <1>2, <3>4 DEF Within
  <2> QED
    BY <2>1 DEF Within
<1> QED
  BY <1>5, <1>7, <1>8, <1>9

\* Row s is r, bare or with its tags.
Spared(r, s) ==
  /\ DOMAIN s = RowFields /\ s.tags \in {r.tags, {}}
  /\ \A x \in RowFields \ {"tags"} : s[x] = r[x]

LEMMA SparedFits ==
  ASSUME NEW r, RowFits(r), NEW s, Spared(r, s)
  PROVE  RowFits(s)
<1>1. /\ s.content = r.content /\ s.date = r.date /\ s.ref = r.ref /\ s.status = r.status
      /\ s.state = r.state /\ s.succ = r.succ /\ s.ident = r.ident /\ s.occ = r.occ
      /\ s.why = r.why /\ s.by = r.by /\ s.tags \in {r.tags, {}}
  BY DEF Spared, RowFields
<1>2. {} \subseteq r.tags /\ r.tags \subseteq Tags /\ Cardinality(Plain(r.tags)) <= MaxTagsPerRow
  BY DEF RowFits
<1>3. s.tags \subseteq Tags /\ Cardinality(Plain(s.tags)) <= MaxTagsPerRow
  BY <1>1, <1>2, FewerTags
<1> QED
  BY <1>1, <1>3 DEF RowFits, Spared

LEMMA PurgeBeforeCalm ==
  ASSUME RowsInv, Typed, NEW cut \in Int, NEW erase \in BOOLEAN, PurgeBefore(cut, erase)
  PROVE  Calm
<1> DEFINE n == issued.life + 1
           before == {i \in DOMAIN db.rows : db.rows[i].date < cut}
           doomed == before \ ChainMembersKept(before)
           rows == Drop(db.rows, doomed)
           new == IF erase THEN [i \in DOMAIN rows |-> [rows[i] EXCEPT !.tags = {}]] ELSE rows
           cover == TrimmedCoverage(db.cover, cut)
           rules == IF erase THEN {} ELSE db.rules
           proven == {x \in hist.proven : x >= cut}
           d == [db EXCEPT !.rows = new, !.cover = cover, !.rules = rules]
<1>1. /\ db' = [d EXCEPT !.acct.life = IF d.acct.live THEN n ELSE @]
      /\ issued' = [issued EXCEPT !.life = n]
      /\ hist' = [hist EXCEPT !.proven = proven]
      /\ UNCHANGED <<today, bank, run>>
  BY DEF PurgeBefore, Relived, NewLife
<1>2. /\ issued.life \in Nat /\ issued.row \in Nat /\ issued.tick \in Nat
      /\ db.acct.life \in 0 .. issued.life /\ hist.floor \in 0 .. issued.life + 1
      /\ LandedSinceErasure /\ (db.acct.live => hist.floor <= db.acct.life) /\ RowsFit
  BY DEF RowsInv, RowsFit, LivesFit, Typed, IssuedTyped
<1>3. rules \in {db.rules, {}}
  OBVIOUS
<1>4. n \in Nat /\ n > issued.life /\ n + 1 > n
  BY <1>2
<1>5. before \subseteq DOMAIN db.rows /\ doomed = before \ ChainMembersKept(before)
  OBVIOUS
<1>6. /\ DOMAIN rows = DOMAIN db.rows \ doomed
      /\ \A i \in DOMAIN rows : rows[i] = db.rows[i]
  BY DEF Drop
<1> HIDE DEF before, doomed, rows, rules, n, cover, proven
<1>7. /\ DOMAIN new = DOMAIN db.rows \ doomed
      /\ \A i \in DOMAIN new : Spared(db.rows[i], new[i])
  <2>1. \A i \in DOMAIN db.rows : DOMAIN db.rows[i] = RowFields
    BY <1>2 DEF RowsFit, RowFits
  <2>2. CASE erase
    BY <1>6, <2>1, <2>2 DEF Spared, RowFields
  <2>3. CASE ~erase
    BY <1>6, <2>1, <2>3 DEF Spared
  <2> QED
    BY <2>2, <2>3
<1> HIDE DEF new
<1>8. /\ d.acct = db.acct /\ d.rows = new /\ d.alloc = db.alloc /\ d.cover = cover
      /\ d.bals = db.bals /\ d.rules = rules /\ DOMAIN d = DOMAIN db
  BY DEF Typed, DbTyped
<1> HIDE DEF d
<1>9. /\ db'.acct.live = db.acct.live
      /\ db'.acct.life = (IF db.acct.live THEN n ELSE db.acct.life)
      /\ db'.rows = new /\ db'.alloc = db.alloc /\ db'.cover = cover /\ db'.bals = db.bals
      /\ db'.rules = rules
  BY <1>1, <1>8 DEF Typed, DbTyped, AcctTyped
<1>10. /\ issued'.life = n /\ issued'.row = issued.row /\ issued'.tick = issued.tick
       /\ hist'.spent = hist.spent /\ hist'.floor = hist.floor /\ hist'.proven = proven
  BY <1>1 DEF Typed, IssuedTyped, HistTyped
<1>11. Grows /\ LivesOn
  BY <1>2, <1>4, <1>9, <1>10 DEF Grows, LivesOn
<1>12. RunsFit' /\ NoLanding
  BY <1>1, <1>11, AllWait
<1>13. ASSUME NEW i \in DOMAIN new
       PROVE  /\ i \in DOMAIN db.rows /\ RowFits(new[i]) /\ new[i].succ = db.rows[i].succ
              /\ new[i].ident = db.rows[i].ident /\ new[i].occ = db.rows[i].occ
              /\ new[i].why = db.rows[i].why /\ new[i].by = db.rows[i].by
              /\ new[i].succ \in {0} \cup DOMAIN new
  <2>1. i \in DOMAIN db.rows \ doomed /\ RowFits(db.rows[i]) /\ Spared(db.rows[i], new[i])
    BY <1>2, <1>7 DEF RowsFit
  <2>2. RowFits(new[i])
    BY <2>1, SparedFits
  <2>3. db.rows[i].succ # 0 => db.rows[i].succ \in DOMAIN db.rows \ doomed
    BY <1>2, <1>5, <2>1, ChainsKept
  <2>4. /\ new[i].succ = db.rows[i].succ /\ new[i].ident = db.rows[i].ident
        /\ new[i].occ = db.rows[i].occ /\ new[i].why = db.rows[i].why /\ new[i].by = db.rows[i].by
    BY <2>1 DEF Spared, RowFields
  <2> QED
    BY <1>7, <2>1, <2>2, <2>3, <2>4
<1>14. RowsFit'
  <2>1. DOMAIN new \subseteq 1 .. issued.row
    BY <1>2, <1>7 DEF RowsFit
  <2>2. \A i \in DOMAIN db'.rows : RowFits(db'.rows[i]) /\ db'.rows[i].succ \in {0} \cup DOMAIN db'.rows
    BY <1>9, <1>13
  <2> QED
    BY <1>2, <1>9, <1>10, <2>1, <2>2 DEF RowsFit
<1>15. MarksFit'
  <2>1. /\ db.alloc \in [Idents -> Nat] /\ KeysUnique(db.rows)
        /\ \A y \in hist.spent : y \in Idents \X Nat \X Nat /\ y[2] < db.alloc[y[1]]
        /\ SpentPairs(db) \subseteq hist.spent
    BY DEF RowsInv, MarksFit
  <2>2. KeysUnique(new)
    BY <1>13, <2>1 DEF KeysUnique
  <2>3. \A i \in DOMAIN new : <<new[i].ident, new[i].occ, i>> \in hist.spent
    BY <1>13, <2>1 DEF SpentPairs
  <2>4. SpentPairs(db') \subseteq hist.spent
    BY <1>9, <2>3 DEF SpentPairs
  <2> QED
    BY <1>9, <1>10, <2>1, <2>2, <2>4 DEF MarksFit
<1>16. LivesFit'
  <2>1. LandedSinceErasure'
    BY <1>2, <1>9, <1>10, <1>13 DEF LandedSinceErasure
  <2>2. hist.floor \in 0 .. n + 1 /\ (db.acct.live => hist.floor <= n)
    BY <1>2, <1>4 DEF n
  <2>3. (IF db.acct.live THEN n ELSE db.acct.life) \in 0 .. n
    BY <1>2, <1>4
  <2> QED
    BY <1>4, <1>9, <1>10, <2>1, <2>2, <2>3 DEF LivesFit
<1>17. CoverFits'
  <2>1. /\ IsFiniteSet(db.cover) /\ Intervals(db.cover) /\ Apart(db.cover)
        /\ Within(db.cover, hist.proven)
    BY CoverIs DEF RowsInv
  <2>2. /\ IsFiniteSet(cover) /\ Intervals(cover) /\ Apart(cover)
        /\ Within(cover, {x \in hist.proven : x >= cut})
    BY <2>1, Trims DEF cover
  <2>3. Within(cover, proven)
    BY <2>2 DEF proven
  <2> QED
    BY <1>9, <1>10, <2>2, <2>3 DEF CoverFits, CoverageProved, Intervals, Apart, Within
<1>18. BalancesOfOneAnswer' /\ BankFits' /\ RulesFit'
  BY <1>1, <1>3, <1>9 DEF RowsInv, BalancesOfOneAnswer, BankFits, RulesFit
<1>19. Unmoved
  BY <1>9, <1>13 DEF Unmoved
<1> QED
  BY <1>12, <1>14, <1>15, <1>16, <1>17, <1>18, <1>19 DEF Calm, RowsInv

-----------------------------------------------------------------------------
(* The rows an instance begins with.                                       *)

Twin(day, occ) ==
  [content |-> 1, date |-> day, ref |-> NoRef, status |-> "PDNG", state |-> "active", succ |-> 0,
   ident |-> 1, occ |-> occ, why |-> "none", tags |-> {}, by |-> 1]

LEMMA TwinFits == ASSUME NEW day \in Int, NEW occ \in Nat PROVE RowFits(Twin(day, occ))
<1>1. 1 \in Idents /\ MaxTagsPerRow \in Nat
  BY IngestAssumption, RulesAssumption DEF Idents
<1>2. Plain({}) = {} /\ Cardinality({}) = 0
  BY FS_EmptySet DEF Plain
<1> QED
  BY <1>1, <1>2 DEF Twin, RowFits, RowFields, Statuses, Reasons, NoRef

\* The rows of Begun: none, or two alike of one day.
BegunRows(rows, day, n, days) ==
  \/ rows = NoRows /\ DOMAIN rows = {} /\ n = 0 /\ days = {}
  \/ rows = <<Twin(day, 0), Twin(day, 1)>> /\ DOMAIN rows = 1 .. 2 /\ n = 2 /\ days = {day}

BegunFits(b, day) ==
  /\ b.acct.life \in 0 .. 2
  /\ BegunRows(b.rows, day, Cardinality(DOMAIN b.rows), {b.rows[i].date : i \in DOMAIN b.rows})
  /\ b.rows # NoRows => b.acct.life = 1

LEMMA BegunIs ==
  ASSUME NEW linked, linked \in {"no", "empty", "twins", "purged"}, NEW day
  PROVE  BegunFits(Begun(linked, day), day)
<1> DEFINE b == Begun(linked, day)
           n == Cardinality(DOMAIN b.rows)
           days == {b.rows[i].date : i \in DOMAIN b.rows}
<1>1. CASE linked = "twins"
  <2>1. b.rows = <<Twin(day, 0), Twin(day, 1)>> /\ b.acct = [live |-> TRUE, life |-> 1, session |-> 1]
    BY <1>1 DEF Begun, Twin
  <2>2. DOMAIN b.rows = 1 .. 2 /\ b.rows[1].date = day /\ b.rows[2].date = day
    BY <2>1 DEF Twin
  <2>3. Cardinality(1 .. 2) = 2
    <3>1. IsFiniteSet({1}) /\ Cardinality({1}) = 1
      BY FS_Singleton
    <3>2. Cardinality({1} \cup {2}) = 1 + 1
      BY <3>1, FS_AddElement
    <3>3. 1 .. 2 = {1} \cup {2}
      OBVIOUS
    <3> QED
      BY <3>2, <3>3
  <2>4. days = {day}
    <3>1. \A i \in 1 .. 2 : i = 1 \/ i = 2
      OBVIOUS
    <3>2. 1 \in 1 .. 2
      OBVIOUS
    <3> QED
      BY <2>2, <3>1, <3>2
  <2> QED
    BY <2>1, <2>2, <2>3, <2>4 DEF BegunRows, BegunFits
<1>2. CASE linked # "twins"
  <2>1. b.rows = NoRows
    BY <1>2 DEF Begun
  <2>2. DOMAIN b.rows = {}
    BY <2>1 DEF NoRows
  <2>3. n = 0 /\ days = {}
    BY <2>2, FS_EmptySet
  <2>4. b.acct.life \in 0 .. 2
    BY <1>2 DEF Begun, NoAccount
  <2> QED
    BY <2>1, <2>2, <2>3, <2>4 DEF BegunRows, BegunFits
<1> QED
  BY <1>1, <1>2

LEMMA InitRows == Init => RowsInv
<1> SUFFICES ASSUME Init PROVE RowsInv
  OBVIOUS
<1> DEFINE day == sc.firstDay
           b == Begun(sc.linked, day)
           n == Cardinality(DOMAIN b.rows)
           days == {b.rows[i].date : i \in DOMAIN b.rows}
           cover == {<<d, d + 1>> : d \in days}
           spent == {<<1, b.rows[i].occ, i>> : i \in DOMAIN b.rows}
           alloc == [NoAlloc EXCEPT ![1] = n]
<1>1. /\ sc \in Scenarios /\ sc.linked \in {"no", "empty", "twins", "purged"} /\ day \in Nat
      /\ sc.bank \in Seq(Pays) /\ \A r \in sc.rules : "tags" \in DOMAIN r /\ r.tags \subseteq Tags
  BY ScenariosAssumption DEF Init, Statuses, Pays
<1>2. /\ b.acct.life \in 0 .. 2 /\ BegunRows(b.rows, day, n, days)
      /\ b.rows # NoRows => b.acct.life = 1
  <2>1. BegunFits(b, day)
    BY <1>1, BegunIs
  <2> HIDE DEF b, day
  <2> QED
    BY <2>1 DEF BegunFits
<1>3. /\ db.acct = b.acct /\ db.rows = b.rows /\ db.alloc = alloc /\ db.cover = cover
      /\ db.bals = NoRows /\ db.rules = sc.rules
      /\ issued.life = b.acct.life /\ issued.row = n /\ issued.tick = 0
      /\ hist.spent = spent /\ hist.proven = days /\ hist.floor = b.acct.life
      /\ run = [p \in Procs |-> Idle] /\ today = day /\ bank = sc.bank
  BY DEF Init
<1>4. 1 \in Idents
  BY IngestAssumption DEF Idents
<1> HIDE DEF day, b
<1>5. RunsFit
  <2>1. /\ Idle.page = <<>> /\ Idle.from = 0 /\ Idle.end = 0 /\ Idle.life = 0 /\ Idle.started = 0
        /\ Idle.pc = "idle"
    BY DEF Idle
  <2>2. <<>> \in Seq(Pays)
    OBVIOUS
  <2>3. RunFits(Idle)
    BY <1>2, <1>3, <2>1, <2>2 DEF RunFits
  <2> QED
    BY <1>3, <2>3 DEF RunsFit
<1>6. BankFits /\ RulesFit
  BY <1>1, <1>3 DEF BankFits, RulesFit
<1>7. BalancesOfOneAnswer
  BY <1>3 DEF BalancesOfOneAnswer, NoRows
<1>8. CASE DOMAIN b.rows = {} /\ n = 0 /\ days = {}
  <2>1. cover = {} /\ spent = {} /\ alloc \in [Idents -> Nat]
    <3>1. alloc \in [Idents -> Nat]
      <4> HIDE DEF n
      <4> QED
        BY <1>8 DEF NoAlloc
    <3>2. cover = {}
      <4> HIDE DEF days
      <4> QED
        BY <1>8
    <3> QED
      BY <1>8, <3>1, <3>2
  <2>2. RowsFit
    BY <1>3, <1>8 DEF RowsFit
  <2>3. MarksFit
    BY <1>3, <1>8, <2>1 DEF MarksFit, KeysUnique, SpentPairs
  <2>4. LivesFit
    BY <1>2, <1>3, <1>8 DEF LivesFit, LandedSinceErasure
  <2>5. CoverFits
    BY <1>3, <2>1, FS_EmptySet DEF CoverFits, CoverageProved
  <2> QED
    BY <1>5, <1>6, <1>7, <2>2, <2>3, <2>4, <2>5 DEF RowsInv
<1>9. CASE /\ b.rows = <<Twin(day, 0), Twin(day, 1)>> /\ DOMAIN b.rows = 1 .. 2 /\ n = 2
           /\ days = {day}
  <2>1. \A i \in 1 .. 2 : i = 1 \/ i = 2
    OBVIOUS
  <2>2. b.rows[1] = Twin(day, 0) /\ b.rows[2] = Twin(day, 1)
    BY <1>9
  <2>3. /\ RowFits(b.rows[1]) /\ RowFits(b.rows[2])
    BY <1>1, <2>2, TwinFits
  <2>4. /\ \A i \in 1 .. 2 : b.rows[i].occ = i - 1 /\ b.rows[i].ident = 1 /\ b.rows[i].by = 1
                             /\ b.rows[i].succ = 0
    BY <2>1, <2>2 DEF Twin
  <2>5. RowsFit
    BY <1>3, <1>9, <2>1, <2>3, <2>4 DEF RowsFit
  <2>6. b.rows # NoRows
    <3>1. DOMAIN NoRows = {} /\ 1 \in 1 .. 2
      BY DEF NoRows
    <3> QED
      BY <1>9, <3>1
  <2>7. b.acct.life = 1
    BY <1>2, <2>6
  <2>8. alloc \in [Idents -> Nat] /\ alloc[1] = 2
    BY <1>4, <1>9 DEF NoAlloc
  <2>9. MarksFit
    <3>1. KeysUnique(db.rows)
      BY <1>3, <1>9, <2>4 DEF KeysUnique
    <3>2. spent = {<<1, i - 1, i>> : i \in 1 .. 2}
      BY <1>9, <2>4
    <3>3. \A y \in spent : y \in Idents \X Nat \X Nat /\ y[1] = 1 /\ y[2] < 2
      BY <1>4, <3>2
    <3>4. SpentPairs(db) = {<<1, i - 1, i>> : i \in 1 .. 2}
      BY <1>3, <1>9, <2>4 DEF SpentPairs
    <3> HIDE DEF alloc, spent
    <3> QED
      BY <1>3, <2>8, <3>1, <3>2, <3>3, <3>4 DEF MarksFit
  <2>10. LivesFit
    BY <1>3, <1>9, <2>4, <2>7 DEF LivesFit, LandedSinceErasure
  <2>11. CoverFits
    <3>1. cover = {<<day, day + 1>>}
      <4> HIDE DEF days
      <4> QED
        BY <1>9
    <3>2. IsFiniteSet(cover)
      BY <3>1, FS_Singleton
    <3>3. day .. (day + 1) - 1 \subseteq {day}
      BY <1>1
    <3> HIDE DEF cover, days
    <3>4. <<day, day + 1>> \in Int \X Int /\ day < day + 1
      BY <1>1
    <3>5. \A c \in db.cover : c = <<day, day + 1>>
      BY <1>3, <3>1
    <3> QED
      BY <1>3, <1>9, <3>2, <3>3, <3>4, <3>5 DEF CoverFits, CoverageProved
  <2> QED
    BY <1>5, <1>6, <1>7, <2>5, <2>9, <2>10, <2>11 DEF RowsInv
<1> QED
  BY <1>2, <1>8, <1>9 DEF BegunRows

-----------------------------------------------------------------------------
(* The landing of a plan.                                                  *)

\* What a run reconciles, with the trust it plans under.
PlannedOn(r, trusted) ==
  [rows |-> r.view.rows, win |-> r.view.win, below |-> r.view.below, ends |-> r.view.ends,
   trusted |-> trusted, alloc |-> r.alloc, from |-> r.from, page |-> Payments(r.page)]

LEMMA PlannedFits ==
  ASSUME RowsInv, NEW p \in Procs, run[p].pc = "apply", NEW trusted \in BOOLEAN,
         NEW c, c = PlannedOn(run[p], trusted)
  PROVE  /\ Context(c) /\ DOMAIN c.rows \subseteq 1 .. issued.row
         /\ Current(run[p]) => SpentPairs(c) \subseteq hist.spent
<1>1. ViewFits(run[p]) /\ run[p].alloc \in [Idents -> Nat] /\ run[p].page \in Seq(Pays)
  BY DEF RowsInv, RunsFit, RunFits
<1>2. /\ c.rows = run[p].view.rows /\ c.win = run[p].view.win /\ c.below = run[p].view.below
      /\ c.trusted = trusted /\ c.alloc = run[p].alloc /\ c.page = Payments(run[p].page)
  BY DEF PlannedOn
<1>3. c.page \in Seq(Pays)
  BY <1>1, <1>2, PaymentsAre
<1>4. issued.row \in Nat /\ DOMAIN c.rows \subseteq 1 .. issued.row
  BY <1>1, <1>2 DEF ViewFits, RowsInv, RowsFit
<1>5. IsFiniteSet(DOMAIN c.rows)
  <2>1. IsFiniteSet(1 .. issued.row)
    BY <1>4, FS_Interval
  <2> QED
    BY <1>4, <2>1, FS_Subset
<1>6. c.win \subseteq DOMAIN c.rows /\ c.below \subseteq DOMAIN c.rows
  BY <1>1, <1>2 DEF ViewFits
<1>7. IsFiniteSet(c.win) /\ IsFiniteSet(c.below)
  BY <1>5, <1>6, FS_Subset
<1>8. \A i \in DOMAIN c.rows :
        /\ i \in Nat /\ c.rows[i].ident \in Idents /\ c.rows[i].occ \in Nat
        /\ c.rows[i].date \in Int /\ c.rows[i].ref \in Int /\ c.rows[i].why \in Reasons
  <2>1. \A i \in DOMAIN c.rows : RowFits(c.rows[i])
    BY <1>1, <1>2 DEF ViewFits
  <2>2. ASSUME NEW r, RowFits(r)
        PROVE  /\ r.ident \in Idents /\ r.occ \in Nat /\ r.date \in Int /\ r.ref \in Int
               /\ r.why \in Reasons
    BY <2>2 DEF RowFits
  <2>3. \A i \in DOMAIN c.rows : i \in Nat
    BY <1>4
  <2> QED
    BY <2>1, <2>2, <2>3
<1>9. Context(c)
  BY <1>1, <1>2, <1>3, <1>5, <1>6, <1>7, <1>8 DEF Context
<1>10. Current(run[p]) => SpentPairs(c) \subseteq hist.spent
  BY <1>1, <1>2 DEF ViewFits, SpentPairs
<1> QED
  BY <1>4, <1>9, <1>10

\* The landing of a plan by run p, reconciled on c, as table t.
LandsAs(p, c, plan, t) ==
  /\ run[p].pc = "apply" /\ Lives(p) /\ OthersStay(p) /\ run'[p].pc = "cover"
  /\ c.rows = run[p].view.rows /\ c.alloc = run[p].alloc
  /\ c.trusted => db'.evid.good /\ ~db'.evid.reuse
  /\ TableFits(issued.row, c, plan, t) /\ GoodPlan(c, plan) /\ SpentPairs(c) \subseteq hist.spent
  /\ db'.rows = t.rows /\ db'.alloc = t.alloc
  /\ issued'.row = issued.row + Len(plan.ins)
  /\ hist'.spent = hist.spent \cup SpentPairs(t)

\* What the landing leaves alone, and what it proves.
BesidesRows(p) ==
  /\ db'.cover = db.cover /\ db'.bals = db.bals /\ db'.rules = db.rules /\ db'.acct = db.acct
  /\ issued'.life = issued.life /\ issued'.tick = issued.tick /\ hist'.floor = hist.floor
  /\ hist'.proven = hist.proven \cup ProvedDays(run[p])
  /\ run'[p].page = run[p].page /\ run'[p].from = run[p].from /\ run'[p].end = run[p].end
  /\ run'[p].life = run[p].life /\ run'[p].started = run[p].started

LEMMA LandedTable ==
  ASSUME RowsFit, NEW c, NEW plan, GoodPlan(c, plan), NEW t, TableFits(issued.row, c, plan, t)
  PROVE  /\ Len(plan.ins) \in Nat /\ DOMAIN t.rows \subseteq 1 .. issued.row + Len(plan.ins)
         /\ \A i \in DOMAIN t.rows :
              /\ RowFits(t.rows[i]) /\ t.rows[i].by >= hist.floor
              /\ t.rows[i].succ \in {0} \cup DOMAIN t.rows
<1> DEFINE base == issued.row
           n == Len(plan.ins)
<1>1. n \in Nat /\ base \in Nat /\ DOMAIN db.rows \subseteq 1 .. base
  BY DEF GoodPlan, RowsFit
<1>2. DOMAIN t.rows = DOMAIN db.rows \cup (base + 1 .. base + n)
  BY DEF TableFits
<1>3. \A k \in 1 .. n : k \in Nat /\ base + k \in base + 1 .. base + n
  BY <1>1
<1>4. \A i \in base + 1 .. base + n : \E k \in 1 .. n : i = base + k
  <2>1. \A i \in base + 1 .. base + n : i - base \in 1 .. n /\ i = base + (i - base)
    BY <1>1
  <2> QED
    BY <2>1
<1> HIDE DEF base, n
<1>5. ASSUME NEW i \in DOMAIN db.rows
      PROVE  /\ RowFits(t.rows[i]) /\ t.rows[i].by >= hist.floor
             /\ t.rows[i].succ \in {0} \cup DOMAIN t.rows
  <2>1. OldFits(base, c, plan, t, i) /\ db.rows[i].succ \in {0} \cup DOMAIN db.rows
    BY DEF TableFits, RowsFit, base
  <2>2. \/ t.rows[i].succ = db.rows[i].succ
        \/ \E k \in 1 .. n : t.rows[i].succ = base + k
    BY <2>1 DEF OldFits, n
  <2> QED
    BY <1>2, <1>3, <2>1, <2>2 DEF OldFits
<1>6. ASSUME NEW k \in 1 .. n
      PROVE  /\ RowFits(t.rows[base + k]) /\ t.rows[base + k].by >= hist.floor
             /\ t.rows[base + k].succ = 0
  BY DEF TableFits, NewFits, base, n
<1>7. DOMAIN t.rows \subseteq 1 .. base + n
  BY <1>1, <1>2
<1> QED
  BY <1>1, <1>2, <1>4, <1>5, <1>6, <1>7 DEF base, n

LEMMA LandsKeeps ==
  ASSUME RowsInv, Typed, UNCHANGED <<today, bank>>, NEW p \in Procs, NEW c, NEW plan, NEW t,
         LandsAs(p, c, plan, t), BesidesRows(p)
  PROVE  RowsInv'
<1>1. /\ RunFits(run[p]) /\ RowsFit /\ MarksFit /\ LivesFit /\ CoverFits /\ RulesFit
      /\ issued.row \in Nat /\ issued.life \in Nat /\ issued.tick \in Nat
  BY RunNow DEF RowsInv, RunsFit
<1>2. /\ Len(plan.ins) \in Nat /\ DOMAIN t.rows \subseteq 1 .. issued.row + Len(plan.ins)
      /\ \A i \in DOMAIN t.rows : /\ RowFits(t.rows[i]) /\ t.rows[i].by >= hist.floor
                                  /\ t.rows[i].succ \in {0} \cup DOMAIN t.rows
  BY <1>1, LandedTable DEF LandsAs
<1>3. /\ issued'.row \in Nat /\ issued.row <= issued'.row /\ DOMAIN db'.rows \subseteq 1 .. issued'.row
      /\ db'.rows = t.rows /\ db'.alloc = t.alloc /\ hist'.spent = hist.spent \cup SpentPairs(t)
  BY <1>1, <1>2 DEF LandsAs
<1>4. RowsFit'
  BY <1>2, <1>3 DEF RowsFit
<1>5. KeysUnique(t.rows) /\ Marks(t.alloc) /\ BelowMarks(t)
  BY DEF LandsAs, TableFits
<1>6. MarksFit'
  <2>1. t.alloc \in [Idents -> Nat] /\ KeysUnique(db'.rows)
    BY <1>3, <1>5 DEF Marks
  <2>2. ASSUME NEW y \in hist.spent PROVE y \in Idents \X Nat \X Nat /\ y[2] < t.alloc[y[1]]
    <3>1. y \in Idents \X Nat \X Nat /\ y[2] < db.alloc[y[1]]
      BY <1>1 DEF MarksFit
    <3>2. y[1] \in Idents /\ y[2] \in Nat
      BY <3>1
    <3>3. db.alloc[y[1]] \in Nat /\ t.alloc[y[1]] \in Nat /\ db.alloc[y[1]] <= t.alloc[y[1]]
      BY <1>5, <3>2 DEF Marks
    <3> QED
      BY <3>1, <3>2, <3>3
  <2>3. ASSUME NEW y \in SpentPairs(t) PROVE y \in Idents \X Nat \X Nat /\ y[2] < t.alloc[y[1]]
    <3>1. PICK i \in DOMAIN t.rows : y = <<t.rows[i].ident, t.rows[i].occ, i>>
      BY DEF SpentPairs
    <3>2. t.rows[i].ident \in Idents /\ t.rows[i].occ \in Nat /\ i \in Nat
      BY <1>1, <1>2 DEF RowFits
    <3>3. t.rows[i].occ < t.alloc[t.rows[i].ident]
      BY <1>5 DEF BelowMarks
    <3> QED
      BY <3>1, <3>2, <3>3
  <2>4. SpentPairs(db') = SpentPairs(t)
    BY <1>3 DEF SpentPairs
  <2> QED
    BY <1>3, <2>1, <2>2, <2>3, <2>4 DEF MarksFit
<1>7. LivesFit'
  <2>1. LandedSinceErasure'
    BY <1>2, <1>3 DEF LandedSinceErasure, BesidesRows
  <2> QED
    BY <1>1, <2>1 DEF LivesFit, BesidesRows
<1>8. Grows /\ LivesOn
  BY <1>1, <1>3 DEF Grows, LivesOn, BesidesRows
<1>9. RunFits(run[p])'
  <2>1. run'[p].pc = "cover"
    BY DEF LandsAs
  <2>2. ProvedDays(run[p])' = ProvedDays(run[p])
    BY DEF BesidesRows, ProvedDays, ProvedFrom
  <2>3. ProvedDays(run[p])' \subseteq hist'.proven
    BY <2>2 DEF BesidesRows
  <2> QED
    BY <1>1, <2>1, <2>3 DEF RunFits, BesidesRows
<1>10. ASSUME NEW q \in Procs PROVE RunFits(run[q])'
  <2>1. CASE q # p
    BY <1>8, <2>1, Others, HeldFits DEF LandsAs
  <2> QED
    BY <1>9, <2>1
<1>11. RunsFit'
  BY <1>10 DEF RunsFit
<1>12. CoverFits' /\ BalancesOfOneAnswer' /\ RulesFit' /\ BankFits'
  BY <1>1 DEF BesidesRows, CoverFits, CoverageProved, RulesFit, RowsInv, BalancesOfOneAnswer,
              BankFits
<1> QED
  BY <1>4, <1>6, <1>7, <1>11, <1>12 DEF RowsInv

\* A transaction that failed leaves the ledger as it was.
LEMMA FailedCalm ==
  ASSUME RowsInv, Typed, NEW p \in Procs, UNCHANGED <<today, bank, db, issued, hist>>,
         run' = [run EXCEPT ![p].view = NoView, ![p].alloc = NoAlloc,
                            ![p].out = "failed", ![p].pc = AfterError(p)]
  PROVE  Calm
<1> DEFINE pc == AfterError(p)
<1>1. Elsewhere(pc)
  BY AfterElsewhere
<1>2. run' = [run EXCEPT ![p].view = NoView, ![p].alloc = NoAlloc, ![p].out = "failed", ![p].pc = pc]
  OBVIOUS
<1> HIDE DEF pc
<1>3. /\ OthersStay(p) /\ run'[p].page = run[p].page /\ run'[p].from = run[p].from
      /\ run'[p].end = run[p].end /\ run'[p].life = run[p].life
      /\ run'[p].started = run[p].started /\ run'[p].pc = pc
  BY <1>2, RunNow DEF OthersStay, Typed, Runs
<1>4. Held(p)
  BY <1>1, <1>3 DEF Held, RunKeeps, Elsewhere
<1> QED
  BY <1>3, <1>4, DbItself, RunRests

LEMMA PlanIs ==
  ASSUME NEW p, NEW evid, NEW c, c = PlannedOn(run[p], run[p].view.trusted /\ Trusted(evid))
  PROVE  PlanFor(p, evid) =
           Reconcile(run[p].view, run[p].page, c.trusted, run[p].alloc, run[p].from)
BY DEF PlanFor, PlannedOn

LEMMA ApplyRows ==
  ASSUME RowsInv, Typed, NEW p \in Procs, Apply(p)
  PROVE  Calm \/ (RowsInv' /\ \E c, plan, t : LandsAs(p, c, plan, t))
<1>1. /\ run[p].pc = "apply" /\ Lives(p) /\ UNCHANGED <<today, bank>>
  BY DEF Apply
<1>2. PICK evid, plan, t :
        /\ plan = PlanFor(p, evid) /\ t = Landed(plan, issued.row, run[p].life)
        /\ IF t.ok
           THEN /\ db' = [db EXCEPT !.rows = t.rows, !.alloc = t.alloc, !.evid = evid]
                /\ issued' = [issued EXCEPT !.row = @ + Len(plan.ins)]
                /\ hist' = [hist EXCEPT !.spent = @ \cup SpentPairs(t),
                              !.proven = @ \cup ProvedDays(run[p]),
                              !.fetched = @ \cup {<<run[p].session, run[p].life>>}]
                /\ run' = [run EXCEPT ![p].view = NoView, ![p].alloc = NoAlloc,
                             ![p].pc = "cover"]
           ELSE /\ run' = [run EXCEPT ![p].view = NoView, ![p].alloc = NoAlloc,
                             ![p].out = "failed", ![p].pc = AfterError(p)]
                /\ UNCHANGED <<db, issued, hist>>
  BY Zenon DEF Apply
<1>3. CASE ~t.ok
  BY <1>1, <1>2, <1>3, FailedCalm
<1>4. CASE t.ok
  <2> DEFINE trusted == run[p].view.trusted /\ Trusted(evid)
             c == PlannedOn(run[p], trusted)
             rows == t.rows
             alloc == t.alloc
             n == issued.row + Len(plan.ins)
             spent == hist.spent \cup SpentPairs(t)
             proven == hist.proven \cup ProvedDays(run[p])
             fetched == hist.fetched \cup {<<run[p].session, run[p].life>>}
  <2>1. /\ db' = [db EXCEPT !.rows = rows, !.alloc = alloc, !.evid = evid]
        /\ issued' = [issued EXCEPT !.row = n]
        /\ hist' = [hist EXCEPT !.spent = spent, !.proven = proven, !.fetched = fetched]
        /\ run' = [run EXCEPT ![p].view = NoView, ![p].alloc = NoAlloc, ![p].pc = "cover"]
    BY <1>2, <1>4
  <2>2. trusted \in BOOLEAN /\ (trusted => evid.good /\ ~evid.reuse)
    BY DEF Trusted
  <2>3. /\ c.rows = run[p].view.rows /\ c.alloc = run[p].alloc /\ c.trusted = trusted
        /\ c = [rows |-> run[p].view.rows, win |-> run[p].view.win, below |-> run[p].view.below,
                ends |-> run[p].view.ends, trusted |-> trusted, alloc |-> run[p].alloc,
                from |-> run[p].from, page |-> Payments(run[p].page)]
    BY DEF PlannedOn
  <2>4. plan = Reconcile(run[p].view, run[p].page, trusted, run[p].alloc, run[p].from)
    BY <1>2 DEF PlanFor
  <2> HIDE DEF trusted, c, rows, alloc, n, spent, proven, fetched
  <2>5. /\ Context(c) /\ DOMAIN c.rows \subseteq 1 .. issued.row
        /\ Current(run[p]) => SpentPairs(c) \subseteq hist.spent
    BY <1>1, <2>2, PlannedFits DEF c
  <2>6. RunFits(run[p]) /\ RowsFit /\ MarksFit /\ LivesFit /\ RulesFit
    BY DEF RowsInv, RunsFit
  <2>7. GoodPlan(c, plan)
    <3>1. run[p].page \in Seq(Pays)
      BY <2>6 DEF RunFits
    <3> QED
      BY <2>3, <2>4, <2>5, <3>1, ReconcileIsGood
  <2>8. SpentPairs(c) \subseteq hist.spent /\ run[p].life \in Nat /\ hist.floor <= run[p].life
    BY <1>1, <2>5, <2>6 DEF Lives, Current, LivesFit, RunFits
  <2>9. Landable(issued.row, c, plan)
    BY <2>5, <2>6, <2>7, <2>8 DEF Landable, RowsFit
  <2>10. TableFits(issued.row, c, plan, t)
    BY <1>2, <1>4, <2>6, <2>8, <2>9, LandingFits
  <2>11. /\ db'.rows = rows /\ db'.alloc = alloc /\ db'.evid = evid /\ db'.cover = db.cover
         /\ db'.bals = db.bals /\ db'.rules = db.rules /\ db'.acct = db.acct
         /\ issued'.row = n /\ issued'.life = issued.life /\ issued'.tick = issued.tick
         /\ hist'.spent = spent /\ hist'.proven = proven /\ hist'.floor = hist.floor
    BY <2>1 DEF Typed, DbTyped, IssuedTyped, HistTyped
  <2>12. /\ OthersStay(p) /\ run'[p].page = run[p].page /\ run'[p].from = run[p].from
         /\ run'[p].end = run[p].end /\ run'[p].life = run[p].life
         /\ run'[p].started = run[p].started /\ run'[p].pc = "cover"
    BY <2>1, RunNow DEF OthersStay, Typed, Runs
  <2>13. LandsAs(p, c, plan, t)
    BY <1>1, <2>2, <2>3, <2>7, <2>8, <2>10, <2>11, <2>12 DEF LandsAs, rows, alloc, n, spent
  <2>14. BesidesRows(p)
    BY <2>11, <2>12 DEF BesidesRows, proven
  <2>15. RowsInv'
    BY <1>1, <2>13, <2>14, LandsKeeps
  <2> QED
    BY <2>13, <2>15
<1> QED
  BY <1>3, <1>4

-----------------------------------------------------------------------------
(* Every step keeps the invariant.                                         *)

Lands == \E p \in Procs : \E c, plan, t : LandsAs(p, c, plan, t)
RowsStep == Calm \/ (RowsInv' /\ Lands)

LEMMA StutterCalm ==
  ASSUME RowsInv, Typed, UNCHANGED vars
  PROVE  Calm
<1>1. UNCHANGED <<today, bank, db, run, issued, hist>>
  BY DEF vars
<1>2. Still /\ BankFits'
  BY <1>1, DbItself, ClockKept, Rests
<1> QED
  BY <1>1, <1>2, NobodyMoves, AllHeld

LEMMA RoutineRows == ASSUME RowsInv, Typed, NEW p \in Procs, Routine(p) PROVE Calm
BY AdmitCalm, ClaimCalm, CaptureCalm, StampCalm, NoteFailureCalm, RestoreCalm, RecordHealthCalm,
   RecordAnswerCalm, EndCalm, CheckConsentCalm, FiguresCalm, WriteBalancesCalm DEF Routine

LEMMA FetchRows == ASSUME RowsInv, Typed, NEW p \in Procs, Fetch(p) PROVE RowsStep
<1>1. Apply(p) => RowsStep
  BY ApplyRows DEF RowsStep, Lands
<1>2. Fetch(p) => Calm \/ Apply(p)
  BY WindowCalm, AnswerCalm, NoAnswerCalm, IncompleteCalm, LoadCalm, AllocateCalm,
     ApplyErasedCalm, RecordCoverageCalm, FinishCalm DEF Fetch
<1> QED
  BY <1>1, <1>2 DEF RowsStep

LEMMA AuthorizeRows == ASSUME RowsInv, Typed, NEW p \in Procs, Authorize(p) PROVE Calm
BY AuthorizeCalm, LinkBindCalm, ClaimCalm, ReadyCalm, SwitchCalm DEF Authorize

LEMMA CallRows == ASSUME RowsInv, Typed, Call PROVE Calm
<1>1. sc.cuts \subseteq Int
  BY ScenariosAssumption DEF Typed
<1>2. ASSUME NEW cut \in sc.cuts, NEW erase \in BOOLEAN, PurgeBefore(cut, erase) PROVE Calm
  BY <1>1, <1>2, PurgeBeforeCalm
<1>3. ASSUME NEW erase \in BOOLEAN, PurgeAll(erase) PROVE Calm
  BY <1>3, PurgeAllCalm
<1>4. ASSUME ForgetLocalAccount \/ UnlinkBank \/ ApplyRules PROVE Calm
  BY <1>4, ForgetCalm, UnlinkCalm, ApplyRulesCalm
<1>5. ASSUME NEW r \in sc.offered, NEW old, AddRule(r) \/ ReplaceRule(old, r) PROVE Calm
  BY <1>5, RulebookCalm
<1>6. ASSUME NEW r, RemoveRule(r) PROVE Calm
  BY <1>6, RemovalCalm
<1>7. ASSUME NEW i, NEW tags \in sc.taggings, TagTransaction(i, tags) \/ UntagTransaction(i, tags)
      PROVE  Calm
  BY <1>7, TagCalm, UntagCalm
<1>8. ASSUME NEW old \in Tags, NEW new \in Tags, RenameTag(old, new) \/ DeleteTag(old)
      PROVE  Calm
  BY <1>8, NameCalm
<1> QED
  BY <1>2, <1>3, <1>4, <1>5, <1>6, <1>7, <1>8 DEF Call

LEMMA EnvironmentRows == ASSUME RowsInv, Typed, Environment PROVE Calm
<1>1. ASSUME NEW e \in sc.entries, Post(e) PROVE Calm
  BY <1>1, PostCalm
<1>2. ASSUME NEW k \in DOMAIN bank, NEW later \in sc.later, Book(k, later) PROVE Calm
  BY <1>2, BookCalm
<1>3. ASSUME NEW k \in DOMAIN bank, NEW content \in Idents, Correct(k, content) \/ Void(k)
      PROVE  Calm
  BY <1>3, ChangeCalm
<1>4. ASSUME NEW k \in DOMAIN bank, Withdraw(k) PROVE Calm
  BY <1>4, WithdrawCalm
<1>5. ASSUME NEW k \in DOMAIN bank, Void(k) PROVE Calm
  <2>1. 1 \in Idents
    BY IngestAssumption DEF Idents
  <2> QED
    BY <1>5, <2>1, <1>3
<1>6. ASSUME DayPasses PROVE Calm
  BY <1>6, DayCalm
<1>7. ASSUME NEW what \in {"wait", "recent", "claim"}, TimePasses(what) PROVE Calm
  BY <1>7, TimeCalm
<1> QED
  BY <1>1, <1>2, <1>3, <1>4, <1>5, <1>6, <1>7 DEF Environment

LEMMA NextRows == ASSUME RowsInv, Typed, [Next]_vars PROVE RowsStep
<1>1. ASSUME NEW p \in sc.procs, Routine(p) \/ Fetch(p) \/ Authorize(p) \/ Crash(p)
      PROVE  RowsStep
  <2>1. p \in Procs
    BY ScenariosAssumption DEF Typed
  <2> QED
    BY <1>1, <2>1, RoutineRows, FetchRows, AuthorizeRows, EndCalm DEF RowsStep
<1> QED
  BY <1>1, StutterCalm, CallRows, EnvironmentRows DEF Next, RowsStep

LEMMA RowsNext == RowsInv /\ Typed /\ [Next]_vars => RowsInv'
BY NextRows DEF RowsStep, Calm

-----------------------------------------------------------------------------
(* What always holds.                                                      *)

LEMMA RowsInvariant == Spec => [](RowsInv /\ LedgerInv)
<1>1. Init => RowsInv /\ LedgerInv
  BY InitRows, LedgerInit
<1>2. RowsInv /\ LedgerInv /\ [Next]_vars => (RowsInv /\ LedgerInv)'
  BY RowsNext, LedgerNext DEF LedgerInv
<1> QED
  BY <1>1, <1>2, PTL DEF Spec

\* The shape of the state, in every instance: rows name their successors by row
\* id, and every number a run captured was issued.
THEOREM LedgerTyped == Spec => []TypeOK
<1>1. RowsInv /\ LedgerInv => TypeOK
  <2> SUFFICES ASSUME RowsInv, LedgerInv PROVE TypeOK
    OBVIOUS
  <2>1. sc \in Scenarios /\ today \in Nat /\ db.acct.session <= issued.session
    BY DEF LedgerInv, Typed, SessionsIssued, RowsInv, BankFits
  <2>2. \A k \in DOMAIN bank : bank[k].content \in Idents /\ bank[k].status \in {"PDNG", "BOOK", "CNCL"}
    <3>1. \A k \in DOMAIN bank : bank[k] \in Pays
      BY DEF RowsInv, BankFits
    <3> QED
      BY <3>1 DEF Pays, Statuses
  <2>3. db.acct.life <= issued.life
    BY DEF RowsInv, LivesFit
  <2>4. \A i \in DOMAIN db.rows :
          /\ i \in 1 .. issued.row
          /\ db.rows[i].state \in {"active", "superseded", "cancelled"}
          /\ db.rows[i].succ \in {0} \cup DOMAIN db.rows
          /\ db.rows[i].tags \subseteq Tags
    BY DEF RowsInv, RowsFit, RowFits
  <2>5. db.sync.comp \in {"none", "partial", "complete"}
    BY DEF LedgerInv, Typed, DbTyped, Findings
  <2>6. \A p \in Procs : run[p].life <= issued.life /\ run[p].started <= issued.tick
    BY DEF RowsInv, RunsFit, RunFits, LivesFit
  <2> QED
    BY <2>1, <2>2, <2>3, <2>4, <2>5, <2>6 DEF TypeOK
<1> QED
  BY <1>1, RowsInvariant, PTL

\* The identity key of a row on record is always the hash of the content it
\* holds, whatever the bank corrected and however plans landed (apply.py).
THEOREM KeysFollowContents == Spec => []IdentityFollowsContent
<1>1. RowsInv => IdentityFollowsContent
  BY DEF RowsInv, RowsFit, RowFits, IdentityFollowsContent
<1> QED
  BY <1>1, RowsInvariant, PTL

\* Coverage lies within the days some answer proved, in intervals that neither
\* overlap nor touch; the balances are those of one answer; and no consent was
\* switched to before a fetch of its own (record_coverage, _fetch_resource,
\* switch_bindings).
THEOREM AttestedAlways == Spec => []Attested
<1>1. RowsInv /\ LedgerInv => Attested
  BY DEF RowsInv, CoverFits, LedgerInv, Attested
<1> QED
  BY <1>1, RowsInvariant, PTL

\* Nothing an erasure removed comes back: the record of an erased account is
\* bare, and every row was landed by a run of a younger life than the last full
\* erasure (the life fence of apply, purge and forget_local_account).
THEOREM NothingComesBack == Spec => []ErasedStaysErased
<1>1. RowsInv /\ LedgerInv => ErasedStaysErased
  BY DEF RowsInv, LivesFit, LedgerInv, ErasedStaysErased
<1> QED
  BY <1>1, RowsInvariant, PTL

-----------------------------------------------------------------------------
(* What a step may never do.                                               *)

\* A landing is that of one run.
LEMMA LandingIs ==
  ASSUME RowsStep, NEW p \in Procs, Landing(p)
  PROVE  \E c, plan, t : LandsAs(p, c, plan, t)
<1>1. Lands
  BY DEF RowsStep, Calm, NoLanding
<1>2. PICK q \in Procs : \E c, plan, t : LandsAs(q, c, plan, t)
  BY <1>1 DEF Lands
<1>3. OthersStay(q)
  BY <1>2 DEF LandsAs
<1>4. p = q
  BY <1>3, Others, HeldLandsNot
<1> QED
  BY <1>2, <1>4

LEMMA LandsOne == ASSUME NEW p, NEW c, NEW plan, NEW t, LandsAs(p, c, plan, t) PROVE Landing(p)
BY DEF LandsAs, Landing

\* A property of every step the invariant allows holds of every step.
LEMMA SpentOnce ==
  ASSUME RowsInv, RowsStep, NEW p \in Procs, Landing(p),
         NEW x \in hist'.spent \ hist.spent, NEW y \in hist'.spent,
         MarkStands(p, x[1]), x[1] = y[1], x[2] = y[2]
  PROVE  x[3] = y[3]
<1>1. PICK c, plan, t : LandsAs(p, c, plan, t)
  BY LandingIs
<1>2. /\ hist'.spent = hist.spent \cup SpentPairs(t) /\ c.alloc = run[p].alloc
      /\ TableFits(issued.row, c, plan, t) /\ run[p].pc = "apply"
  BY <1>1 DEF LandsAs
<1>3. PICK i \in DOMAIN t.rows : x = <<t.rows[i].ident, t.rows[i].occ, i>>
  BY <1>2 DEF SpentPairs
<1>4. c.alloc[x[1]] <= x[2]
  <2>1. KeyFits(c, t, i)
    BY <1>2 DEF TableFits
  <2> QED
    BY <1>3, <2>1 DEF KeyFits
<1>5. CASE y \in SpentPairs(t)
  <2>1. PICK j \in DOMAIN t.rows : y = <<t.rows[j].ident, t.rows[j].occ, j>>
    BY <1>5 DEF SpentPairs
  <2>2. KeysUnique(t.rows)
    BY <1>2 DEF TableFits
  <2> QED
    BY <1>3, <2>1, <2>2 DEF KeysUnique
<1>6. CASE y \in hist.spent
  <2>1. y \in Idents \X Nat \X Nat /\ y[2] < db.alloc[y[1]] /\ db.alloc \in [Idents -> Nat]
    BY <1>6 DEF RowsInv, MarksFit
  <2>2. run[p].alloc \in [Idents -> Nat]
    BY <1>2 DEF RowsInv, RunsFit, RunFits
  <2>3. y[1] \in Idents /\ y[2] \in Nat
    BY <2>1
  <2>4. db.alloc[y[1]] \in Nat /\ run[p].alloc[y[1]] \in Nat
    BY <2>1, <2>2, <2>3
  <2>5. db.alloc[y[1]] <= run[p].alloc[y[1]] /\ run[p].alloc[y[1]] <= y[2]
    BY <1>2, <1>4 DEF MarkStands
  <2> QED
    BY <2>1, <2>3, <2>4, <2>5
<1> QED
  BY <1>2, <1>5, <1>6

\* An occurrence number a plan gives to a transaction, above a mark that still
\* stands, was never given to another one of the same content, however many runs
\* landed, re-keyed, superseded or purged meanwhile (ingest, occurrence_alloc).
THEOREM OccurrencesSpentOnce == Spec => OccurrenceSpent
<1>1. RowsInv /\ LedgerInv /\ [Next]_vars =>
        \A p \in Procs : Landing(p) =>
          \A x \in hist'.spent \ hist.spent, y \in hist'.spent :
            MarkStands(p, x[1]) /\ x[1] = y[1] /\ x[2] = y[2] => x[3] = y[3]
  BY NextRows, SpentOnce DEF LedgerInv
<1> QED
  BY <1>1, RowsInvariant, PTL DEF Spec, OccurrenceSpent

\* A row of the ledger in a landed table.
LEMMA OldLanded ==
  ASSUME NEW p, NEW c, NEW plan, NEW t, LandsAs(p, c, plan, t), NEW i \in DOMAIN db.rows
  PROVE  /\ db'.rows = t.rows /\ i \in DOMAIN t.rows /\ OldFits(issued.row, c, plan, t, i)
         /\ c.rows = run[p].view.rows
BY DEF LandsAs, TableFits

LEMMA NewLanded ==
  ASSUME NEW p, NEW c, NEW plan, NEW t, LandsAs(p, c, plan, t), NEW k \in 1 .. Len(plan.ins)
  PROVE  NewFits(issued.row, plan, t, k)
BY DEF LandsAs, TableFits

LEMMA FindingsKept ==
  ASSUME RowsInv, RowsStep, NEW i \in DOMAIN db.rows \cap DOMAIN db'.rows, db.rows[i].why # "none"
  PROVE  db'.rows[i].why # "none"
<1>1. CASE Calm
  BY <1>1 DEF Calm, Unmoved
<1>2. CASE Lands
  <2>1. PICK p \in Procs : \E c, plan, t : LandsAs(p, c, plan, t)
    BY <1>2 DEF Lands
  <2>2. PICK c, plan, t : LandsAs(p, c, plan, t)
    BY <2>1
  <2> QED
    BY <2>2, OldLanded DEF OldFits
<1> QED
  BY <1>1, <1>2 DEF RowsStep

LEMMA FindingsHandedOn ==
  ASSUME RowsInv, RowsStep, NEW p \in Procs, Landing(p), Fresh(p), NEW i \in DOMAIN db.rows,
         db.rows[i].succ = 0, db'.rows[i].succ # 0, db.rows[i].why # "none"
  PROVE  db'.rows[db'.rows[i].succ].why # "none"
<1>1. PICK c, plan, t : LandsAs(p, c, plan, t)
  BY LandingIs
<1>2. db'.rows = t.rows /\ OldFits(issued.row, c, plan, t, i) /\ c.rows = db.rows
  BY <1>1, OldLanded DEF Fresh
<1>3. PICK k \in 1 .. Len(plan.ins) : t.rows[i].succ = issued.row + k /\ Handed(c, plan, i, k)
  BY <1>2 DEF OldFits
<1>4. plan.ins[k].why # "none"
  BY <1>2, <1>3 DEF Handed
<1>5. NewFits(issued.row, plan, t, k)
  BY <1>1, NewLanded
<1> QED
  BY <1>2, <1>3, <1>4, <1>5 DEF NewFits

\* A finding that waits for the operator is never lost, whatever plans land: it
\* stays on its row, and a plan made of the ledger as it stands hands it on to the
\* row that supersedes a flagged one (ingest, apply.py).
THEOREM FindingsStick == Spec => ReviewSticks
<1>1. RowsInv /\ LedgerInv /\ [Next]_vars =>
        /\ \A i \in DOMAIN db.rows \cap DOMAIN db'.rows :
             db.rows[i].why # "none" => db'.rows[i].why # "none"
        /\ \A p \in Procs : Landing(p) /\ Fresh(p) =>
             \A i \in DOMAIN db.rows : /\ db.rows[i].succ = 0 /\ db'.rows[i].succ # 0
                                       /\ db.rows[i].why # "none"
                                       => db'.rows[db'.rows[i].succ].why # "none"
  BY NextRows, FindingsKept, FindingsHandedOn DEF LedgerInv
<1> QED
  BY <1>1, RowsInvariant, PTL DEF Spec, ReviewSticks

LEMMA RekeyedInTrust ==
  ASSUME RowsInv, RowsStep, NEW i \in DOMAIN db.rows \cap DOMAIN db'.rows, Rekeyed(i)
  PROVE  \E p \in Procs : /\ Landing(p)
                          /\ AsLoaded(p, i) => db'.evid.good /\ ~db'.evid.reuse
<1>1. CASE Calm
  BY <1>1 DEF Calm, Unmoved, Rekeyed
<1>2. CASE Lands
  <2>1. PICK p \in Procs : \E c, plan, t : LandsAs(p, c, plan, t)
    BY <1>2 DEF Lands
  <2>2. PICK c, plan, t : LandsAs(p, c, plan, t)
    BY <2>1
  <2>3. /\ db'.rows = t.rows /\ OldFits(issued.row, c, plan, t, i) /\ c.rows = run[p].view.rows
    BY <2>2, OldLanded
  <2>4. Landing(p)
    BY <2>2, LandsOne
  <2>5. ASSUME AsLoaded(p, i), ~c.trusted PROVE FALSE
    <3>1. i \in DOMAIN c.rows /\ c.rows[i].ident = db.rows[i].ident
      BY <2>3, <2>5 DEF AsLoaded
    <3>2. t.rows[i].ident = db.rows[i].ident
      BY <2>3, <2>5, <3>1 DEF OldFits
    <3>3. t.rows[i].succ # db.rows[i].succ /\ t.rows[t.rows[i].succ].ident # db.rows[i].ident
      BY <2>3, <3>2 DEF Rekeyed
    <3>4. PICK k \in 1 .. Len(plan.ins) : t.rows[i].succ = issued.row + k /\ Handed(c, plan, i, k)
      BY <2>3, <3>3 DEF OldFits
    <3>5. plan.ins[k].ident = db.rows[i].ident
      BY <2>5, <3>1, <3>4 DEF Handed
    <3>6. NewFits(issued.row, plan, t, k)
      BY <2>2, NewLanded
    <3> QED
      BY <3>3, <3>4, <3>5, <3>6 DEF NewFits
  <2>6. c.trusted => db'.evid.good /\ ~db'.evid.reuse
    BY <2>2 DEF LandsAs
  <2> QED
    BY <2>4, <2>5, <2>6
<1> QED
  BY <1>1, <1>2 DEF RowsStep

\* The identity of a stored transaction moves only where a plan lands and, unless
\* another run moved it since it was loaded, only on references that the evidence
\* committed with the plan trusts (provenance, apply.py).
THEOREM TrustedAtCommit == Spec => TrustHeldAtCommit
<1>1. RowsInv /\ LedgerInv /\ [Next]_vars =>
        \A i \in DOMAIN db.rows \cap DOMAIN db'.rows :
          Rekeyed(i) => \E p \in Procs : /\ Landing(p)
                                         /\ AsLoaded(p, i) => db'.evid.good /\ ~db'.evid.reuse
  BY NextRows, RekeyedInTrust DEF LedgerInv
<1> QED
  BY <1>1, RowsInvariant, PTL DEF Spec, TrustHeldAtCommit

LEMMA WithinBudget ==
  ASSUME NEW tags, Cardinality(Plain(tags)) <= MaxTagsPerRow, Cardinality(Plain(tags)) \in Nat,
         NEW was, Cardinality(Plain(was)) \in Nat
  PROVE  Cardinality(Plain(tags)) <= Max({MaxTagsPerRow, Cardinality(Plain(was))})
<1> DEFINE n == Cardinality(Plain(tags))
           m == Cardinality(Plain(was))
<1>1. n \in Nat /\ m \in Nat /\ MaxTagsPerRow \in Nat /\ n <= MaxTagsPerRow
  BY RulesAssumption
<1> HIDE DEF n, m
<1>2. MaxTagsPerRow <= Max({MaxTagsPerRow, m}) /\ Max({MaxTagsPerRow, m}) \in {MaxTagsPerRow, m}
  BY <1>1, MaxOfTwo
<1>3. n <= Max({MaxTagsPerRow, m})
  BY <1>1, <1>2
<1> QED
  BY <1>3 DEF n, m

\* The tags of row i, where they are after the landing.
TagsBefore(i) == IF i \in DOMAIN db.rows THEN db.rows[i].tags ELSE {}
Holder(i) == IF db'.rows[i].succ = 0 THEN i ELSE db'.rows[i].succ
TagsStay(i, was, holder) ==
  /\ was \subseteq db'.rows[holder].tags
  /\ i \in DOMAIN db.rows /\ db.rows[i].succ = 0 /\ holder # i => db'.rows[i].tags = {}
  /\ Cardinality(Plain(db'.rows[i].tags)) <= Max({MaxTagsPerRow, Cardinality(Plain(was))})

LEMMA TagsKept ==
  ASSUME RowsInv, RowsStep, NEW p \in Procs, Landing(p), NEW i \in DOMAIN db'.rows,
         NEW was, was = TagsBefore(i), NEW holder, holder = Holder(i)
  PROVE  TagsStay(i, was, holder)
<1>0. /\ was = (IF i \in DOMAIN db.rows THEN db.rows[i].tags ELSE {})
      /\ holder = (IF db'.rows[i].succ = 0 THEN i ELSE db'.rows[i].succ)
  BY DEF TagsBefore, Holder
<1>1. PICK c, plan, t : LandsAs(p, c, plan, t)
  BY LandingIs
<1>2. RowsInv'
  BY DEF RowsStep, Calm
<1>3. db'.rows = t.rows /\ RowFits(t.rows[i])
  <2>1. db'.rows = t.rows
    BY <1>1 DEF LandsAs
  <2>2. GoodPlan(c, plan) /\ TableFits(issued.row, c, plan, t) /\ RowsFit
    BY <1>1 DEF LandsAs, RowsInv
  <2> QED
    BY <2>1, <2>2, LandedTable
<1>4. issued.row \in Nat /\ Len(plan.ins) \in Nat
  <2>1. GoodPlan(c, plan) /\ TableFits(issued.row, c, plan, t) /\ RowsFit
    BY <1>1 DEF LandsAs, RowsInv
  <2> QED
    BY <2>1, LandedTable DEF RowsFit
<1>5. was \subseteq Tags /\ (i \in DOMAIN db.rows => RowFits(db.rows[i]))
  BY <1>0 DEF RowsInv, RowsFit, RowFits
<1>6. was \subseteq t.rows[holder].tags
  <2>1. CASE i \notin DOMAIN db.rows
    BY <1>0, <2>1
  <2>2. CASE i \in DOMAIN db.rows
    <3>1. OldFits(issued.row, c, plan, t, i)
      BY <1>1, <2>2, OldLanded
    <3>2. CASE t.rows[i].succ = db.rows[i].succ /\ t.rows[i].tags = db.rows[i].tags
      <4>1. CASE db.rows[i].succ = 0
        BY <1>0, <1>3, <2>2, <3>2, <4>1
      <4>2. CASE db.rows[i].succ # 0
        BY <1>0, <1>5, <2>2, <4>2 DEF RowFits
      <4> QED
        BY <4>1, <4>2
    <3>3. CASE \E k \in 1 .. Len(plan.ins) : /\ t.rows[i].succ = issued.row + k
                                             /\ db.rows[i].tags \subseteq t.rows[issued.row + k].tags
      <4>1. PICK k \in 1 .. Len(plan.ins) : /\ t.rows[i].succ = issued.row + k
                                            /\ db.rows[i].tags \subseteq t.rows[issued.row + k].tags
        BY <3>3
      <4>2. issued.row + k # 0
        BY <1>4
      <4> QED
        BY <1>0, <1>3, <2>2, <4>1, <4>2
    <3> QED
      BY <3>1, <3>2, <3>3 DEF OldFits
  <2> QED
    BY <2>1, <2>2
<1>7. holder # i => t.rows[i].tags = {}
  BY <1>0, <1>3 DEF RowFits
<1>8. Cardinality(Plain(t.rows[i].tags)) <= Max({MaxTagsPerRow, Cardinality(Plain(was))})
  <2>1. t.rows[i].tags \subseteq Tags /\ Cardinality(Plain(t.rows[i].tags)) <= MaxTagsPerRow
    BY <1>3 DEF RowFits
  <2>2. Cardinality(Plain(t.rows[i].tags)) \in Nat /\ Cardinality(Plain(was)) \in Nat
    BY <1>5, <2>1, PlainFinite
  <2> QED
    BY <2>1, <2>2, WithinBudget
<1> QED
  BY <1>3, <1>6, <1>7, <1>8 DEF TagsStay

\* Landing a plan neither loses nor doubles the operator's tags: they stay on the
\* row, or move to the row that supersedes it and leave the old one bare, and no
\* rule it applies takes a row over its budget (apply.py, rules.py).
THEOREM TagsFollow == Spec => AnnotationsFollow
<1>1. RowsInv /\ LedgerInv /\ [Next]_vars =>
        \A p \in Procs : Landing(p) => \A i \in DOMAIN db'.rows : TagsStay(i, TagsBefore(i), Holder(i))
  <2> SUFFICES ASSUME RowsInv, LedgerInv, [Next]_vars, NEW p \in Procs, Landing(p),
                      NEW i \in DOMAIN db'.rows
               PROVE  TagsStay(i, TagsBefore(i), Holder(i))
    OBVIOUS
  <2>1. RowsStep
    BY NextRows DEF LedgerInv
  <2> QED
    BY <2>1, TagsKept
<1>2. (\A p \in Procs : Landing(p) => \A i \in DOMAIN db'.rows : TagsStay(i, TagsBefore(i), Holder(i)))
        => \A p \in Procs : Landing(p) =>
             \A i \in DOMAIN db'.rows :
               LET was == IF i \in DOMAIN db.rows THEN db.rows[i].tags ELSE {}
                   holder == IF db'.rows[i].succ = 0 THEN i ELSE db'.rows[i].succ
               IN /\ was \subseteq db'.rows[holder].tags
                  /\ i \in DOMAIN db.rows /\ db.rows[i].succ = 0 /\ holder # i
                       => db'.rows[i].tags = {}
                  /\ Cardinality(Plain(db'.rows[i].tags))
                       <= Max({MaxTagsPerRow, Cardinality(Plain(was))})
  BY DEF TagsStay, TagsBefore, Holder
<1> QED
  BY <1>1, <1>2, RowsInvariant, PTL DEF Spec, AnnotationsFollow

=============================================================================
