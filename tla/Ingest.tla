------------------------------- MODULE Ingest -------------------------------
(***************************************************************************)
(* Reconciliation of one fetch with the ledger of one account:             *)
(* plugins/bank-feed/server/ingest.py.                                     *)
(*                                                                         *)
(* The code calls this module pure: rows in, a plan of inserts, updates,   *)
(* cancellations and flags out, which apply.py then carries out in one     *)
(* transaction.  Here it is a set of operators.  A context `c` is what the *)
(* caller loaded; a plan under construction `b` is threaded through the    *)
(* passes in the order the function runs them.                             *)
(*                                                                         *)
(* Abstractions.  A content is an index into Contents and its identity key *)
(* is that index, so the order of keys is the order of Contents.  A day is *)
(* a natural number; the value date is left out, the booking date stands   *)
(* for both.  A reference is a positive integer, 0 is none.  A standing    *)
(* finding is one field, `why`: "none" is needs_review = 0.  Confidence    *)
(* figures are left out.                                                   *)
(***************************************************************************)
EXTENDS Integers, Sequences, FiniteSets, SequencesExt

CONSTANTS
  Contents,          \* sequence of [amount, unit, party]; party 0 is absent
  MatchWindow,       \* MATCH_WINDOW_DAYS
  DriftBound,        \* AMOUNT_ONLY_MATCH_WINDOW_DAYS
  MaxExactCluster    \* MAX_EXACT_CLUSTER

ASSUME IngestAssumption ==
  /\ MatchWindow \in Nat /\ DriftBound \in Nat /\ DriftBound <= MatchWindow
  /\ MaxExactCluster \in Nat /\ Len(Contents) \in Nat \ {0}

NoRef == 0
Idents == 1 .. Len(Contents)

-----------------------------------------------------------------------------
(* Orders.                                                                 *)

LexLess(a, b) ==
  \E i \in DOMAIN a : a[i] < b[i] /\ \A j \in 1 .. i - 1 : a[j] = b[j]

\* The members of a finite set, by the integer tuple each is given: the n-th is
\* the one with n - 1 before it.
Sorted(S, key) ==
  [n \in 1 .. Cardinality(S) |->
     CHOOSE x \in S : Cardinality({y \in S : LexLess(key[y], key[x])}) = n - 1]

Ascending(S) == Sorted(S, [i \in S |-> <<i>>])

-----------------------------------------------------------------------------
(* Rows.                                                                   *)

\* The hash of a row's own content.
IdentityKey(r) == r.content

Days(x, y) == IF x < y THEN y - x ELSE x - y

Pending(r) == r.status = "PDNG"
Booked(r) == r.status = "BOOK"
Cancelled(r) == r.status = "CNCL"

\* Booked first, an unrecognised status next, pending last.
Rank(r) == IF Booked(r) THEN 0 ELSE IF Pending(r) THEN 2 ELSE 1

\* The exact booking: content, date and reference, no reference being its own.
BookingKey(r, ident) == <<ident, r.date, r.ref>>

\* A reference match is believed when the dates are days apart and the amount
\* is unchanged, or both rows name the same counterparty.
Corroborates(s, f) ==
  /\ Days(s.date, f.date) <= MatchWindow
  /\ Days(s.date, f.date) <= DriftBound
  /\ \/ Contents[s.content].amount = Contents[f.content].amount
     \/ /\ Contents[s.content].party # 0
        /\ Contents[s.content].party = Contents[f.content].party

\* The review reason of a match that rewrites money, or "none".
MoneyChange(s, f) ==
  CASE Contents[s.content].unit # Contents[f.content].unit
         -> "direction_or_currency_changed"
    [] Contents[s.content].amount # Contents[f.content].amount -> "amount_changed"
    [] OTHER -> "none"

Changed(s, f) == \E k \in {"content", "date", "ref", "status"} : s[k] # f[k]

-----------------------------------------------------------------------------
(* The context of a run, and the plan it builds.                           *)
(*   c.rows   every stored row, by row id                                  *)
(*   c.win    the rows of the window asked for, in every state             *)
(*   c.below  active and superseded rows dated before it                   *)
(*   c.ends   superseded row -> the active end of its chain                *)
(*   c.page   the fetched rows that are payments, in page order            *)
(*   c.alloc  identity -> next free occurrence, as the ledger recorded it  *)

Live(c) == {i \in c.win : c.rows[i].state = "active"}

NoPlan == [ins |-> <<>>, upd |-> <<>>, tomb |-> <<>>, flags |-> <<>>,
           usedF |-> {}, usedS |-> {}, edge |-> {}, reps |-> {},
           reused |-> {}, reuseF |-> {}, failed |-> {}, unresolved |-> {},
           fresh |-> {}, spent |-> {}]

\* The row's own content sits in the page, days away at most.
ContentPresent(c, i) ==
  \E k \in DOMAIN c.page :
    /\ c.page[k].content = c.rows[i].ident
    /\ Days(c.page[k].date, c.rows[i].date) <= DriftBound

\* Mutant of NextOccurrence: the durable mark is forgotten.
NextOccurrenceInView(c, b, ident) ==
  Max({0} \cup {c.rows[i].occ + 1 : i \in {j \in c.win : c.rows[j].ident = ident}}
          \cup {q[2] + 1 : q \in {r \in b.spent : r[1] = ident}})

\* Above every occurrence ever issued: the durable mark, the rows in view and
\* what this pass handed out.
NextOccurrence(c, b, ident) ==
  Max({c.alloc[ident]}
      \cup {c.rows[i].occ + 1 : i \in {j \in c.win : c.rows[j].ident = ident}}
      \cup {q[2] + 1 : q \in {r \in b.spent : r[1] = ident}})

InsertAs(b, f, ident, occ, why) ==
  [b EXCEPT !.ins = Append(@, [content |-> f.content, date |-> f.date, ref |-> f.ref,
                               status |-> f.status, ident |-> ident, occ |-> occ,
                               why |-> why]),
            !.spent = @ \cup {<<ident, occ>>}]

EmitInsert(c, b, f, why) ==
  InsertAs(b, f, IdentityKey(f), NextOccurrence(c, b, IdentityKey(f)), why)

\* Pending to booked supersedes: the booked row is inserted, the pending one
\* points at it, and a standing finding moves on with the money.
PointTo(b, i, why) ==
  [b EXCEPT !.upd = Append(@, [op |-> "supersede", id |-> i, by |-> Len(b.ins), why |-> why])]

EmitSupersede(c, b, i, f, why) ==
  LET inherited == IF why = "none" THEN c.rows[i].why ELSE why
  IN PointTo(EmitInsert(c, b, f, inherited), i, inherited)

\* Mutant of EmitUpdate: a re-keyed row keeps its old identity key.
EmitUpdateSameKey(c, b, i, f, why) ==
  LET s == c.rows[i]
  IN IF Changed(s, f) \/ why # "none"
     THEN [b EXCEPT !.upd = Append(@, [op |-> "update", id |-> i, row |-> f,
                                       ident |-> s.ident, occ |-> s.occ, why |-> why])]
     ELSE b

\* Every other match rewrites the row in place; content and identity move
\* together, under an occurrence of the new identity that was never issued.
EmitUpdate(c, b, i, f, why) ==
  LET s == c.rows[i]
      rekeyed == IdentityKey(f) # s.ident
      UpdateAs(occ) ==
        [b EXCEPT !.upd = Append(@, [op |-> "update", id |-> i, row |-> f,
                                     ident |-> IdentityKey(f), occ |-> occ, why |-> why]),
                  !.spent = IF rekeyed THEN @ \cup {<<IdentityKey(f), occ>>} ELSE @]
  IN IF Changed(s, f) \/ rekeyed \/ why # "none"
     THEN UpdateAs(IF rekeyed THEN NextOccurrence(c, b, IdentityKey(f)) ELSE s.occ)
     ELSE b

EmitMatch(c, b, i, f, why) ==
  IF Pending(c.rows[i]) /\ Booked(f) THEN EmitSupersede(c, b, i, f, why)
                                     ELSE EmitUpdate(c, b, i, f, why)

Flag(b, i, why) == [b EXCEPT !.flags = Append(@, [id |-> i, why |-> why])]

-----------------------------------------------------------------------------
(* Restatements under a trusted reference.  Rows of one reference and one  *)
(* content whose dates lie within the drift bound of the earliest are one  *)
(* transaction; the booked or earliest one is kept.                        *)

Bands(c, group) ==
  FoldLeft(LAMBDA bands, k :
             IF /\ bands # <<>>
                /\ Days(c.page[bands[Len(bands)][1]].date, c.page[k].date) <= DriftBound
             THEN [bands EXCEPT ![Len(bands)] = Append(@, k)]
             ELSE Append(bands, <<k>>),
           <<>>, Sorted(group, [k \in group |-> <<c.page[k].date, k>>]))

Kept(c, band) ==
  Head(Sorted(ToSet(band), [k \in ToSet(band) |-> <<Rank(c.page[k]), c.page[k].date, k>>]))

CollapseRestatements(c, b) ==
  LET withRef == {k \in DOMAIN c.page : c.page[k].ref # NoRef}
      groups == {{k \in withRef : c.page[k].ref = c.page[l].ref
                                  /\ c.page[k].content = c.page[l].content} : l \in withRef}
      bands == UNION {ToSet(Bands(c, g)) : g \in groups}
      kept == {Kept(c, band) : band \in bands}
  IN IF c.trusted THEN [b EXCEPT !.reps = kept, !.usedF = withRef \ kept] ELSE b

-----------------------------------------------------------------------------
(* Fetched rows dated before the window pair with the same booking below   *)
(* it, or are inserted.  Equal ranks first, then a settled restatement of  *)
(* a pending row, then the rest.                                           *)

Admissible(round, fetched, stored) ==
  CASE round = 1 -> fetched = stored
    [] round = 2 -> fetched < stored
    [] round = 3 -> TRUE

\* The first admissible stored copy that is left, for a row not yet paired.
PairOne(c, round, acc, k) ==
  LET n == SelectInSeq(acc.s, LAMBDA i : Admissible(round, Rank(c.page[k]), Rank(c.rows[i])))
  IN IF n = 0 \/ k \in acc.paired THEN acc
     ELSE [pairs |-> Append(acc.pairs, <<k, acc.s[n]>>), s |-> RemoveAt(acc.s, n),
           paired |-> acc.paired \cup {k}]

PairBooking(c, group, cands) ==
  LET fetched == Sorted(group, [k \in group |-> <<Rank(c.page[k]), k>>])
  IN FoldLeft(LAMBDA acc, round :
                FoldLeft(LAMBDA a, k : PairOne(c, round, a, k), acc, fetched),
              [pairs |-> <<>>, paired |-> {},
               s |-> Sorted(cands, [i \in cands |-> <<c.rows[i].occ, i>>])],
              <<1, 2, 3>>)

\* A pair is matched unless that would take a booking back to pending; the
\* stored copies left over are disclosed.
PairedOff(c, b, paired) ==
  LET Take(a, pr) ==
        LET used == [a EXCEPT !.edge = @ \ {pr[1]}, !.usedF = @ \cup {pr[1]}]
        IN IF Rank(c.page[pr[1]]) <= Rank(c.rows[pr[2]])
           THEN EmitMatch(c, used, pr[2], c.page[pr[1]], "none")
           ELSE used
      Copy(a, i) == IF c.rows[i].why = "none"
                    THEN Flag(a, i, "duplicate_of_stored_booking") ELSE a
  IN FoldLeft(Copy, FoldLeft(Take, b, paired.pairs), paired.s)

PrePassKey(c, b, key) ==
  PairedOff(c, b,
    PairBooking(c, {k \in b.edge : BookingKey(c.page[k], c.page[k].content) = key},
                {i \in c.below : /\ c.rows[i].state = "active"
                                 /\ BookingKey(c.rows[i], c.rows[i].ident) = key}))

\* Mutant of PrePass: a row dated before the window is never paired.
PrePassSkipped(c, b) ==
  [b EXCEPT !.edge = {k \in DOMAIN c.page : k \notin b.usedF /\ c.page[k].date < c.from}]

PrePass(c, b) ==
  LET edge == {k \in DOMAIN c.page : k \notin b.usedF /\ c.page[k].date < c.from}
      Key(k) == BookingKey(c.page[k], c.page[k].content)
      first == {k \in edge : \A l \in edge : Key(l) = Key(k) => k <= l}
  IN FoldLeft(LAMBDA a, k : PrePassKey(c, a, Key(k)), [b EXCEPT !.edge = edge],
              Sorted(first, [k \in first |-> Key(k)]))

-----------------------------------------------------------------------------
(* Rule 1: a trusted reference, corroborated.  All fetched rows under one  *)
(* reference are resolved together.                                        *)

RepOrder(c, k) == <<c.page[k].content, c.page[k].date, k>>

\* Content twins are reserved for their own rows before any row may claim a
\* fetched row it merely corroborates.
Reserved(c, reps, cands) ==
  FoldLeft(LAMBDA m, i :
             LET twins == {k \in reps \ {p[2] : p \in m} :
                             /\ c.page[k].content = c.rows[i].ident
                             /\ Corroborates(c.rows[i], c.page[k])}
             IN IF twins = {} THEN m
                ELSE m \cup {<<i, Head(Sorted(twins, [k \in twins |-> RepOrder(c, k)]))>>},
           {}, cands)

\* Why a reference match is disclosed, or "none".
MatchReason(c, i, k, ambiguous) ==
  CASE ambiguous -> "reference_shared_in_fetch"
    [] ~ambiguous /\ c.page[k].content # c.rows[i].ident /\ ContentPresent(c, i)
         -> "content_present_elsewhere"
    [] OTHER -> MoneyChange(c.rows[i], c.page[k])

\* The stored row takes the fetched row k of those it corroborates.
Claimed(c, acc, i, k, ambiguous) ==
  [claimed |-> acc.claimed \cup {k},
   b |-> [EmitMatch(c, acc.b, i, c.page[k], MatchReason(c, i, k, ambiguous)) EXCEPT
            !.usedS = @ \cup {i}, !.usedF = @ \cup {k}]]

\* None corroborates it: the reference was used again for something else.
Refused(acc, i, free) ==
  [claimed |-> acc.claimed,
   b |-> [Flag(acc.b, i, "provider_ref_reuse") EXCEPT
            !.reused = @ \cup {i}, !.failed = @ \cup {<<k, i>> : k \in free}]]

ClaimRep(c, acc, reps, reserved, i) ==
  LET near == {k \in reps : /\ k \notin acc.claimed \/ <<i, k>> \in reserved
                            /\ Corroborates(c.rows[i], c.page[k])}
      same == {k \in near : c.page[k].content = c.rows[i].ident}
      pool == IF same # {} THEN same ELSE near
  IN IF near = {} THEN Refused(acc, i, reps \ acc.claimed)
     ELSE Claimed(c, acc, i, Head(Sorted(pool, [k \in pool |-> RepOrder(c, k)])),
                  Cardinality(near) > 1 /\ Cardinality(same) # 1)

Resolved(c, b, reps, cands, reserved) ==
  FoldLeft(LAMBDA acc, i : ClaimRep(c, acc, reps, reserved, i),
           [b |-> b, claimed |-> {p[2] : p \in reserved}], cands)

Unclaimed(done, reps) == [done.b EXCEPT !.reuseF = @ \cup (reps \ done.claimed)]

Rule1Ref(c, b, ref) ==
  LET reps == {k \in b.reps : c.page[k].ref = ref} \ (b.usedF \cup b.edge)
      cands == Ascending({i \in Live(c) : c.rows[i].ref = ref})
  IN IF reps = {} \/ cands = <<>> THEN b
     ELSE Unclaimed(Resolved(c, b, reps, cands, Reserved(c, reps, cands)), reps)

Rule1(c, b) ==
  FoldLeft(LAMBDA a, ref : Rule1Ref(c, a, ref), b,
           Ascending({c.page[k].ref : k \in b.reps}))

-----------------------------------------------------------------------------
(* Rule 2: by content and date.  A matching of the largest size, then of   *)
(* the least total distance; greedy and disclosed when the cluster is too  *)
(* large to search.                                                        *)

Edges(c, fs, ss, blocked) ==
  {e \in fs \X ss : /\ Days(c.page[e[1]].date, c.rows[e[2]].date) <= MatchWindow
                    /\ e \notin blocked}

\* Matchings, each as the sequence of its pairs in page order.
Matchings(edges) ==
  {Sorted(m, [pr \in m |-> pr]) :
     m \in {n \in SUBSET edges : \A x, y \in n : x # y => x[1] # y[1] /\ x[2] # y[2]}}

\* Total distance, then dates, then row ids, then page order.
MatchingKey(c, m) ==
  LET f == [n \in DOMAIN m |-> c.page[m[n][1]].date]
      s == [n \in DOMAIN m |-> c.rows[m[n][2]].date]
  IN <<FoldLeft(LAMBDA x, y : x + y, 0, [n \in DOMAIN m |-> Days(f[n], s[n])])>>
       \o f \o s \o [n \in DOMAIN m |-> m[n][2]] \o [n \in DOMAIN m |-> m[n][1]]

Largest(matchings) == {m \in matchings : \A o \in matchings : Len(o) <= Len(m)}

Least(c, matchings) ==
  CHOOSE m \in matchings :
    \A o \in matchings : ~LexLess(MatchingKey(c, o), MatchingKey(c, m))

ExactMatching(c, edges) == Least(c, Largest(Matchings(edges)))

GreedyMatching(c, fs, edges) ==
  FoldLeft(LAMBDA pairs, k :
             LET free == {e[2] : e \in {x \in edges : x[1] = k}}
                           \ {pr[2] : pr \in ToSet(pairs)}
                 near == [i \in free |-> <<Days(c.page[k].date, c.rows[i].date),
                                            c.rows[i].date, i>>]
             IN IF free = {} THEN pairs
                ELSE Append(pairs, <<k, Head(Sorted(free, near))>>),
           <<>>, Sorted(fs, [k \in fs |-> <<c.page[k].date, k>>]))

MatchPairs(c, b, pairs, ambiguous) ==
  LET Why(k) == CASE k \in b.reuseF -> "provider_ref_reuse"
                  [] k \notin b.reuseF /\ ambiguous -> "windowed_ambiguous"
                  [] OTHER -> "none"
      Take(a, pr) == [EmitMatch(c, a, pr[2], c.page[pr[1]], Why(pr[1])) EXCEPT
                        !.usedS = @ \cup {pr[2]}, !.usedF = @ \cup {pr[1]}]
  IN FoldLeft(Take, b, pairs)

\* Rows of a cluster too large to search that nothing else was said of.
FlagSilent(b, ss) ==
  FoldLeft(LAMBDA a, i : Flag(a, i, "unresolved_cluster"), b,
           Ascending(ss \ ({u.id : u \in ToSet(b.upd)} \cup {f.id : f \in ToSet(b.flags)})))

Rule2Ident(c, b, ident) ==
  LET fs == {k \in DOMAIN c.page : c.page[k].content = ident} \ (b.usedF \cup b.edge)
      ss == {i \in Live(c) : c.rows[i].ident = ident} \ b.usedS
      edges == Edges(c, fs, ss, b.failed)
      clear == \/ fs = {} \/ ss = {}
               \/ Cardinality(fs) <= MaxExactCluster /\ Cardinality(ss) <= MaxExactCluster
  IN IF clear THEN MatchPairs(c, b, ExactMatching(c, edges), FALSE)
     ELSE FlagSilent(MatchPairs(c, [b EXCEPT !.unresolved = @ \cup {ident}],
                                GreedyMatching(c, fs, edges), TRUE), ss)

Rule2(c, b) ==
  FoldLeft(LAMBDA a, ident : Rule2Ident(c, a, ident), b,
           Ascending({c.page[k].content :
                        k \in DOMAIN c.page \ (b.usedF \cup b.edge)}))

-----------------------------------------------------------------------------
(* What is left of the page is inserted; what is left of the ledger stays. *)

InsertRest(c, b) ==
  FoldLeft(LAMBDA a, k :
             LET why == CASE k \in a.reuseF -> "provider_ref_reuse"
                          [] k \notin a.reuseF /\ c.page[k].content \in a.unresolved
                               -> "windowed_ambiguous"
                          [] OTHER -> "none"
             IN [EmitInsert(c, a, c.page[k], why) EXCEPT
                   !.fresh = @ \cup {Len(a.ins) + 1}],
           b, Ascending(DOMAIN c.page \ b.usedF))

\* Rule 3.  Its tombstones need a date inside an interval the production
\* callers always pass empty; what remains of it is the disclosure of a live
\* row whose content went to another row.
Rule3(c, b) ==
  LET left == {i \in Live(c) \ (b.usedS \cup b.reused) :
                 c.rows[i].ident \notin b.unresolved /\ ContentPresent(c, i)}
  IN FoldLeft(LAMBDA a, i : Flag(a, i, "content_present_elsewhere"), b, Ascending(left))

\* Rule 3b: the bank no longer lists a pending payment well inside the window.
Rule3b(c, b) ==
  LET gone == {i \in Live(c) \ (b.usedS \cup b.reused) :
                 /\ Pending(c.rows[i]) \/ Cancelled(c.rows[i])
                 /\ c.rows[i].ident \notin b.unresolved
                 /\ ~ContentPresent(c, i)
                 /\ c.rows[i].date >= c.from + MatchWindow}
  IN [b EXCEPT !.tomb = Ascending(gone)]

-----------------------------------------------------------------------------
(* Disclosure.  Every row this plan adds or moves that looks like another  *)
(* across the window's edge is flagged, and so is the other, each at the   *)
(* active end of its supersession chain.                                   *)

Updates(b, op) == {b.upd[n] : n \in {m \in DOMAIN b.upd : b.upd[m].op = op}}
Standing(c) == {i \in c.win \cup c.below : c.rows[i].state \in {"active", "superseded"}}

\* Stored rows and inserts, as nodes <<"s", row id>> and <<"i", index>>.
Nodes(c, b) == {<<"s", i>> : i \in Standing(c)} \cup {<<"i", n>> : n \in DOMAIN b.ins}

Was(c, i) == <<c.rows[i].date, c.rows[i].ident, c.rows[i].ref>>

\* Date, identity and reference of a node once the plan has landed.
Place(c, b, n) ==
  IF n[1] = "i" THEN <<b.ins[n[2]].date, b.ins[n[2]].ident, b.ins[n[2]].ref>>
  ELSE LET rewrites == {<<u.row.date, u.ident, u.row.ref>> :
                          u \in {v \in Updates(b, "update") : v.id = n[2]}}
       IN IF rewrites = {} THEN Was(c, n[2]) ELSE CHOOSE w \in rewrites : TRUE

\* The active end of a node's supersession chain.
EndOf(c, b, node) ==
  LET loaded == c.win \cup c.below
      Successor(i) == {u.by : u \in {v \in Updates(b, "supersede") : v.id = i}}
      End[i \in loaded] ==
        CASE Successor(i) # {} -> <<"i", CHOOSE n \in Successor(i) : TRUE>>
          [] Successor(i) = {} /\ c.rows[i].state = "active" -> <<"s", i>>
          [] Successor(i) = {} /\ c.rows[i].state # "active" /\ c.rows[i].succ \in loaded
               -> End[c.rows[i].succ]
          [] OTHER -> IF i \in DOMAIN c.ends THEN <<"s", c.ends[i]>> ELSE <<"none", 0>>
  IN IF node[1] = "i" THEN node ELSE End[node[2]]

\* What the plan adds, and what it moves to another date, content or reference.
Subjects(c, b, place) ==
  {<<"i", n>> : n \in b.fresh}
    \cup {<<"i", u.by>> : u \in {v \in Updates(b, "supersede") :
                                 Was(c, v.id) # place[<<"i", v.by>>]}}
    \cup {<<"s", u.id>> : u \in {v \in Updates(b, "update") :
                                 v.id \in Standing(c) /\ Was(c, v.id) # place[<<"s", v.id>>]}}

EdgeTwins(c, b, place, end) ==
  LET BelowEdge(n) == IF n[1] = "i" THEN b.ins[n[2]].date < c.from ELSE n[2] \in c.below
      Twins(x, y) ==
        /\ x # y
        /\ \/ place[x][2] = place[y][2]
           \/ place[x][3] = place[y][3] /\ place[x][3] # NoRef
        /\ BelowEdge(x) \/ BelowEdge(y)
        /\ Days(place[x][1], place[y][1]) <= DriftBound
        /\ end[y][1] # "none" /\ end[y] # end[x]
  IN UNION {{end[pr[1]], end[pr[2]]} :
              pr \in {q \in Subjects(c, b, place) \X Nodes(c, b) : Twins(q[1], q[2])}}

\* Whatever the plan already says of a row stands.
FlagTwins(c, b, targets) ==
  LET why == "duplicate_across_window_edge"
      Quiet(i) == /\ c.rows[i].why = "none"
                  /\ \A n \in DOMAIN b.flags : b.flags[n].id # i
                  /\ \A n \in DOMAIN b.upd : b.upd[n].id = i => b.upd[n].why = "none"
      Mark(n) == IF <<"i", n>> \in targets /\ b.ins[n].why = "none"
                 THEN [b.ins[n] EXCEPT !.why = why] ELSE b.ins[n]
  IN FoldLeft(LAMBDA a, i : Flag(a, i, why), [b EXCEPT !.ins = [n \in DOMAIN @ |-> Mark(n)]],
              Ascending({i \in DOMAIN c.rows : <<"s", i>> \in targets /\ Quiet(i)}))

Disclose(c, b) ==
  IF b.ins = <<>> /\ b.upd = <<>> THEN b
  ELSE FlagTwins(c, b, EdgeTwins(c, b, [n \in Nodes(c, b) |-> Place(c, b, n)],
                                       [n \in Nodes(c, b) |-> EndOf(c, b, n)]))

-----------------------------------------------------------------------------
(* The plan for one fetch.                                                 *)

\* The rows of an answer that are payments.
Payments(fetched) ==
  FoldLeft(LAMBDA page, f : IF Cancelled(f) THEN page ELSE Append(page, f), <<>>, fetched)

PlanOf(b) == [ins |-> b.ins, upd |-> b.upd, tomb |-> b.tomb, flags |-> b.flags]

Passes(c) ==
  Disclose(c, Rule3b(c, Rule3(c, InsertRest(c, Rule2(c, Rule1(c,
    PrePass(c, CollapseRestatements(c, NoPlan))))))))

Reconcile(loaded, fetched, trusted, alloc, from) ==
  PlanOf(Passes([rows |-> loaded.rows, win |-> loaded.win, below |-> loaded.below,
                 ends |-> loaded.ends, trusted |-> trusted, alloc |-> alloc, from |-> from,
                 page |-> Payments(fetched)]))
=============================================================================
