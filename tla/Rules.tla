------------------------------- MODULE Rules -------------------------------
(***************************************************************************)
(* Auto-tagging rules and the tag budgets of one row:                      *)
(* plugins/bank-feed/server/rules.py.                                      *)
(*                                                                         *)
(* A rule is a conjunction of predicates over a row's content and booking  *)
(* date, and the tags it adds.  The counterparty stands for both anchors   *)
(* (counterparty text and remittance word), the unit for direction and     *)
(* currency together; 0 is an absent predicate.  A tag is a string, and    *)
(* Namespace gives the workflow that owns it, "" for a plain tag.          *)
(***************************************************************************)
EXTENDS Integers, Sequences, FiniteSets

CONSTANTS
  Namespace,            \* tag -> owning workflow, "" for a plain tag
  MaxTagsPerRule,       \* MAX_TAGS_PER_RULE
  MaxTagsPerRow,        \* MAX_TAGS_PER_ROW
  MaxTagsPerNamespace,  \* MAX_TAGS_PER_NAMESPACE
  MaxNamespacedPerRow,  \* MAX_NAMESPACED_PER_ROW
  RulebookCap,          \* RULEBOOK_CAP
  MonthLength           \* days of the model's month

Absent == 0
Tags == DOMAIN Namespace

ASSUME RulesAssumption == IsFiniteSet(Tags) /\ MaxTagsPerRow \in Nat

Markers == {"awaiting-operator", "unclassifiable"}
Plain(tags) == {t \in tags : Namespace[t] = ""}
Owned(tags, owner) == {t \in tags : Namespace[t] = owner}
IsClassification(t) == Namespace[t] = "" /\ t \notin Markers

-----------------------------------------------------------------------------
(* Predicates.                                                             *)

\* What validate_rule lets through: an anchor, bands in order, an amount band
\* only beside a unit, and plain tags that are no workflow marker.
ValidRule(r) ==
  /\ r.party # Absent
  /\ r.lo # Absent \/ r.hi # Absent => r.unit # Absent
  /\ r.lo # Absent /\ r.hi # Absent => r.lo <= r.hi
  /\ r.dayLo # Absent /\ r.dayHi # Absent => r.dayLo <= r.dayHi
  /\ r.tags # {} /\ Cardinality(r.tags) <= MaxTagsPerRule
  /\ \A t \in r.tags : IsClassification(t)

\* The predicate set, without the tags: two rules that match alike are
\* duplicates whatever they add.
Signature(r) == <<r.party, r.unit, r.lo, r.hi, r.dayLo, r.dayHi>>

DayOfMonth(date) == (date % MonthLength) + 1

\* `of` is the content of the row, `date` its booking date.
RuleMatches(r, of, date) ==
  /\ r.party \in {Absent, of.party}
  /\ r.unit \in {Absent, of.unit}
  /\ r.lo = Absent \/ r.lo <= of.amount
  /\ r.hi = Absent \/ of.amount <= r.hi
  /\ r.dayLo = Absent \/ r.dayLo <= DayOfMonth(date)
  /\ r.dayHi = Absent \/ DayOfMonth(date) <= r.dayHi

-----------------------------------------------------------------------------
(* Budgets of one row.  Only a budget the call adds to is checked.         *)

CapProblem(existing, adding) ==
  LET new == adding \ existing
      union == existing \cup adding
      touched == {Namespace[t] : t \in new} \ {""}
  IN \/ Plain(new) # {} /\ Cardinality(Plain(union)) > MaxTagsPerRow
     \/ \E owner \in touched : Cardinality(Owned(union, owner)) > MaxTagsPerNamespace
     \/ touched # {} /\ Cardinality(union \ Plain(union)) > MaxNamespacedPerRow

\* All matching rules at once: the whole union, or nothing over a budget.
TagsByRules(book, of, date, initial) ==
  LET union == initial \cup UNION {r.tags : r \in {x \in book : RuleMatches(x, of, date)}}
  IN IF CapProblem(initial, union) THEN initial ELSE union

\* The state a row is queued under.
ClassificationState(tags) ==
  CASE "unclassifiable" \in tags -> "terminal"
    [] "awaiting-operator" \in tags /\ "unclassifiable" \notin tags -> "parked"
    [] tags \cap Markers = {} /\ \E t \in tags : IsClassification(t) -> "classified"
    [] OTHER -> "workable"

-----------------------------------------------------------------------------
(* The rulebook.                                                           *)

CanAdd(book, r) ==
  /\ ValidRule(r)
  /\ \A other \in book : Signature(other) # Signature(r)
  /\ Cardinality(book) < RulebookCap

CanReplace(book, old, r) ==
  /\ old \in book /\ ValidRule(r)
  /\ \A other \in book \ {old} : Signature(other) # Signature(r)

\* A tag renamed or removed inside every rule; a rule left without a tag goes.
RewrittenRules(book, old, new) ==
  {r \in {[x EXCEPT !.tags = IF old \in @ THEN (@ \ {old}) \cup new ELSE @] : x \in book} :
     r.tags # {}}
=============================================================================
