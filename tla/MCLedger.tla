------------------------------ MODULE MCLedger ------------------------------
(* A family of small instances of Ledger, one per scenario.                *)
EXTENDS Ledger

CONSTANTS p1, p2

MCContents == <<[amount |-> 1, unit |-> 1, party |-> 1],
                [amount |-> 2, unit |-> 1, party |-> 1],
                [amount |-> 1, unit |-> 2, party |-> 2]>>

MCNamespace ==
  [t \in {"food", "rent", "awaiting-operator", "acct::seen"} |->
     IF t = "acct::seen" THEN "acct" ELSE ""]

Entry(content, ref, status, age) ==
  [content |-> content, ref |-> ref, status |-> status, age |-> age]
Listed(content, ref, status, date) ==
  [content |-> content, ref |-> ref, status |-> status, date |-> date]
ByParty(party, tags) ==
  [party |-> party, unit |-> Absent, lo |-> Absent, hi |-> Absent,
   dayLo |-> Absent, dayHi |-> Absent, tags |-> tags]

Base == [procs |-> {p1}, linked |-> "empty", firstDay |-> 30, lastDay |-> 30, bank |-> <<>>,
         rules |-> {}, kinds |-> {"routine"}, automatic |-> {FALSE}, outcomes |-> {"ok"},
         older |-> {FALSE}, times |-> {}, moves |-> {}, entries |-> {}, later |-> {0},
         figures |-> {}, ops |-> {}, cuts |-> {}, offered |-> {}, taggings |-> {},
         runs |-> 2, bankMoves |-> 0, calls |-> 0, crashes |-> 0]

\* Payments that book, repeat, slip in late or disappear, over three fetches.
History == [Base EXCEPT !.runs = 3, !.lastDay = 31, !.moves = {"post", "book", "withdraw", "void"},
              !.bankMoves = 3, !.later = {0, 1}, !.older = {FALSE, TRUE},
              !.entries = {Entry(1, 1, "PDNG", 0), Entry(1, NoRef, "BOOK", 1)}]

\* A purged account whose references were trusted, and a bank that corrects.
Trusting == [Base EXCEPT !.linked = "purged", !.runs = 3, !.lastDay = 31,
               !.moves = {"post", "correct", "book"}, !.bankMoves = 3, !.older = {FALSE},
               !.bank = <<Listed(1, 1, "PDNG", 30)>>,
               !.entries = {Entry(2, 1, "BOOK", 0), Entry(1, 2, "BOOK", 1)}]

\* More of one content in one window than the matcher searches.
Crowd == [Base EXCEPT !.runs = 2, !.lastDay = 31, !.moves = {"post", "withdraw"}, !.bankMoves = 2,
            !.outcomes = {"ok", "failed"},
            !.bank = <<Listed(1, NoRef, "BOOK", 29), Listed(1, NoRef, "BOOK", 30)>>,
            !.entries = {Entry(1, NoRef, "BOOK", 0), Entry(3, NoRef, "PDNG", 2)}]

\* Purges between fetches of payments that look alike.
Purging == [Base EXCEPT !.runs = 3, !.lastDay = 31, !.moves = {"post", "book"}, !.bankMoves = 2,
              !.ops = {"purge", "purge_all"}, !.calls = 2, !.cuts = {29, 31},
              !.later = {-1, 0},
              !.bank = <<Listed(1, 1, "PDNG", 29), Listed(1, 2, "BOOK", 25)>>,
              !.entries = {Entry(1, 2, "BOOK", 0)}]

\* A bank that also answers with rows from before the day it was asked for.
Older == [Base EXCEPT !.runs = 3, !.older = {FALSE, TRUE}, !.moves = {"post"}, !.bankMoves = 1,
            !.bank = <<Listed(1, 1, "BOOK", 25), Listed(2, NoRef, "BOOK", 30)>>,
            !.entries = {Entry(1, NoRef, "BOOK", 5), Entry(1, 2, "BOOK", 3),
                         Entry(2, NoRef, "PDNG", 4)}]

\* Two processes, links, renewals and erasures.
Racing == [Base EXCEPT !.procs = {p1, p2}, !.linked = "no", !.runs = 2,
             !.kinds = {"link", "routine"}, !.ops = {"forget", "unlink", "purge_all"},
             !.calls = 2, !.bank = <<Listed(1, 1, "BOOK", 30)>>]

Renewing == [Base EXCEPT !.procs = {p1, p2}, !.runs = 2, !.kinds = {"renew", "routine"},
               !.outcomes = {"ok", "capped"}, !.ops = {"forget", "unlink"}, !.calls = 1,
               !.crashes = 1, !.bank = <<Listed(1, 1, "BOOK", 25), Listed(2, 2, "BOOK", 30)>>]

\* A run that stalls between its reads and its transaction, while another one
\* lands the same payment and a third re-keys it.
Stalling == [Base EXCEPT !.procs = {p1, p2}, !.linked = "purged", !.runs = 3, !.times = {"claim"},
               !.moves = {"correct"}, !.bankMoves = 1, !.bank = <<Listed(1, 1, "BOOK", 30)>>]

\* Refusals, failures and waits, answered out of order.
Failing == [Base EXCEPT !.procs = {p1, p2}, !.runs = 3, !.kinds = {"routine"},
              !.outcomes = {"ok", "refused", "limited"}, !.times = {"claim", "wait"}]

Balances == [Base EXCEPT !.procs = {p1, p2}, !.runs = 2, !.kinds = {"balances", "routine"},
               !.figures = {{}, {"CLBD"}, {"CLBD", "ITAV"}}, !.automatic = {FALSE, TRUE},
               !.times = {"recent"}, !.ops = {"forget"}, !.calls = 1]

\* Rules, tags and the rows they land on.
Tagging == [Base EXCEPT !.runs = 2, !.bank = <<Listed(1, 1, "PDNG", 30)>>,
              !.moves = {"book"}, !.bankMoves = 1, !.calls = 3,
              !.rules = {ByParty(1, {"food"})},
              !.offered = {ByParty(1, {"food", "rent"}), ByParty(2, {"rent"})},
              !.taggings = {{"rent"}, {"acct::seen"}},
              !.ops = {"add_rule", "remove_rule", "replace_rule", "apply_rules", "tag",
                       "untag", "rename", "delete_tag", "purge"}, !.cuts = {31}]

MCScenarios ==
  {History, Trusting, Crowd, Purging, Older, Racing, Renewing, Stalling, Failing, Balances,
   Tagging}

\* One fetch after one of two alike pending payments was booked; the bank also
\* lists a payment it dates a day ahead.
Unchanging == [Base EXCEPT !.linked = "twins", !.runs = 1,
                 !.bank = <<Listed(1, NoRef, "BOOK", 30), Listed(1, NoRef, "PDNG", 30),
                            Listed(2, NoRef, "BOOK", 31)>>]

MCReingest == {Unchanging}
=============================================================================
