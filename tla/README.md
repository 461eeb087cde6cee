# Verification of the bank feed

TLA+ models of `plugins/bank-feed/server`, TLC configurations that check them
on small instances, and TLAPS proofs of the properties that matter most for
every instance. Paths below are relative to that directory unless they start
with `docs/` or `scripts/`.

## The system

An MCP server, one process per client session, keeps a household's bank
transactions in one SQLite ledger. Several of these processes can run at once.
They share the ledger, an append-only backup index beside it, a directory of
whole-ledger copies, a callback inbox and a credential vault, and they reach
the aggregator (Enable Banking) over HTTP.

| Part | State | Operations | Interaction |
|---|---|---|---|
| Backup index (`backups.py`, `tools_backup.py`) | index file, copies, restore marker and workflow registrations in the ledger | `backup`, `list_backups`, `restore_backup`, settlement, retention, erasure sweep | ledger write lock, then index flock; everything below that erases or writes for a workflow goes through it |
| Workflow writes (`tools_annotate.py`, `tools_rules.py`) | tags, notes, rules | tag, untag, note, rename, delete, rule CRUD | fenced by the restore generation; the first write of a workflow mints a copy |
| Destructive tools (`tools_destructive.py`) | everything | `purge`, `forget_local_account`, `unlink_bank`, `delete_all_data`, `delete_data_keep_signins` | copy first (scoped) or erase the copies too (total); asks the banks to withdraw access |
| Authorization (`callbacks.py`, `flows.py`, `tools_auth.py`) | `auth_attempts`, `sessions`, bindings | link, renew, collect a callback, exchange its code, promote, contain, revoke | callback inbox (delivered at least once), leases between processes, HTTP |
| Refresh (`tools_refresh.py`, `ingest.py`, `apply.py`) | `transactions`, `balances`, `coverage`, `sync_state` | admission, claim, fetch, reconcile, apply | reads before an HTTP call and writes after it |
| Rules and provenance (`rules.py`, `provenance.py`) | rule set, evidence for each tag | caps, sweep, withdrawal of evidence | same transactions as the workflow writes |
| Store (`store.py`) | ledger file, mode marker, schema version | open, migrate, snapshot, settle on open | open lock; a snapshot is a copy of the ledger an erasure must find |
| Server (`bank_feed_server.py`) | lifecycle lock, uninstall fence | dispatch | shared lock per call, exclusive lock for an uninstall |
| Vault and hand-off (`opvault.py`, `casa_handoff.py`, `casa_broker.py`) | creation record, published files | create or adopt an item, publish, capture | external programs |
| Readers, clients, guards | none | queries, HTTP requests, repository scans | — |

What makes it hard: a tool call is a series of commits to three stores (ledger,
index, directory) that share no transaction; any process dies between any two;
another process acts between two calls of one conversation; and the network
answers late, twice or never. For each part the properties that make it correct:

* **Backup index**: an erased row never comes back; a copy that is promised
  stands; what the index says of restores is what happened; what was left open
  is closed.
* **Workflow writes**: none lands in a ledger that was restored under it, none
  without a restore point from before it.
* **Destructive tools**: nothing scoped is erased without its copy, nothing
  total survives in one.
* **Authorization**: a code is spent once, an acknowledged callback is a
  committed one, an obsolete attempt never becomes a live session, no session is
  both live at the bank and unknown here.
* **Refresh**: rows are applied only to the life of the account they were
  fetched for; a transaction is superseded once and keeps what the operator said
  of it; an identity is given once; coverage is never claimed for days nobody
  fetched; fetching a page again changes nothing.
* **Rules**: budgets hold wherever tags arrive, also through a supersession.
* **Store, server**: one directory holds one world; a ledger stamped current is
  whole; nothing refills behind the uninstall fence.
* **Vault, setup, hand-off**: what was created stays recorded until it is gone;
  an application is registered only under a key that can be read again, and never
  beside another of ours; "complete" is said of a clean installation only.

## The modules

| Module | Models |
|---|---|
| `RestorePoints` | the promise of the backup subsystem, with no index, files or crashes |
| `Backups` | the index protocol with every step of it, its failures, crashes and power losses |
| `Authorizations` | the promise of authorization, with no leases, processes or crashes |
| `Collection` | link, renewal, collection of the bank's answer, and the two destructive tools that change the same rows |
| `Ingest` | reconciliation of one fetch with the stored rows, as operators |
| `Rules` | rules, tag budgets and the rulebook, as operators |
| `Ledger` | one account's rows and every run and call that writes them; extends `Ingest` and `Rules` |
| `Install` | the data directory, the server processes over it, setup, the vault and the two total erasers |
| `MCBackups`, `MCCollection` | constants and symmetries of small instances |
| `MCLedger`, `MCInstall` | the scenarios of `Ledger` and `Install` |
| `BackupsProofs`, `CollectionProofs` | theorems about `Backups` and `Collection` |
| `Folding`, `PlanProofs` | what a fold keeps; theorems about `Ingest` |
| `LedgerProofs`, `RowsProofs` | theorems about `Ledger`, the second module on top of the first |
| `InstallProofs`, `LadderProofs` | theorems about `Install`, the second module on top of the first |

Properties and mutants (an operator named after the definition it replaces,
preceded by the words "Mutant of") stand in the module they are about.

The four machines cut the program where it cuts itself. `Ledger` has one
account in one ledger file that stands; `Install` has whether the file stands, and
treats its rows as one flag, `data`; `Backups` has the copies of the file, its
rows reduced to which erasure they come after; `Collection` has sessions and
attempts. Where a call belongs to two of them each has its own part of it:
`forget_local_account` erases rows in `Ledger`, attempts in `Collection`, and takes
its copy in `Backups`. No property of one speaks of a variable of another.

`Backups` and `Collection` share the accounts table in the code: a copy or a
restore keeps bindings, sessions and attempts live, so the index protocol and
the authorization protocol are checked apart.

## `Backups`

### State

| Variable | Code |
|---|---|
| `db` | the committed ledger: which total erasure its rows come after (`life`), `workflow_registrations` (`regs`), which workflows have rows in it (`wrote`), `meta.backup_restore_op` (`marker`) |
| `index`, `flushed`, `torn` | complete records of `<ledger>.backup-index`, how many were fsynced, a partial last record |
| `dir`, `onDisk` | `<ledger>.backups/` (no file, `.sqlite.partial`, `.sqlite`) and the pre-migration snapshot beside the ledger, as processes see them and as a power loss may leave them |
| `content` | what each whole copy holds, and the erasure epoch it was taken in |
| `txn`, `lock` | the holder of BEGIN IMMEDIATE and of the index flock |
| `job` | program counter, call, operation and sweep work list of each process |
| `seen` | the generation each workflow's conversation passes back as `generation` |
| `life`, `epoch`, `restored`, `swept` | history only: the erasures and restores that really committed, and the erasures whose sweep of the directory has begun |

### Actions

A call is `Begin`, `Acquire`, settlement (`SettleErase` and its sweep,
`SettleBackup`, `SettleRestore`), then its own steps, each a commit point:

* `list_backups` and the settlement on every open of the ledger: `List`.
* `backup`: `Copy`, `Name` (`pending`), `Place` (rename and directory flush),
  `Commit`, `Close`, `Prune`.
* a fenced write: the same with the fence and `StageWrite` when the registered
  copy stands; `CommitFails` records an orphan.
* `purge`, `forget_local_account`: call `scoped`, the same with a class of its
  own.
* `restore_backup`: `RestoreBegin`, `RestoreCommit`, `RestoreClose`.
* `delete_all_data`, `delete_data_keep_signins`: call `erase`; the destruction
  of proven session handles, with its second sweep: call `handles`.
  `EraseBegin`, `EraseCommit`, `SweepFile`, `SweepStuck`, `RecordAbsent`,
  `SweepDone`, `SweepIncomplete`.

`AppendRecord` has the four outcomes of `IndexHandle.append`: `ok`, `unflushed`
(written, fsync failed), `absent` (cut back, or the handle was poisoned),
`torn`. `Crash` ends one process between any two steps, and also stands for a
statement that raises. `PowerLoss` ends all of them, keeps a prefix of the
index no shorter than `flushed`, and for each directory entry any state since
its last flush. The ledger itself is SQLite's, and its COMMIT is durable.

### Abstractions

* An operation id is the number of its mint. The code's ids are random; their
  order is the position of the `pending` record (`seq`), which mint order is.
* The ledger's rows are reduced to what the properties tell apart: which life
  they belong to and which workflows wrote. Reply texts, `SettleLog`, and the
  header line of the index are left out (a torn header is a torn tail).
* An entry that cannot be inspected is a `SweepStuck`. A death between an
  unlink and its record is the outcome `absent`. A failing VACUUM is `Refuse`.
* There is at most one pre-migration snapshot, present from the start or never.
* Not modelled here: the clean slate at the end of a total erasure and the
  lifecycle lock, which are in `Install`. Leaving the lock out only adds
  interleavings. `RefuseEarly` stands for the
  refusals that the ledger instance causes.
* `restore` drops registrations at or after the restored point; a consistent
  copy has none, so that branch is present and idle.

### Runs

All use one file per operation id, a retention bound of one copy per class
(the code's are 8, 8, 8 and 4: one is the smallest bound at which a class
overflows, and two copies overflow it) and the bounds `MaxOps` on operation
ids and `MaxFaults` on failures, crashes and power losses.

| Run | Instance | Question |
|---|---|---|
| `backups_crash` | 1 process, 1 workflow, every tool, 3 operations, 1 fault | `TypeOK`, `IndexParses`, `NoResurrection`, `ErasureAudited`, `ScopedErasureKeepsCopy`, `KeepsPromise` |
| `backups_procs` | 2 processes, 2 workflows, both symmetric; list, write, restore, erase, 3 operations, 2 faults | `OneOpen`, `FenceHolds`, `RestorePointPrecedes`, `GenerationIsExact`, `ErasedCopiesGone`, `RegisteredCopyStands` |
| `backups_settle` | 2 processes, 2 operations, 1 fault, fair, no symmetry | `OpenOperationsSettle` |
| `retention_power_loss` | 1 process, list and backup, 3 operations, 1 fault | violates `RetentionBounded` |

Three operations are enough for copy, erase or restore, and a third that meets
what the first two left; one fault suffices for each single crash, two for a
failure during the recovery from a failure. With one process calls still
interleave with crashes; the second process adds what happens between two calls
of a conversation and at the locks.

`KeepsPromise` is refinement: `Backups` implements `RestorePoints` under the
mapping `Promise` (rows of the ledger, rows of the copies of the present epoch
that have been given their name, number of restores). A restore that commits
is a `Restore` of the promise to one of its points, a write a `Write` by a pass
bound to the present generation.

`IndexParses` asks for no second `prune` record of an operation either, which
`_parse` itself would accept: the docs call the record the one audit record of
a copy.

Two invariants name the one thing that takes a registered copy away: an erasure
that began after the copy and has begun to sweep (`swept`). That is more
than the erasures that committed. `settle` (backups.py:876) acts on the records
it reads without flushing them first, so an erasure whose `pending` record was
written but not flushed, and whose process then died before COMMIT, is swept on
by the next settlement (the copies of a ledger that was never erased go, which
backups.py:372-380 and docs/architecture/backups-erasure.md:98 accept), and a
power loss may drop its record afterwards. The copies are then gone, and
the index holds no erasure that explains it. It takes three or four faults, more
than the runs allow; the proof of `RegisteredCopyStands` met it.

### Fairness

`FairSpec` assumes weak fairness of each process's own steps (a call that does
not crash returns; `flock` is polled for a bounded time and then gives up) and
strong fairness of beginning a listing-type call: `store.open_ledger` attempts a
settlement on every open (`_settle_best_effort`), so settlements keep being
attempted as long as the program is used at all, and one of them gets both locks.
Faults are bounded, so they end. Failures are never forced by fairness: `Advance`
has an enabled success wherever it has a failure.

### The finding

`retention_power_loss`: `prune` unlinks an excess copy, does not flush the
directory, and appends and flushes `prune … done`. After a power loss the file
may be back while its record stands; every later prune skips an operation that
has one. `docs/architecture/backups-and-restore.md` (lines 290–292) bounds each class.
The copy stays until a total erasure, which lists the directory, takes it.

## `Collection`

### State

| Variable | Code |
|---|---|
| `att` | `attempts`: phase, outcome (the exchange's verdict, then the settlement's), purpose, the fence (`account`, `expected` generation), whether a session was noted, the lease token and whether it has expired |
| `sess` | `sessions`: status, generation, `closed_at` |
| `acct` | `accounts`: present, incarnation (`life`), binding; the session the transactions `sync_state` is stamped complete for (`fetched`); and, history only, whether some binding of this life was let go (`released`) |
| `rec`, `result`, `acked` | casa's attempt record, published result, acknowledgements |
| `grant` | whether the provider holds the consent |
| `posted` | history only: how often each code was posted |
| `proc` | program counter and local variables of each collecting process: the attempt, the record as it was read (`saw`), the old session of a renewal (`prior`), the incarnations it read (`lives`), whether the account it is about to bind had no row (`fresh`), the accounts still to do |
| `unlink` | an `unlink_bank` call waiting for the provider, and its answer |

### Actions

* `Mint` is `link_bank`: a first link, or a renewal fenced by an account of the
  open consent of the highest generation. `Redirect`, `Land`, `CasaEnds` are
  casa's side, in casa's order: the record leads the payload.
* A pass: `Read` (`pending_attempts`), `Take` (`take_lease`), then one of
  `Abandon` (`run_collection`'s route check), `Vanished`, `AckAgain`,
  `CasaEnded`, `NotYet`, `Discard`, `Begin`, `Interrupted` (`collect_one`), `Ack`.
* The exchange: `Post`, `Note`, `Verify`, `InsertSession`, then for a first
  link `BindRead`, `BindWrite`, `Page`, `Fetched` per account, for a renewal `Page`, `Fetched` per
  account and `Switch`, `Revoke`, `RecordRevocation`; then `Declare`.
* `Tail` (verdict or none), `Fail` (the exchange raised), `Stale` (the lease
  moved): one transaction each, with promotion, containment and settlement.
* `Lapse`, `Crash`; `UnlinkCall`, `UnlinkWrite`, `UnlinkDies`; `Forget`.

Every action is one commit, or one provider call that commits nothing. A
heartbeat and the statement right after it are one action: a lease of
`LEASE_TTL_S` (90 s) is not spent between two adjacent statements, so `Lapse`
is enabled only while the holder is inside a provider call (`Calls`) or dead.
For the binding switch, which no heartbeat precedes, the steps stay apart.

`upsert_account` is two statements, and two actions. `BindRead` is the heartbeat, the
SELECT and the rebinding backstop on the row it returned (apply.py:231-271);
`BindWrite` is the UPDATE, conditioned on the account and the life that was read
(apply.py:272-300), or the INSERT, which fails when the account has a row by then.
Any other process may act between them.

A call holds the lifecycle lock shared; `unlink_bank` holds it exclusively
(`EXCLUSIVE_TOOLS`, bank_feed_server.py:51). `UnlinkCall` therefore waits until no
pass is under way (`Alone`), and no pass, mint or erasure begins until it has
ended (`Admitted`). casa's side and the lease clock go on.

`Leftover` names accounts that have a row and no binding when the model begins: an
earlier authorization linked them and was then contained (callbacks.py:966) or
unlinked (tools_destructive.py:397). Its session is closed or quarantined at
generation 0 and its attempt settled, so neither can be renewed, promoted or
collected again, and the row is all that is left of it.

### Abstractions

* One bank. A code is posted at most once (`KeepsPromise` checks that), so a
  session is named by the attempt that created it. A fencing token is named by
  its process: a process ends one pass over an attempt before the next, so no two
  live tokens share a name.
* The bank returns exactly the accounts the whitelist names; a session with other
  accounts is a `Verify` that gives no verdict.
* Each reason `collect_one` has for closing an attempt (unreadable, invalid,
  too old) is the same free choice in `Discard`; a result whose record casa
  closed is `CasaEnded`. Wording and the operator's report are left out.
* Of `sync_state`, only the completeness stamp a renewal relies on is kept;
  notes for the operator are not.
* The provider never withdraws a consent on its own, and the total erasures are
  not interleaved here.

### Runs

`Events` names what may happen besides collection and `MaxEvents` bounds how
often. Leases lapse, provider calls fail, answers get lost and passes repeat
without a bound.

| Run | Instance | Question |
|---|---|---|
| `collection_race` | 2 attempts, 2 accounts of which one is left over, 2 processes, all but the kinds of account symmetric, one erasure or route change | `TypeOK`, `LiveOnlySettled`, `OneLiveLink`, `ContainedIsUnbound`, `NoRollback`, `ReplacedBeforeWithdrawn`, `KeepsPromise` |
| `collection_settles` | 2 attempts, 1 account, 1 process, one crash, unlink, erasure or route change, fair, no symmetry | `ConsentVisible`, `DecidedEventually` |
| `collection_killed` | 2 attempts, 1 account, 2 processes, no events | violates `KilledIsContained` |
| `collection_unfenced` | as `collection_killed` | violates `SwitchUnderLease` |

Two attempts are two first links racing, or a link and its renewal. Two
accounts are the fewest that can be bound, fetched or switched in part. A
process that stops for ever while another goes on is, for the other, a crashed
one, so the runs with two processes have crashes too (an `unlink_bank` in flight is
in the run with one). Deadlock is not checked: once
every authorization is minted, decided and acknowledged and no lease is
held, nothing has to happen, and a pass that finds nothing changes nothing.

`KeepsPromise` is refinement: `Collection` implements `Authorizations`: a code
is posted at most once, a decided authorization stays decided (which
settled phase it is in may change, see `Abandon`) until an erasure removes it,
and casa is told only of decided or erased ones.

`NoRollback` and `OneLiveLink` say where the rebinding backstop ends. apply.py:234-251
says that anything which is not the renewal sequence is refused when it moves a live
account, and the backstop does refuse it on the row it read. The write that
follows looks at the life of the account only. When an account has a row and no
binding, two overlapping first links can both read it so; the second then overwrites
the binding of the first, at the same generation and with nothing fetched under it.
`collection_race` contains this (`x1` is left over), and without its second
disjunct `NoRollback` fails there. The property states exactly that one
escape: the writer is a first link between its read and its write, it still
holds its lease, and the account had been let go in this life. An account that was
erased is no such case, because there the insert of the second link fails, or its
update meets another life.

`OneLiveLink` has the exception that follows from it. Two live links divide the
accounts only where two different accounts each were erased and linked again
(`life > 1`) or had been let go. Take two accounts and two overlapping first
links. The first binds one account and that account is erased; the second binds
it again; the other one is left over, and the first link overwrites what the second
bound there. Both are now promoted, since `_promote` asks only for a bound account.
`collection_race` reaches this one, with one erasure and one account left over. With
two erasures, or with two accounts left over, it needs only one of the causes; the proof
covers all of them. callbacks.py:896-908 says of the
guard at promotion that it is limited for accounts bound again.

`LiveOnlySettled` and `ContainedIsUnbound` speak of first links. For renewals
`Switch` makes a consent live before its attempt is settled, by design, and the
second finding shows what that costs.

### Fairness

`FairSpec` assumes weak fairness of each pass (`Step`), of results landing and
leases running out, and strong fairness of reading an attempt: casa nudges
until an attempt is acknowledged, and later turns collect as well. A pass may take
every other pending attempt first, which is why weak fairness of a read
is not enough and why strong fairness is what the loop over all records gives.
`Fetched` is strongly fair because a pagination ends (`MAX_PAGES`). `UnlinkWrite` is
weakly fair: the lock it holds is let go when the call ends or dies. Crashes
and route changes are bounded.

### The findings

`collection_killed`: a collector loses its lease, or dies, after `note_session`.
The comment in `collect_one` says the later turn contains its half-done work.
That branch is behind six others that settle the attempt `closed` and contain
nothing; the common one is a result that has grown too old by then. The
session has no row, so `consent_status` does not list it, and no later pass reopens
the attempt. `ConsentVisible` states what does hold: the attempts settled by
their own collector, or through the containing branch.

`collection_unfenced`: `heartbeat`'s contract names the binding switch among the
writes it must precede. The last heartbeat of a renewal comes before the
last transactions page. If that page outlasts the lease and another collector
takes the attempt, it settles it `indeterminate`; then the first one switches
every binding, revokes the old consent and finds that it may not settle.

## `Ingest`, `Rules` and `Ledger`

### State

`db` is the ledger file as far as one account reaches:

| Field | Code |
|---|---|
| `acct` | the `accounts` row: present, life token (`incarnation`), bound session |
| `rows` | `transactions` by row id: content, day, reference, status, state, successor, identity key and occurrence, review reason, tags; `by` is history: the life of the run that landed it |
| `alloc` | `occurrence_alloc` |
| `cover` | `coverage` intervals, as pairs of days, the second exclusive |
| `sync` | `sync_state`: completeness, the session it was stamped for, the provider's wait, our own interval |
| `evid` | what provenance has on references: a qualifying deep observation, a sighting of reuse |
| `health` | the sync health record: session, start of the run it speaks of, failing, refusals in a row, consent known gone |
| `claim`, `bals`, `rules` | the refresh claim, balances, the rulebook |

`bank` is what the bank would list today, `run` one record per process: program
counter and the locals of the call it is in. `hist` is history.

### Actions

* A refresh: `Admit`, `ReadClaim`, `WriteClaim`, `Capture` (session and life in
  one read), `Stamp`, `Window`; `Answer` or `NoAnswer`; `Load`, `Allocate` (what
  flows.backfill reads before it plans, in that order), `Apply`,
  `RecordCoverage`, `Finish`; `Restore`, `RecordHealth`, `CheckConsent`,
  `RecordAnswer`, `Release`.
* A first link and a renewal run the same fetch as priority runs: `LinkRead`,
  `LinkBind`, `RenewRead`, `Preempt`, `Ready`, `Switch`.
* Balances: `Figures`, `WriteBalances`.
* The operator: `PurgeBefore`, `PurgeAll`, `ForgetLocalAccount`, `UnlinkBank`,
  the rule and tag tools. Each is one transaction.
* The bank: `Post`, `Book`, `Correct`, `Withdraw`, `Void`; `DayPasses`,
  `TimePasses`, `Crash`.

`Apply` is the whole landing transaction: the fence on the life, the evidence of
this page (`Observed`), the plan, made again without trust if the evidence under
the lock no longer grants it (`PlanFor`), and then the plan's statements one by
one in the order of `apply_plan` (`Landed`: inserts, supersessions and updates,
cancellations, flags, rules), any of which may hit the UNIQUE index and roll all
of it back.

`Ingest!Reconcile` is the plan: the passes of `ingest.reconcile` in their order,
threading one plan through restatement collapse, the pre-pass below the window,
rule 1 (references), rule 2 (content, exact matching up to a cluster size and
greedy above it), insertion, rules 3 and 3b (cancellations) and the disclosure of
edge twins.

### Abstractions

* A content (amount, currency and direction, party) is an index; its identity key
  is that index. A day is a number, one date per payment: the value date is left
  out, as are confidence figures, labels and notes.
* One account. A renewal over several is in `Collection`.
* `restore_backup` and the workflow fence are in `Backups`.
* An attempt's lease is not here: a crashed link frees `AuthorizationInProgress`
  at once, where the code waits for the horizon.
* A page is the answer to one request; paging is reduced to its outcomes:
  exhausted, capped, failed, limited, refused.

### Runs

A scenario (`sc`) fixes who runs, what the bank lists and does, which tools are
called and how often. One run of TLC explores them all.

| Scenario of `ledger_runs` | What meets |
|---|---|
| `History` | three fetches of payments that book, repeat, arrive late, disappear or are voided |
| `Trusting` | an account purged with its trust standing, and a bank that corrects contents under one reference |
| `Crowd` | more alike payments in a window than the exact matcher takes, and failing fetches |
| `Purging` | purges between fetches of alike payments, one of which books on another day |
| `Older` | a bank that also answers with rows from before the window |
| `Racing` | two processes, links and refreshes, with erasure, unlink and full purge anywhere |
| `Renewing` | a renewal and a refresh, capped fetches, erasure or unlink, a crash |
| `Stalling` | a run that stalls between its reads and its transaction while another lands the same payment and a third re-keys it |
| `Failing` | three refreshes of two processes: refused, limited, answered out of order, claims that expire |
| `Balances` | balances and refreshes of two processes, unparsable and empty answers, an erasure |
| `Tagging` | rules, tags and a purge around one payment that books |

The windows are those of the code, shrunk (2 days for a match, 1 for drift, 6 for
the default window, 20 for a deep fetch, margin 2, two payments over two days for
a qualifying observation, clusters of 2, budgets of 1 or 2): each bound is
small enough to be passed inside a scenario by two or three payments, and the order
between them (drift ≤ match ≤ window ≤ deep) is the code's. Three contents are the
fewest in which one payment may be alike to another, differ in amount only, or
differ in party.

Deadlock is not checked: a scenario ends when its bounds are used up.

### What they show

`IdentityFollowsContent`, `Attested`, `ErasedStaysErased` and `HealthLatest` are
invariants over histories; `PageLands`, `OccurrenceSpent`, `ReviewSticks`,
`TrustHeldAtCommit` and `AnnotationsFollow` say what landing a plan may never
do. `PageLands` plans the page a second time over the ledger the first landing
left: it must insert and supersede nothing. It sets two kinds of page aside, the
two the code does not keep that promise for:

* `ledger_reingest`, first cause: rule 2 pairs alike payments by day and ignores
  their status. After one of two alike pending payments is booked, the next fetch of
  the same page may pair the booked one with the row of the pending one, which
  supersedes and inserts, and writes "pending" over the row already booked.
* second cause: stored rows are loaded up to the day after the request. A
  payment dated later is never loaded, so it is inserted on every fetch that lists it.

`ingest.py:527` and `tests/e2e/README.md:26` promise the contrary.

`OccurrenceSpent` and `TrustHeldAtCommit` speak of what nobody else has moved on:
`MarkStands(p, x)` (no occurrence of that identity was issued since the run read its
mark) and `AsLoaded(p, i)` (the row has the identity it was loaded with). Both were once stated without, and looking
for their invariants showed that they then fail, which `Stalling` reproduces: a run reads
marks and rows and stalls; another lands the same payment as occurrence 0; a
refresh re-keys that row to a corrected content, which leaves its old pair of identity and
occurrence without a row; the stalled run then inserts under that very pair, and the
UNIQUE index has nothing to object to. In the same way a plan made before a reuse of
references was seen may move an identity back. Inside its transaction
`apply_plan` asks again whether references are trusted (apply.py:677), not whether the
marks the plan was numbered from still stand. ingest.py:14-17 says that an
occurrence is monotonic and never reused.

Met while modelling and not run: `rename_tag` refuses names owned by a workflow but
not the two workflow markers, so it can write one into a rule, which `validate_rule`
would refuse (tools_annotate.py:684, rules.py:259).

## `Install`

### State

| Variable | Code |
|---|---|
| `disk.ledger[mode]` | the ledger file of a mode: how many of its statements of schema ran (`tables`), `version`, instance id, whether it holds bank data, the uninstall fence, the recorded application and the accepted re-registration, live consents |
| `disk` otherwise | mode marker (`absent`, `torn`, a mode), snapshots, backup copies, published and staged exports, the creation record (`lines`, a torn tail, a copy left by its replacement) |
| `vault`, `panel` | items in 1Password; applications at the provider, listed or not, still looking like ours or not |
| `proc` | each server: mode, connection, lock, the environment it was started with, program counter and locals of its call |
| `opener`, `kids` | the holder of the open lock; `op item create` children still running |

### Actions

* A server: `Spawn`, `Crash`, `Call`; the dispatcher: `TakeLock`, `Busy`,
  `CheckMode`, `CheckFence`.
* `store.open_ledger`: `TakeOpenLock`, `OpenBusy`, `OpenFile`, then `Schema`, one
  statement at a time, or `Snapshot`, `Migrate`; `Mint`, `Mark`, `Sign`.
* The ladder: `Lift`, `ResolveKey`, `ConfirmAbsent`, `StartLine`, `EndLine`,
  `Create`, `Answer`, `ReadBack`, `Credential`; `WiredApp`, `ReadBinding`, `List`,
  `Recognise`, `Search`, `Keyed`, `Register`, `Verify`, `Health`; the operator's
  acceptance: `Vanished`, `Accept`.
* The erasers: `EraseRows`, `EraseCopies`, `Withdraw`, `EraseExports`, `Sweep`,
  `Rewrite`, `Reset`, `Residue`, `Reclaim`. A step that fails is reported and the
  next one runs; `ok` is what the verdict is made from.
* `Write` stands for any call that stores bank data, `Stage` and `Publish` for an
  export. `ChildEnds`, `Flap`, `Drift`, `ClearMarker` are outside.

### Abstractions

* A create takes effect when its child ends, which may be after its server died:
  the child inherits the lifecycle lock (opvault does not close it), and
  `LockFree` counts it. Deletes are synchronous.
* Version 1, with two of the three groups of tables, stands for every older schema:
  the ladder runs as one transaction.
* Erasing all copies is one step; the index behind it is `Backups`. Consents are one flag,
  their withdrawal one step that may fail.
* The credential rung stops, proceeds or stores; its email exchange, the redirect
  list and the cache of the world check are left out. Items an operator restores
  from Recently Deleted are outside.

### Runs

| Scenario of `install_runs` | What meets |
|---|---|
| `Worlds` | servers of both modes write to and erase one directory, two crashes |
| `Upgrading`, `Downgrading` | a ledger of an older version and two servers; of a newer one |
| `Fencing` | an uninstall that keeps the sign-ins among writes, syncs, exports and a sign-in |
| `Reinstalling` | the same, then setup lifts the fence |
| `Slate`, `Again` | the clean slate among other calls, with two failures; and setup after it |
| `Forging` | items created by two setups beside an eraser, children outliving servers |
| `Adopting`, `Together` | the application vanishes, returns, is renamed; acceptances; one server and two |
| `Wired`, `Literal` | a key wired into the environment as a reference, and as text beside an item the operator made |

Two servers are the fewest that race; four or five calls are enough for vanish,
accept, return and replace. A crash or failure may come at any step, once or twice.
Deadlock is not checked: calls are bounded.

`NothingRefills` also relies on a shared lock being held to the end of a call:
its mutant lets writers pass the fence. `OneApplication` speaks of setups that do not
overlap. Two that do (the lock is shared, and a child may outlive its server) can
create a second key item or application, though `tools_auth.py:2075` says "never a
second one" and line 753 "nothing is forged twice": the second one is refused as
ambiguous by the next setup. An acceptance given beside an overlapping setup can
remain for an application that was found alive. A marker created and never written (a crash
between the two) refuses every call until the operator removes it (`ClearMarker`).

### The finding

`install_first_open`: the schema of a fresh ledger is created statement by
statement and stamped last. A crash between `meta` and `accounts` makes the next open
migrate from version 0; `_add_accounts_column` finds no such column because there is no
table, the script creates the table with it, and the ALTER fails. Every later open
fails in the same way. Crashes after `accounts` are finished by the next open, as
`SchemaWhole` shows.

## What is proved

### `Backups`

`BackupsProofs` proves, from `BackupsAssumption` alone and for any processes,
workflows, operations and faults:

* `TypeCorrect`: `Spec => []TypeOK`.
* `ErasedStaysErased`: `Spec => []NoResurrection`.
* `ErasedCopiesCovered`: `Spec => []ErasedCopiesGone`.
* `Safe`: `Spec => []SafeInv`, the invariant the other three follow from.

`NoResurrection` is not inductive: a restore copies `content[b]` into the ledger,
so one must know that no *restorable* copy is older than the last erasure. That
holds only at the point where settlement is done, because after an erasure's
COMMIT the copies still stand. `SafeInv` says why it is harmless:

* `Covered` (= `ErasedCopiesGone` in its per-file form): a file with an old
  epoch, or whose entry may come back, has a flushed, uncommitted erasure;
  `SettledCopies` concludes that once nothing is open, no such file is left.
* `Minted`: record ids are at most `minted`, so a fresh id has no record.
* `Aged`, `SameLife`: no copy is from the future; a copy of this epoch is of
  this life.
* `LockHeld`: past `Acquire` a process holds the index lock, so at most one does.
* `Working(p)`: what the process with the lock knows at its program counter: that
  its own erasure record is flushed and still open, that files outside its sweep
  list are gone, that the copy it is about to restore is of this epoch.
* `HasOp`: a process in a working phase has an operation id.

The proof of a step goes through `Control` (only the holder of the lock changes
index, files or ledger), `StepKeeps` (what a step leaves of coverage),
`OwnStep` and `OthersUndisturbed` (`Working` for the process that moves and
for the rest), `EraseCommitSafe` (the one step that ages every copy) and
`PowerLossSafe`. `TypeNext` has one step per action.

The second part of the module proves what the index says:

* `IndexAlwaysParses`: `Spec => []IndexParses`.
* `OneOpenAlways`: `Spec => []OneOpen`.
* `GenerationAlwaysExact`: `Spec => []GenerationIsExact`.
* `FenceAlwaysHolds`: `Spec => []FenceHolds`.
* `ErasureAlwaysAudited`: `Spec => []ErasureAudited`.
* `Book`: `Spec => []BookInv`, the invariant they follow from.

The invariant is about the *order* of records, which a power loss keeps because
it leaves a prefix. `IndexInv` says that an ending has a beginning before it
(`Begun`), that an operation begins after those begun before it have ended and
has a higher id (`OneByOne`), and that a copy recorded before the end of an
erasure has its audit record by then (`Audited`). Each part is kept by the
removal of any suffix, and an append keeps them when the record `Fits`: it begins
an operation where none is open, ends the open one, or audits a copy not audited
yet. So every step comes down to one of three: the index is cut, a fitting record
is appended, or neither. `Counted` ties the restores recorded to those that
happened: each has its flushed `pending` record, no `aborted` one, and either a
flushed `committed` one or the marker in the ledger, which is what settlement
completes it from. `InPhase(p)` is what a call knows of its own operation;
that nothing is open past settlement comes from it, and `FenceHolds` with it.

and the third what the copies are good for:

* `RegisteredCopyAlwaysStands`: `Spec => []RegisteredCopyStands`.
* `RestorePointAlwaysPrecedes`: `Spec => []RestorePointPrecedes`.
* `ScopedErasureAlwaysKeepsCopy`: `Spec => ScopedErasureKeepsCopy`.
* `BackupsKeepPromise`: `Spec => KeepsPromise`, the refinement of `RestorePoints`.
* `Copies`: `Spec => []CopyInv`.

That a registered copy stands is not inductive because of restores: they bring
back the registrations *of the copy*. `Filed` says of every copy that the
registrations in it were settled before it was taken, hence `Sound` as the
ledger's own are, so a restore installs only sound ones. `Sound` needs of a
registration that its copy was never called an orphan and stands until a later
sweep (`Stood`), and that the copy is from before the workflow's first write or
replaces one that was swept (`Before`). `Placing(p)` carries this from the copy
being taken to the COMMIT that registers it. The refinement maps each
step: a restore's COMMIT is `Restore`, to one of the promise's points because its
copy is of the present epoch; a write's is `Write`, by `FenceHolds`; a scoped
erasure's is `ScopedErase`, over the copy it has just placed; a total erasure's
is `TotalErase`; every step that changes the directory (a rename, an unlink, a
power loss, or an erasure's COMMIT, which ages all copies) is at most a
`TakePoint`; the rest stutter.

### `Collection`

`CollectionProofs` proves, from `CollectionAssumption` alone and for any
attempts, accounts, processes and events:

* `CollectionTypeCorrect`: `Spec => []TypeOK`.
* `CollectionKeepsPromise`: `Spec => KeepsPromise`, that is, `Collection`
  implements `Authorizations` under the mapping of its `Promise` instance.

Neither is inductive alone. `CollectionInv` adds what the code relies on without
saying it:

* `Fenced`, `HasPrior`: a renewal knows its fencing account and, from its
  verification to its switch, the consent it renews; a pass never works on an
  attempt that was not minted. (`switch_bindings` reads that consent's row.)
* `NoLease`: an attempt that does not exist, or was erased, has no lease holder, so
  no stale collector can settle it.
* `CodeOnce`: before the exchange began nothing was posted and nobody is about to;
  after it began at most one process is about to post, and has not posted yet.
  This is what makes a stolen lease harmless: the thief finds
  `exchange_started` and never posts.
* `AckDecided`: a process that acknowledges does so for a decided or erased attempt.

The argument: `RowSteps` reduces every action to what it does to one row of
`attempts` (retained, taken, decided, begun, minted; or an erasure) and
`ProcSteps` to what one collector does next; the invariant's parts and the
refinement follow from these two, with `PostSteps` and `AckSteps` for the code and
the acknowledgement. `OneDecides`, `ForgetErases` and `PromiseStep` map each step
to `Decide`, `Erase`, `Spend`, `Tell` or a stutter. That a finite set of
generations has a highest one (`HighestNat`, by well-founded induction on Nat) is
needed for the type of a promoted session.

The second part of the module proves what becomes of sessions and accounts:

* `LiveAlwaysSettled`: `Spec => []LiveOnlySettled`.
* `OneLinkAlwaysLive`: `Spec => []OneLiveLink`.
* `ContainedAlwaysUnbound`: `Spec => []ContainedIsUnbound`.
* `ConsentAlwaysVisible`: `Spec => []ConsentVisible`.
* `BindingsNeverRollBack`: `Spec => NoRollback`.
* `ReplacedAlwaysBefore`: `Spec => ReplacedBeforeWithdrawn`.

A collector that lost its lease runs on to its next heartbeat, or to the end of a
binding switch. The invariant therefore says first what is true of an exchange
whoever holds the lease, then what the lease adds. `Discipline` is about
exchanges: one process at most is in the exchange of an attempt (a thief never
posts), and while it holds the lease the row is `exchange_started` and its
verdict is its own. `Bindings` is about what exchanges leave behind. Its key
notion is `Past(s)`: no exchange of s will bind an account to it any more. A
session is promoted, and a consent renewed, only when it is past binding;
that is why an `AUTHORIZED` consent cannot gain accounts behind a renewal
(`Authorized`, `Priors(p)`), why nothing is bound to a renewal's session
before its switch (`RenewBound`), and why nothing is bound to an old consent when
it is withdrawn. `Had(x, s)`: x was bound to s and still is, or was erased or let go
since; two live links must each have had every account, so each lost every
account it has not, to an erasure or to a write over a released account
(`OneLiveLink` and its exception). `Writes(p)` is about a first link between its
read and its write: it holds its lease, which cannot run out there (`LeaseSteps`), and
if the account still lives the life it read, and had a row then, it has been let go or
is its own. It is what confines the escape of `NoRollback` to
released accounts, whoever releases or binds in between (`WritesStay`).

The proof classifies every step twice: `Flow` for exchanges (nothing moves, a
mint, an erasure, a pass outside an exchange `Tends`, `Starts` one or `Goes` on
with one), `StepFacts` for rows (what a step may do to one session: stage,
quarantine, promote, retire, end; to one account: keep, free, drop, gain, carry;
to one consent). Each class keeps each part of the invariant once.

The assumption on constants is that `Nobody` is no process, attempt or
account; nothing is assumed of their number.

### `Install`

`InstallProofs` proves, from `InstallAssumption` (nobody is not a server, and a
scenario speaks of servers and tools that exist) and for any servers, scenarios,
crashes and faults:

* `OneWorldAlways`: `Spec => []OneWorld`.
* `SchemaWholeAlways`: `Spec => []SchemaWhole`.
* `RecordedUntilGoneAlways`: `Spec => []RecordedUntilGone`.
* `InstalledAlways`: `Spec => []Installed`, the invariant they follow from.

`OneWorld` is not inductive: between the open lock and the signature the marker
does not yet name the ledger that is being made. `Installed` is the conjunction of

* `Shapes`: the record shapes of calls, ledgers, record and counters.
* `Locks`: a call stands where its tool leads, under the lock its tool takes
  (`Post`, for the place a call is at or will be at once the ledger is open); an
  exclusive holder is alone, without children; the open lock is held exactly by the
  call that is opening.
* `World`: while a ledger is being opened the other mode's is not there, the marker
  is absent, ours, or torn, and torn exactly at the signature.
* `Schemas`: a call past the schema has a current version before it.
* `Records`: a nonce is recorded before a child carries it, and at the rewrite of
  the record the lines to be kept cover what is in the vault.

The proof of a step first says what an action does to the call and to the files
(`*Effect`), then puts it into one of four classes: `Plain` (neither the door nor
the record changes), `Falls` (a start, a death, a return), `Builds` (an open
under the open lock) and `Walks` (the record changes). Each class keeps the
invariant once; the actions that belong to none (`TakeLock`, `TakeOpenLock`, `Mark`,
`Sign`, `ClearMarker`, `ChildEnds`) have a lemma each. That the sweep of the vault
may trust what it lists rests on `EraserAlone`: whoever erases holds the exclusive
lock, so no child of a create is left.

`LadderProofs`, on top of it, proves first what the fence and the erasers promise:

* `NothingRefillsEver`: `Spec => NothingRefills`.
* `CompleteIsCleanAlways`: `Spec => CompleteIsClean`.

For the first the added invariant is `Fences`: a fenced ledger is there and holds no data, and
every call is `Settled`: it has a connection where rows and files are filled or
erased, its ledger is there once it is past the creation of the file, and no fence
stands ahead of a call that is on its way to fill. A call reads the fence once
(`CheckFence`) and fills many steps later; what keeps the answer true in between is
`EraserAlone` again: `EraseRows`, the one step that sets a fence, runs while every
other call is outside the lifecycle lock. All steps but three are `Calm` (nothing is
fenced, filled or removed); `Write` and `Publish` run where no ledger is fenced,
the other mode's included (`NothingFenced`, by `OneWorld`); `EraseRows` fences what
it has just emptied.

For the second it is `CleanSoFar`. `Clears(p)` says of an eraser, place by place,
that *while every step so far came off* (`ok`) what it has passed is gone: rows from
`copies` on, copies and snapshots from `withdraw` on, exports from `items` on, the
record and every item bank-feed made from `reset` on, the binding at the end. It
stays true because a failed step clears `ok` for good, and because nobody else can
fill anything again: a step of another call needs the lock the eraser has, a child
that ends would be one more `op` (`EraserAlone`), and a call that dies is no longer
an eraser. `Unanswered` (no call in flight has its answer yet) makes the answer that
of this very step.

and then what the setup ladder does:

* `RegisteredKeyAlwaysReadable`: `Spec => RegisteredKeyIsReadable`.
* `OneApplicationEver`: `Spec => OneApplication`.
* `TypeOKAlways`: `Spec => []TypeOK`.

`Keys` is the invariant of the first: from rung 3 on a call has settled on a key, and
one read from the vault or made there is in the vault still, several steps and
answers later. Only `Sweep` takes items away, and it runs in an eraser, hence alone. A
key of the environment has no such history, which is why `Rereadable` asks again.

`Rightful` is the invariant of the second. `Linked(p)` ties what a call read (the
recorded application, the list) to the rungs at which it is used; `Chooses(p)` says
what the ledger and that list look like where a call is about to register; `Granted`
and `Unaccepted` that an acceptance in a ledger was given and not voided, and that no
ledger that is not there has one. `Chooses` rests on what the ledger said at `ReadBinding`
still being what it says at `Register`. `Single`, at most one binding call at a time, is
what makes it so, and is all that the hypothesis `~overlap` is used for: every step of
another call leaves bindings alone (`SameBinding`) or is an eraser's, which runs alone.
`Vouched` is what any step at all may do to an acceptance: keep it, consume it, or
record one that has just been granted. The set of applications is finite, which the
counting of `Matches` needs.

For the types, `Typed` adds to `Installed` that every number in use was handed out
(`Counted`, `Grows`): lines and nonces, instances, applications in ledgers, lists and
calls. A line of the record that is not a nonce ever issued would make a sweep delete what
it should not, so `DiskTyped` needs `Records` at `EndLine` and `Rewrite`.

### `Ingest`

`PlanProofs` proves, from `IngestAssumption` alone, what a plan is, whatever page
was fetched over whatever stored rows:

* `ReconcileIsGood`: for every `Context` (rows that are rows, a page of payments,
  an allocation that is a number per identity), `GoodPlan(c, Reconcile(...))`.

`GoodPlan` is what `apply_plan` takes for granted: an insert carries the identity of
its content under an occurrence that the durable mark has not spent; a row that is
rewritten is a loaded one, and keeps identity and occurrence unless trusted references
say it was restated, in which case the number is again a fresh one; a row is superseded
by an insert of the plan that no other supersession names, which takes over its finding
and, without trust, has its identity; a flag gives a reason. Of cancellations it says only
that they are a list.

The passes are loops over lists that change a draft of the plan. `Folding` has the one
induction they need: `FoldKeeps`, by induction on the length, about an operator that
is a *constant* of the module, which an `INSTANCE` per pass then fills in. `Draft` is
the invariant of all passes: `GoodPlan`, and the shape of what the passes hand on (spent
occurrences, restated payments, candidates for an edge twin).
Each pass is one lemma that keeps `Draft`, by the fold over its list; the matching
passes first need what a matching is (`Pairing`: claimed pairs are candidates, and
no side is claimed twice), for the exact one by maximality and for the greedy one
again by a fold.

### `Ledger`

`LedgerProofs` and `RowsProofs` prove, from the assumptions `Ledger` states
(`ScenariosAssumption`: a scenario's processes are among `Procs`, and it begins in one
of the four ways `Begun` describes; `LimitsAssumption`; those of `Ingest` and
`Rules`), for any number of runs, processes, crashes, bank moves and operator's calls,
first what needs no plan:

* `HealthLatestAlways`: `Spec => []HealthLatest`.
* `SwitchedOnlyAfterFetch`: `Spec => []SwitchedAfterFetch`, a conjunct of `Attested`.
* `ErasedStaysBare`: `Spec => []ErasedIsBare`, a conjunct of `ErasedStaysErased`.

They follow from `LedgerInv`, the conjunction of

* `Typed`: the shape of a run and where a run of its kind can be; the parts of the
  ledger no plan touches. The rows and the plan are left untyped on purpose.
* `SessionsIssued`, `PledgesAreOwn`: a session a link or renewal has minted and not
  yet given to the account is known to it alone: to no other run, not to the account,
  not to the health record.
* `FetchedFirst`: a run past `Apply` has landed an answer under its session in its life,
  and `sync_state`, or a finding some routine run means to put back, names the session
  of a renewal under way only once that has happened. So what `Ready` reads is the
  renewal's own fetch, and `Switch`, a step later, need not ask again.
* `HealthKept`: once a sync of the bound consent is known to have worked, the health
  record is of that consent and not before that sync, whether it says failing or
  not. `Overtaken` compares against what is on record, not against what is true; that
  this suffices is this conjunct, and it is not true of records alone.
* `SwitchedAfterFetch`, `ErasedIsBare`.

Every action is first reduced to what it does to one run (`RunStep`) and to the parts
of the ledger (`DbStep`); each part of the invariant is kept by those two.

Then what depends on the plan that lands:

* `LedgerTyped`, `KeysFollowContents`, `AttestedAlways`, `NothingComesBack`:
  `Spec => []P` for `TypeOK`, `IdentityFollowsContent`, `Attested` and
  `ErasedStaysErased`.
* `OccurrencesSpentOnce`, `FindingsStick`, `TrustedAtCommit`, `TagsFollow`: the action
  properties `OccurrenceSpent`, `ReviewSticks`, `TrustHeldAtCommit` and
  `AnnotationsFollow`.

They follow from `RowsInv`, inductive together with `LedgerInv`, the conjunction of

* `RowsFit`: a row has the identity of its content, is superseded exactly when it
  names a successor, which is on record, is bare then, and is within its tag budget.
* `MarksFit`: no two rows have one key; every key on record is among the spent ones, and
  every spent one lies below the durable mark of its identity. `OccurrenceSpent` speaks
  of the spent keys alone; that a mark is never lowered below one, by a purge in
  particular, is this conjunct.
* `LivesFit`: lives are issued in order, a living account's life is not before the last
  full erasure, and so is no row's (`LandedSinceErasure`).
* `RunsFit`: what a run has loaded is made of rows, and *while the account lives the
  life the run captured*, every key it loaded is spent, and the days it is about to
  cover were proved. The condition matters: an erasure empties the spent keys under a
  run that has loaded its rows, and it is the life fence of the landing transaction,
  not the view, that keeps such a plan out.
* `CoverFits`, `BankFits`, `RulesFit` and `BalancesOfOneAnswer`.

Every step but the landing leaves the finding, identity and successor of the rows that
stay (`Calm`: it takes rows away, or changes tags); each is one lemma. For the landing, `ReconcileIsGood` gives
a `GoodPlan`, and `TableFits` says what the table of the landing is after every statement
so far: an old row keeps its finding, its identity unless trusted references restated
it, and either its tags and successor or hands its tags on to the insert that supersedes
it; every key is a spent one or not below the mark the run read; no key occurs twice
(a statement that would break this fails, and the transaction with it). Inserts,
changes (updates and supersessions), cancellations, flags and rules are five folds over
the parts of the plan, and `FoldKeeps` carries `TableFits` through each.

### Only model-checked

Of `Backups`, the liveness property `OpenOperationsSettle`; of `Collection`,
`DecidedEventually`. Of `Ledger`, `PageLands`, which is about which payments a plan
leaves out, where `GoodPlan` says only what is in one. The five claims that runs violate
stand as TLC found them. Liveness under fairness and ENABLED are out of the provers'
reach. So is what a recursive definition computes for every input, in general; what a
fold *keeps* is within it, by `Folding`.

## What is left

* `PageLands` as a theorem: a `GoodPlan` that also accounts for every payment of the
  page, through each pass.
* `Consents`: reconciliation with the provider's session list, where the note of
  the hazard list (an attempt erased after its session was noted) meets its recovery.
* Setups that overlap, in a module where item names at the provider may repeat.

## Not modelled

Readers (`tools_read.py`, `tools_aggregate.py`), HTTP clients, signing, skills,
persona, manifests and the publication guards under `scripts/` change no shared
state of the program. `money.py` is a conversion with its own table tests.
What is left out of a modelled part is listed under its abstractions and in the
components of `PROJECT.json`.

## Running it

    tlc -workers 2 -config MCBackups_crash.cfg MCBackups
    tlc -workers 2 -config MCCollection_race.cfg MCCollection
    tlc -workers 2 -config MCLedger_runs.cfg MCLedger
    tlc -workers 2 -config MCInstall_runs.cfg MCInstall
    tlapm BackupsProofs.tla
    tlapm CollectionProofs.tla
    tlapm PlanProofs.tla
    tlapm LedgerProofs.tla
    tlapm RowsProofs.tla
    tlapm InstallProofs.tla
    tlapm LadderProofs.tla
