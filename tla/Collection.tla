----------------------------- MODULE Collection -----------------------------
(***************************************************************************)
(* Bank authorizations: plugins/bank-feed/server/callbacks.py, the injected *)
(* exchange of tools_auth.py, the renewal of flows.py and apply.py, and    *)
(* the two tools that change the same rows meanwhile, `unlink_bank` and    *)
(* `forget_local_account`.                                                 *)
(*                                                                         *)
(* `link_bank` mints an attempt; casa records the redirect and publishes   *)
(* its result; any server process may then run a collection pass.  A pass  *)
(* reads casa's records, takes a lease on an attempt, marks it             *)
(* `exchange_started`, posts the code, notes the session the provider      *)
(* created, verifies, binds or switches accounts, and settles and          *)
(* acknowledges the attempt.  A process can die between any two commits;   *)
(* a provider call can outlast the lease; another process may then take    *)
(* the attempt over while the first one is still running.                  *)
(*                                                                         *)
(* One bank.  A code is posted at most once, so the session an attempt     *)
(* creates is named by the attempt.  A fencing token is named by the       *)
(* process that took it: a process finishes or abandons an attempt before  *)
(* it takes it again.                                                      *)
(*                                                                         *)
(* A tool call holds a lock on the data directory, shared, and             *)
(* `unlink_bank` holds it exclusively (EXCLUSIVE_TOOLS): no other call runs *)
(* beside it.                                                              *)
(***************************************************************************)
EXTENDS Integers, FiniteSets

CONSTANTS Attempts,     \* authorizations, and the sessions they create
          Accounts,     \* the accounts the bank returns and the whitelist names
          Procs,        \* server processes that collect
          Nobody,       \* no process, no attempt
          Leftover,     \* accounts an earlier authorization linked and let go
          Events,       \* what may happen besides collection
          MaxEvents     \* bound: how many of these happen

ASSUME CollectionAssumption ==
  /\ Nobody \notin Procs \cup Attempts \cup Accounts
  /\ IsFiniteSet(Accounts) /\ Accounts # {}
  /\ IsFiniteSet(Attempts)
  /\ Leftover \subseteq Accounts
  /\ Events \subseteq {"crash", "unlink", "forget", "route"}
  /\ MaxEvents \in Nat

VARIABLES
  att,      \* the `attempts` table
  sess,     \* the `sessions` table
  acct,     \* the `accounts` table and each account's transactions `sync_state`
  rec,      \* casa's record of each attempt
  result,   \* what casa published for it, once it has landed
  acked,    \* attempts acknowledged to casa
  grant,    \* the consents at the bank
  posted,   \* history: how often each code was posted
  proc,     \* what each process is doing
  unlink,   \* the `unlink_bank` call in flight
  events    \* crashes, calls of the operator and route changes so far

db == <<att, sess, acct>>
casa == <<rec, result, acked>>
bank == <<grant, posted>>
vars == <<db, casa, bank, proc, unlink, events>>

-----------------------------------------------------------------------------
(* States.                                                                 *)

SETTLED_PHASES == {"exchanged", "declined", "closed", "abandoned",
                   "review_required", "indeterminate"}

\* Mutant of Began: an exchange in flight does not count as begun.
BegunAndOver == {"exchanged", "indeterminate"}

Began == {"exchange_started", "exchanged", "indeterminate"}
Phases == {"none", "minted", "exchange_started", "erased"} \cup SETTLED_PHASES
Outcomes == {"none", "verified", "verified_partial", "other"}
Statuses == {"none", "REVIEW_REQUIRED", "AUTHORIZED", "REVOKE_PENDING",
             "REVOKE_FAILED", "CLOSED", "WITHDRAWN_BY_OPERATOR"}
Calls == {"post", "verify", "page", "revoke"}    \* a provider call is in flight
Pcs == Calls \cup {"idle", "read", "held", "ack", "note", "insert", "bind",
                   "write", "fetch", "switch", "record", "declare", "tail", "fail"}

Row(a) == att[a].phase \notin {"none", "erased"}

\* Mutant of Holds: no write is fenced by the lease.
HoldsUnchecked(p, a) == TRUE

Holds(p, a) == att[a].token = p
Open(s) == sess[s].status # "none" /\ ~sess[s].closed
BoundTo(s) == {x \in Accounts : acct[x].bound = s}
DeepFetched(x, s) == acct[x].present /\ acct[x].fetched = s

NoAttempt == [phase |-> "none", outcome |-> "none", purpose |-> "link",
              account |-> Nobody, expected |-> 0, session |-> FALSE,
              token |-> Nobody, lapsed |-> FALSE]
NoSession == [status |-> "none", gen |-> 0, closed |-> FALSE]
NoRowYet == [present |-> FALSE, life |-> 0, bound |-> Nobody, fetched |-> Nobody,
             released |-> FALSE]
LeftRow == [NoRowYet EXCEPT !.present = TRUE, !.life = 1, !.released = TRUE]
Idle == [pc |-> "idle", a |-> Nobody, saw |-> "none", prior |-> Nobody,
         lives |-> [x \in Accounts |-> 0], left |-> {}, cur |-> Nobody,
         fresh |-> FALSE, short |-> FALSE, answer |-> FALSE]
NoUnlink == [s |-> Nobody, answer |-> "kept"]

\* No `unlink_bank` holds the lock; no call at all holds it.
Admitted == unlink.s = Nobody
Alone == Admitted /\ \A p \in Procs : proc[p].pc = "idle"

Happens(event) == /\ event \in Events /\ events < MaxEvents
                  /\ events' = events + 1

Init == /\ att = [a \in Attempts |-> NoAttempt]
        /\ sess = [a \in Attempts |-> NoSession]
        /\ acct = [x \in Accounts |-> IF x \in Leftover THEN LeftRow ELSE NoRowYet]
        /\ rec = [a \in Attempts |-> "none"]
        /\ result = [a \in Attempts |-> "none"]
        /\ acked = {}
        /\ grant = [a \in Attempts |-> "none"]
        /\ posted = [a \in Attempts |-> 0]
        /\ proc = [p \in Procs |-> Idle]
        /\ unlink = NoUnlink
        /\ events = 0

-----------------------------------------------------------------------------
(* The sessions table: promotion, containment, fences.                     *)

LiveLink(S, A, s) == /\ S[s].status = "AUTHORIZED" /\ ~S[s].closed
                     /\ \E x \in Accounts : A[x].bound = s

\* The consent a second `link_bank` renews: the open AUTHORIZED session of
\* the highest generation.
Renewable(s) == /\ Open(s) /\ sess[s].status = "AUTHORIZED"
                /\ \A t \in Attempts :
                     Open(t) /\ sess[t].status = "AUTHORIZED"
                       => sess[t].gen <= sess[s].gen

\* One above every other session of the bank, or FIRST_GENERATION.
NextGeneration(s) ==
  LET others == {sess[t].gen : t \in {u \in Attempts \ {s} :
                                        sess[u].status # "none"}}
  IN  IF others = {} THEN 1
      ELSE 1 + CHOOSE g \in others : \A h \in others : h <= g

Promoted(s) ==
  IF sess[s].status = "REVIEW_REQUIRED" /\ sess[s].gen = 0 /\ BoundTo(s) # {}
  THEN [sess EXCEPT ![s].status = "AUTHORIZED", ![s].gen = NextGeneration(s)]
  ELSE sess

\* `_contain`: nothing when no session was noted or when it is live;
\* otherwise a quarantined row, unless it is closed, and no binding.
ContainSession(S, a, isNoted) ==
  IF ~isNoted \/ S[a].status = "AUTHORIZED" \/ S[a].closed THEN S
  ELSE [S EXCEPT ![a].status = "REVIEW_REQUIRED", ![a].gen = 0]

\* A binding let go.  `released` is history: some binding of this life of
\* the account was let go.
LetGo(row) == [row EXCEPT !.bound = Nobody, !.released = TRUE]

\* Mutant of ContainAccounts: the session alone is quarantined.
ContainRowOnly(S, A, a, isNoted) == A

ContainAccounts(S, A, a, isNoted) ==
  IF ~isNoted \/ S[a].status = "AUTHORIZED" THEN A
  ELSE [x \in Accounts |->
          IF A[x].bound = a THEN LetGo(A[x]) ELSE A[x]]

\* `fence_verdict` is not None: the attempt is refused before its code is
\* posted.  Both refusals need the attempt to be fenced, and a renewal is.
Refused(a) ==
  LET s == IF att[a].account = Nobody THEN Nobody
           ELSE acct[att[a].account].bound
  IN  /\ att[a].purpose = "renew"
      /\ \/ s = Nobody
         \/ s # Nobody /\ sess[s].gen > att[a].expected

\* Mutant of Recorded: a failed revocation is recorded as a confirmed one.
RecordedAsGone(s, gone) ==
  [sess EXCEPT ![s].status = "CLOSED", ![s].closed = TRUE]

\* `record_revocation` for an answer of the provider.
Recorded(s, gone) ==
  IF gone
  THEN IF ~sess[s].closed \/ sess[s].status = "WITHDRAWN_BY_OPERATOR"
       THEN [sess EXCEPT ![s].status = "CLOSED", ![s].closed = TRUE]
       ELSE sess
  ELSE IF Open(s) THEN [sess EXCEPT ![s].status = "REVOKE_FAILED"] ELSE sess

\* DELETE /sessions/{id}: confirmed, refused, or done with the answer lost.
Withdraw(s, answer) == \/ answer /\ grant' = [grant EXCEPT ![s] = "gone"]
                       \/ ~answer /\ \/ UNCHANGED grant
                                     \/ grant' = [grant EXCEPT ![s] = "gone"]
-----------------------------------------------------------------------------
(* `link_bank`, and casa's side of an authorization.                       *)

\* A bank with a live consent is renewed, fenced by one of its accounts; a
\* live consent with nothing bound to it refuses the call.  A mint that
\* fails retires its row.
Mint(a) ==
  /\ Admitted /\ att[a].phase = "none"
  /\ \E ok \in BOOLEAN :
       /\ \/ /\ ~\E s \in Attempts : Renewable(s)
             /\ att' = [att EXCEPT ![a].phase = IF ok THEN "minted" ELSE "abandoned",
                                   ![a].purpose = "link"]
          \/ \E s \in Attempts : \E x \in BoundTo(s) :
               /\ Renewable(s)
               /\ att' = [att EXCEPT
                           ![a].phase = IF ok THEN "minted" ELSE "abandoned",
                           ![a].purpose = "renew",
                           ![a].account = x, ![a].expected = sess[s].gen]
       /\ rec' = [rec EXCEPT ![a] = IF ok THEN "awaiting_redirect" ELSE "none"]
  /\ UNCHANGED <<sess, acct, result, acked, bank, proc, unlink, events>>

\* The operator comes back.  casa writes the record just before the result
\* lands.
Redirect(a) ==
  /\ rec[a] = "awaiting_redirect" /\ a \notin acked
  /\ rec' = [rec EXCEPT ![a] = "result_ready"]
  /\ UNCHANGED <<db, result, acked, bank, proc, unlink, events>>

Land(a) ==
  /\ rec[a] = "result_ready" /\ result[a] = "none"
  /\ \E r \in {"code", "error"} : result' = [result EXCEPT ![a] = r]
  /\ UNCHANGED <<db, rec, acked, bank, proc, unlink, events>>

\* casa gives up on an unacknowledged attempt.  A record may be listed again
\* after its acknowledgement, so no action removes one.
CasaEnds(a) ==
  /\ rec[a] \in {"awaiting_redirect", "result_ready"} /\ a \notin acked
  /\ rec' = [rec EXCEPT ![a] = "done"]
  /\ UNCHANGED <<db, result, acked, bank, proc, unlink, events>>

-----------------------------------------------------------------------------
(* A collection pass: the record, the lease, the decision.                 *)

Goto(p, pc) == proc' = [proc EXCEPT ![p].pc = pc]
Enter(p, pc) == proc' = [proc EXCEPT ![p] = [Idle EXCEPT !.pc = pc,
                                                         !.a = proc[p].a]]
Stop(p) == proc' = [proc EXCEPT ![p] = Idle]
Free(a) == [att EXCEPT ![a].token = Nobody, ![a].lapsed = FALSE]

\* Mutant of SettleAs: the two columns change places.
SettleSwapped(a, phase, outcome) ==
  att' = [att EXCEPT ![a].phase = outcome, ![a].outcome = phase,
                     ![a].token = Nobody, ![a].lapsed = FALSE]

\* `_settle`: the fenced commit, which also drops the lease.
SettleAs(a, phase, outcome) ==
  att' = [att EXCEPT ![a].phase = phase, ![a].outcome = outcome,
                     ![a].token = Nobody, ![a].lapsed = FALSE]

\* `pending_attempts`: the status is read before the lease is taken.
Read(p, a) ==
  /\ Admitted /\ proc[p].pc = "idle" /\ Row(a)
  /\ rec[a] \in {"awaiting_redirect", "result_ready", "done"}
  /\ proc' = [proc EXCEPT ![p] = [Idle EXCEPT !.pc = "read", !.a = a,
                                              !.saw = rec[a]]]
  /\ UNCHANGED <<db, casa, bank, unlink, events>>

\* Mutant of Takeable: an expired lease is still held.
TakeableFreeOnly(a) == Row(a) /\ att[a].token = Nobody

Takeable(a) == Row(a) /\ (att[a].token = Nobody \/ att[a].lapsed)

\* `take_lease`, then the attempt's row.
Take(p, a) ==
  /\ proc[p].pc = "read" /\ proc[p].a = a
  /\ IF Takeable(a)
     THEN /\ att' = [att EXCEPT ![a].token = p, ![a].lapsed = FALSE]
          /\ Goto(p, "held")
     ELSE UNCHANGED att /\ Stop(p)
  /\ UNCHANGED <<sess, acct, casa, bank, unlink, events>>

\* The attempt's record was erased under the lease: it is not one of ours.
Vanished(p, a) ==
  /\ proc[p].pc = "held" /\ proc[p].a = a /\ ~Holds(p, a)
  /\ Stop(p)
  /\ UNCHANGED <<db, casa, bank, unlink, events>>

Held(p, a) == proc[p].pc = "held" /\ proc[p].a = a /\ Holds(p, a)
Undecided(a) == att[a].phase \notin SETTLED_PHASES

AckAgain(p, a) ==
  /\ Held(p, a) /\ ~Undecided(a)
  /\ att' = Free(a) /\ Enter(p, "ack")
  /\ UNCHANGED <<sess, acct, casa, bank, unlink, events>>

\* `run_collection` looks at the route before it looks at the phase.
Abandon(p, a) ==
  /\ Held(p, a) /\ proc[p].saw = "awaiting_redirect" /\ Happens("route")
  /\ SettleAs(a, "abandoned", "other") /\ Enter(p, "ack")
  /\ UNCHANGED <<sess, acct, casa, bank, unlink>>

CasaEnded(p, a) ==
  /\ Held(p, a) /\ Undecided(a) /\ proc[p].saw = "done"
  /\ SettleAs(a, "closed", "other") /\ Enter(p, "ack")
  /\ UNCHANGED <<sess, acct, casa, bank, unlink, events>>

\* Still with the bank, or the record leads the payload: try again later.
NotYet(p, a) ==
  /\ Held(p, a) /\ Undecided(a)
  /\ \/ proc[p].saw = "awaiting_redirect"
     \/ proc[p].saw = "result_ready" /\ result[a] = "none"
  /\ att' = Free(a) /\ Stop(p)
  /\ UNCHANGED <<sess, acct, casa, bank, unlink, events>>

Published(p, a) == /\ Held(p, a) /\ Undecided(a)
                   /\ proc[p].saw = "result_ready" /\ result[a] # "none"

\* The result is unreadable, invalid, another flow's or too old to use, the
\* bank refused, or the generation fence refuses.
Discard(p, a) ==
  /\ Published(p, a)
  /\ \/ SettleAs(a, "closed", "other")            \* unusable
     \/ result[a] = "error" /\ SettleAs(a, "declined", "other")
     \/ result[a] = "code" /\ Refused(a) /\ SettleAs(a, "closed", "other")
  /\ Enter(p, "ack")
  /\ UNCHANGED <<sess, acct, casa, bank, unlink, events>>

Begin(p, a) ==
  /\ Published(p, a) /\ result[a] = "code" /\ ~Refused(a)
  /\ att[a].phase \notin Began
  /\ att' = [att EXCEPT ![a].phase = "exchange_started", ![a].lapsed = FALSE]
  /\ Enter(p, "post")
  /\ UNCHANGED <<sess, acct, casa, bank, unlink, events>>

\* An earlier collector began the exchange and never came back.
Interrupted(p, a) ==
  /\ Published(p, a) /\ result[a] = "code" /\ ~Refused(a)
  /\ att[a].phase \in Began
  /\ sess' = ContainSession(sess, a, att[a].session)
  /\ acct' = ContainAccounts(sess, acct, a, att[a].session)
  /\ SettleAs(a, "indeterminate", "other") /\ Enter(p, "ack")
  /\ UNCHANGED <<casa, bank, unlink, events>>

Ack(p, a) ==
  /\ proc[p].pc = "ack" /\ proc[p].a = a
  /\ acked' = acked \cup {a} /\ Stop(p)
  /\ UNCHANGED <<db, rec, result, bank, unlink, events>>

-----------------------------------------------------------------------------
(* The exchange.  A lost fence raises, and so does any failing call.       *)

At(p, a, pc) == proc[p].pc = pc /\ proc[p].a = a

\* `heartbeat`: the lease is re-stamped, or the exchange raises.
Beats(p, a) == Holds(p, a) /\ att' = [att EXCEPT ![a].lapsed = FALSE]

\* Mutant of Raise: the exception is swallowed, the verdict declared stands.
Swallow(p) == Enter(p, "tail")

Raise(p) == Enter(p, "fail")
LostFence(p, a) == ~Holds(p, a) /\ Raise(p) /\ UNCHANGED <<att, sess, acct>>

\* POST /sessions.  The answer, or a failure before or after the provider
\* created the consent.
Post(p, a) ==
  /\ At(p, a, "post")
  /\ \/ /\ posted' = [posted EXCEPT ![a] = @ + 1]
        /\ grant' = [grant EXCEPT ![a] = "live"]
        /\ Goto(p, "note") \/ Raise(p)
     \/ /\ posted' = [posted EXCEPT ![a] = @ + 1]
        /\ Raise(p) /\ UNCHANGED grant
  /\ UNCHANGED <<db, casa, unlink, events>>

Note(p, a) ==
  /\ At(p, a, "note")
  /\ \/ /\ Holds(p, a)
        /\ att' = [att EXCEPT ![a].session = TRUE, ![a].lapsed = FALSE]
        /\ Goto(p, "verify") /\ UNCHANGED <<sess, acct>>
     \/ LostFence(p, a)
  /\ UNCHANGED <<casa, bank, unlink, events>>

\* `_fenced_prior` and the exact-set comparison of a renewal.
MayRenew(a) ==
  LET s == acct[att[a].account].bound
  IN  /\ s # Nobody
      /\ sess[s].status = "AUTHORIZED" /\ sess[s].gen = att[a].expected
      /\ BoundTo(s) = Accounts

\* Verified, declared and staged; or not verified and no verdict; or the
\* control panel could not be asked.
Verify(p, a) ==
  /\ At(p, a, "verify")
  /\ \/ /\ Holds(p, a) /\ (att[a].purpose = "renew" => MayRenew(a))
        /\ att' = [att EXCEPT ![a].outcome = "verified", ![a].lapsed = FALSE]
        /\ proc' = [proc EXCEPT
             ![p].pc = "insert", ![p].left = Accounts,
             ![p].prior = IF att[a].purpose = "renew"
                          THEN acct[att[a].account].bound ELSE Nobody,
             ![p].lives = [x \in Accounts |-> acct[x].life]]
     \/ att[a].purpose = "link" /\ Enter(p, "tail") /\ UNCHANGED att
     \/ att[a].purpose = "renew" /\ Beats(p, a) /\ Enter(p, "tail")
     \/ Raise(p) /\ UNCHANGED att
  /\ UNCHANGED <<sess, acct, casa, bank, unlink, events>>

\* Mutant of Staged: the session goes in as a linked one.
StagedLinked == [NoSession EXCEPT !.status = "AUTHORIZED", !.gen = 1]

Staged == [NoSession EXCEPT !.status = "REVIEW_REQUIRED"]

\* The staged row.  A session the provider confirmed closed is not written.
InsertSession(p, a) ==
  /\ At(p, a, "insert")
  /\ \/ /\ Beats(p, a)
        /\ sess' = IF sess[a].closed THEN sess
                   ELSE [sess EXCEPT ![a] = Staged]
        /\ \/ att[a].purpose = "link" /\ Goto(p, "bind")
           \/ /\ att[a].purpose = "renew"
              /\ \E x \in Accounts :
                   proc' = [proc EXCEPT ![p].pc = "fetch", ![p].cur = x]
        /\ UNCHANGED acct
     \/ LostFence(p, a)
  /\ UNCHANGED <<casa, bank, unlink, events>>

\* Mutant of BoundElsewhere: the rebinding backstop is gone.
NeverElsewhere(x, a) == FALSE

BoundElsewhere(x, a) == acct[x].present /\ acct[x].bound \notin {Nobody, a}

\* A heartbeat, then the row `upsert_account` reads, and the rebinding
\* backstop on what it read.
BindRead(p, a) ==
  /\ At(p, a, "bind")
  /\ \/ \E x \in proc[p].left :
          /\ Beats(p, a)
          /\ IF BoundElsewhere(x, a)
             THEN Raise(p)
             ELSE proc' = [proc EXCEPT
                    ![p].pc = "write", ![p].cur = x,
                    ![p].fresh = ~acct[x].present,
                    ![p].lives = [@ EXCEPT ![x] = acct[x].life]]
          /\ UNCHANGED <<sess, acct>>
     \/ LostFence(p, a)
  /\ UNCHANGED <<casa, bank, unlink, events>>

\* The update finds the life that was read, the insert no row of that key.
StillThere(p, x) ==
  IF proc[p].fresh THEN ~acct[x].present
  ELSE acct[x].present /\ acct[x].life = proc[p].lives[x]

\* The row it writes: a new life for an account that was not there.
Upserted(x, a) ==
  [acct[x] EXCEPT !.present = TRUE, !.bound = a,
                  !.life = IF acct[x].present THEN @ ELSE @ + 1]

\* Its write, a statement of its own, which looks at the life of the account
\* and not at its binding.
BindWrite(p, a) ==
  LET x == proc[p].cur
  IN  /\ At(p, a, "write")
      /\ IF StillThere(p, x)
         THEN /\ acct' = [acct EXCEPT ![x] = Upserted(x, a)]
              /\ proc' = [proc EXCEPT
                   ![p].pc = "fetch",
                   ![p].lives = [@ EXCEPT ![x] = Upserted(x, a).life]]
         ELSE Raise(p) /\ UNCHANGED acct
      /\ UNCHANGED <<att, sess, casa, bank, unlink, events>>

\* A heartbeat, then the next transactions page.
Page(p, a) ==
  /\ At(p, a, "fetch") \/ At(p, a, "page")
  /\ \/ Beats(p, a) /\ Goto(p, "page") /\ UNCHANGED <<sess, acct>>
     \/ LostFence(p, a)
  /\ UNCHANGED <<casa, bank, unlink, events>>

\* After the last account: a first link reports, a renewal switches unless
\* some account fell short.
AfterFetch(p, a, ok) ==
  LET left == proc[p].left \ {proc[p].cur}
      short == proc[p].short \/ ~ok
      on(pc, x) == [proc[p] EXCEPT !.pc = pc, !.left = left, !.cur = x,
                                   !.short = short]
  IN  \/ left # {} /\ att[a].purpose = "link"
         /\ proc' = [proc EXCEPT ![p] = on("bind", Nobody)]
      \/ \E x \in left : /\ att[a].purpose = "renew"
                         /\ proc' = [proc EXCEPT ![p] = on("fetch", x)]
      \/ /\ left = {}
         /\ proc' = [proc EXCEPT ![p] =
              on(IF att[a].purpose = "renew" /\ ~short THEN "switch"
                 ELSE "declare", Nobody)]

\* The end of one account's backfill: complete, capped, or failed.  Each
\* write is conditioned on the life the caller captured.
Fetched(p, a) ==
  LET x == proc[p].cur
      alive == acct[x].present /\ acct[x].life = proc[p].lives[x]
      stamp(s) == acct' = IF alive THEN [acct EXCEPT ![x].fetched = s] ELSE acct
  IN  /\ At(p, a, "page")
      /\ \/ stamp(a) /\ AfterFetch(p, a, alive)
         \/ stamp(Nobody) /\ AfterFetch(p, a, FALSE)
         \/ stamp(Nobody) /\ Raise(p)
      /\ UNCHANGED <<att, sess, casa, bank, unlink, events>>

\* Mutant of Moved: only the account the renewal was fenced by moves.
MovedFenced(a) == [acct EXCEPT ![att[a].account].bound = a]

Moved(a) == [x \in Accounts |-> [acct[x] EXCEPT !.bound = a]]

\* The new consent a generation above the old one, which is to be withdrawn.
Switched(a, old) ==
  [s \in Attempts |->
     IF s = a THEN [sess[a] EXCEPT !.status = "AUTHORIZED",
                                   !.gen = sess[old].gen + 1]
     ELSE IF s = old /\ ~sess[old].closed
          THEN [sess[old] EXCEPT !.status = "REVOKE_PENDING"] ELSE sess[s]]

\* `switch_bindings`: promote, move, bump and retire in one transaction, on
\* the evidence of the deep fetch.  No heartbeat precedes it.
Switch(p, a) ==
  LET old == proc[p].prior
      erased == \E x \in Accounts :
                  ~acct[x].present \/ acct[x].life # proc[p].lives[x]
  IN  /\ At(p, a, "switch")
      /\ \/ /\ erased
            /\ proc' = [proc EXCEPT ![p].pc = "declare", ![p].short = TRUE]
            /\ UNCHANGED <<sess, acct>>
         \/ /\ ~erased
            /\ \/ \E x \in Accounts : ~DeepFetched(x, a)
               \/ BoundTo(old) # Accounts
            /\ Raise(p) /\ UNCHANGED <<sess, acct>>
         \/ /\ ~erased
            /\ \A x \in Accounts : DeepFetched(x, a)
            /\ BoundTo(old) = Accounts
            /\ sess' = Switched(a, old) /\ acct' = Moved(a)
            /\ Goto(p, "revoke")
      /\ UNCHANGED <<att, casa, bank, unlink, events>>

\* `_revoke`: the bank is asked, then the answer is recorded.
Revoke(p, a) ==
  /\ At(p, a, "revoke")
  /\ \E ok \in BOOLEAN :
       /\ Withdraw(proc[p].prior, ok)
       /\ proc' = [proc EXCEPT ![p].pc = "record", ![p].answer = ok]
  /\ UNCHANGED <<db, casa, posted, unlink, events>>

RecordRevocation(p, a) ==
  /\ At(p, a, "record")
  /\ sess' = Recorded(proc[p].prior, proc[p].answer)
  /\ Goto(p, "declare")
  /\ UNCHANGED <<att, acct, casa, bank, unlink, events>>

\* The last heartbeat, and `declare_partial` when any account fell short.
Declare(p, a) ==
  LET short == \/ proc[p].short
               \/ att[a].purpose = "renew"
                  /\ \E x \in Accounts : ~DeepFetched(x, a)
  IN  /\ At(p, a, "declare")
      /\ \/ /\ Holds(p, a)
            /\ att' = [att EXCEPT ![a].lapsed = FALSE,
                 ![a].outcome = IF short THEN "verified_partial" ELSE @]
            /\ Enter(p, "tail") /\ UNCHANGED <<sess, acct>>
         \/ LostFence(p, a)
      /\ UNCHANGED <<casa, bank, unlink, events>>

-----------------------------------------------------------------------------
(* The collector's tail, one transaction each, fenced by `_settle`.        *)

\* No verdict: contain.  A verdict: promote the staged consent, contain it
\* when it is not a live link.
Tail(p, a) ==
  /\ At(p, a, "tail") /\ Holds(p, a)
  /\ \/ /\ att[a].outcome \notin {"verified", "verified_partial"}
        /\ sess' = ContainSession(sess, a, att[a].session)
        /\ acct' = ContainAccounts(sess, acct, a, att[a].session)
        /\ SettleAs(a, "review_required", "other")
     \/ /\ att[a].outcome \in {"verified", "verified_partial"}
        /\ LET S == Promoted(a)
               live == LiveLink(S, acct, a)
           IN  /\ sess' = IF live THEN S ELSE ContainSession(S, a, att[a].session)
               /\ acct' = IF live THEN acct
                          ELSE ContainAccounts(S, acct, a, att[a].session)
               /\ SettleAs(a, IF live \/ att[a].outcome = "verified_partial"
                              THEN "exchanged" ELSE "review_required", "other")
  /\ Enter(p, "ack")
  /\ UNCHANGED <<casa, bank, unlink, events>>

\* The exchange raised.
Fail(p, a) ==
  /\ At(p, a, "fail") /\ Holds(p, a)
  /\ sess' = ContainSession(sess, a, att[a].session)
  /\ acct' = ContainAccounts(sess, acct, a, att[a].session)
  /\ SettleAs(a, "indeterminate", "other") /\ Enter(p, "ack")
  /\ UNCHANGED <<casa, bank, unlink, events>>

\* A stale owner commits nothing and acknowledges nothing.
Stale(p, a) ==
  /\ (At(p, a, "tail") \/ At(p, a, "fail")) /\ ~Holds(p, a)
  /\ Stop(p)
  /\ UNCHANGED <<db, casa, bank, unlink, events>>

-----------------------------------------------------------------------------
(* The clock, crashes, and the operator.                                   *)

\* A lease runs out while its holder is inside a provider call or dead.
\* LEASE_TTL_S is never spent between two adjacent statements.
Lapse(a) ==
  /\ att[a].token # Nobody /\ ~att[a].lapsed
  /\ LET q == proc[att[a].token]
     IN  q.a = a /\ q.pc # "read" => q.pc \in Calls
  /\ att' = [att EXCEPT ![a].lapsed = TRUE]
  /\ UNCHANGED <<sess, acct, casa, bank, proc, unlink, events>>

Crash(p) ==
  /\ proc[p].pc # "idle" /\ Happens("crash")
  /\ Stop(p)
  /\ UNCHANGED <<db, casa, bank, unlink>>

\* `unlink_bank` on an open consent.  The operator's word that it was
\* withdrawn at the bank counts only if a withdrawal had failed before.
UnlinkCall(s) ==
  /\ Alone /\ Open(s) /\ Happens("unlink")
  /\ \/ Withdraw(s, TRUE) /\ unlink' = [s |-> s, answer |-> "gone"]
     \/ Withdraw(s, FALSE) /\ unlink' = [s |-> s, answer |-> "kept"]
     \/ /\ sess[s].status = "REVOKE_FAILED"
        /\ Withdraw(s, FALSE) /\ unlink' = [s |-> s, answer |-> "word"]
  /\ UNCHANGED <<db, casa, posted, proc>>

\* Its transaction: the answer, or the operator's word, and the release of
\* every binding.
UnlinkWrite(s) ==
  LET settled == /\ unlink.answer = "word"
                 /\ ~sess[s].closed /\ sess[s].status = "REVOKE_FAILED"
  IN  /\ unlink.s = s
      /\ sess' = IF settled
                 THEN [sess EXCEPT ![s].status = "WITHDRAWN_BY_OPERATOR",
                                   ![s].closed = TRUE]
                 ELSE Recorded(s, unlink.answer = "gone")
      /\ acct' = IF unlink.answer = "gone" \/ settled
                 THEN [x \in Accounts |->
                         IF acct[x].bound = s THEN LetGo(acct[x]) ELSE acct[x]]
                 ELSE acct
      /\ unlink' = NoUnlink
      /\ UNCHANGED <<att, casa, bank, proc, events>>

UnlinkDies == /\ unlink.s # Nobody /\ "crash" \in Events
              /\ unlink' = NoUnlink
              /\ UNCHANGED <<db, casa, bank, proc, events>>

\* `forget_local_account`: the account and every attempt fenced against it.
Forget(x) ==
  /\ Admitted /\ acct[x].present /\ Happens("forget")
  /\ acct' = [acct EXCEPT ![x] = [NoRowYet EXCEPT !.life = acct[x].life]]
  /\ att' = [a \in Attempts |->
               IF Row(a) /\ att[a].account = x
               THEN [att[a] EXCEPT !.phase = "erased", !.outcome = "none",
                                   !.session = FALSE, !.token = Nobody,
                                   !.lapsed = FALSE]
               ELSE att[a]]
  /\ UNCHANGED <<sess, casa, bank, proc, unlink>>

-----------------------------------------------------------------------------
Pass(p, a) ==
  \/ Take(p, a) \/ Vanished(p, a) \/ AckAgain(p, a) \/ Abandon(p, a)
  \/ CasaEnded(p, a) \/ NotYet(p, a) \/ Discard(p, a) \/ Begin(p, a)
  \/ Interrupted(p, a) \/ Ack(p, a)

Exchange(p, a) ==
  \/ Post(p, a) \/ Note(p, a) \/ Verify(p, a) \/ InsertSession(p, a)
  \/ BindRead(p, a) \/ BindWrite(p, a) \/ Page(p, a) \/ Fetched(p, a)
  \/ Switch(p, a) \/ Revoke(p, a) \/ RecordRevocation(p, a) \/ Declare(p, a)

Settle(p, a) == Tail(p, a) \/ Fail(p, a) \/ Stale(p, a)

Casa(a) == Redirect(a) \/ Land(a) \/ CasaEnds(a)

Next == \/ \E a \in Attempts : Mint(a) \/ Casa(a) \/ Lapse(a)
                               \/ UnlinkCall(a) \/ UnlinkWrite(a)
        \/ \E p \in Procs, a \in Attempts :
             Read(p, a) \/ Pass(p, a) \/ Exchange(p, a) \/ Settle(p, a)
        \/ \E p \in Procs : Crash(p)
        \/ UnlinkDies
        \/ \E x \in Accounts : Forget(x)

Spec == Init /\ [][Next]_vars

Step(p) == \E a \in Attempts : Pass(p, a) \/ Exchange(p, a) \/ Settle(p, a)

\* A pass that is not killed goes on, and its pagination ends (MAX_PAGES);
\* passes keep reading what is pending (casa's nudges, and every later turn
\* that collects); results land, leases run out, and an
\* `unlink_bank` that is not killed ends.
FairSpec ==
  /\ Spec
  /\ \A p \in Procs : WF_vars(Step(p))
  /\ \A p \in Procs, a \in Attempts : SF_vars(Fetched(p, a))
  /\ \A a \in Attempts : /\ SF_vars(\E p \in Procs : Read(p, a))
                         /\ WF_vars(Land(a)) /\ WF_vars(Lapse(a))
                         /\ WF_vars(UnlinkWrite(a))

-----------------------------------------------------------------------------
(* Properties.                                                             *)

Attempt == [phase : Phases, outcome : Outcomes, purpose : {"link", "renew"},
            account : Accounts \cup {Nobody}, expected : Nat,
            session : BOOLEAN, token : Procs \cup {Nobody}, lapsed : BOOLEAN]
Session == [status : Statuses, gen : Nat, closed : BOOLEAN]
Account == [present : BOOLEAN, life : Nat, bound : Attempts \cup {Nobody},
            fetched : Attempts \cup {Nobody}, released : BOOLEAN]
Records == {"none", "awaiting_redirect", "result_ready", "done"}
Collector == [pc : Pcs, a : Attempts \cup {Nobody}, saw : Records,
              prior : Attempts \cup {Nobody}, lives : [Accounts -> Nat],
              left : SUBSET Accounts, cur : Accounts \cup {Nobody},
              fresh : BOOLEAN, short : BOOLEAN, answer : BOOLEAN]

\* Types, and what each column may hold.
TypeOK ==
  /\ att \in [Attempts -> Attempt]
  /\ sess \in [Attempts -> Session]
  /\ acct \in [Accounts -> Account]
  /\ rec \in [Attempts -> Records]
  /\ result \in [Attempts -> {"none", "code", "error"}]
  /\ acked \subseteq Attempts
  /\ grant \in [Attempts -> {"none", "live", "gone"}]
  /\ posted \in [Attempts -> Nat]
  /\ proc \in [Procs -> Collector]
  /\ unlink \in [s : Attempts \cup {Nobody}, answer : {"gone", "kept", "word"}]
  /\ events \in 0..MaxEvents

\* A code is posted at most once, a decision is never undone, and casa is
\* told of nothing undecided: `begin_exchange`, `_settle` and the order
\* collect, exchange, commit, acknowledge implement Authorizations, whatever
\* crashes and whoever steals the lease.
Promise == INSTANCE Authorizations WITH
  spent <- posted,
  decided <- {a \in Attempts : att[a].phase \in SETTLED_PHASES},
  erased <- {a \in Attempts : att[a].phase = "erased"},
  told <- acked
KeepsPromise == Promise!Spec

\* The bank has at most one live link: `upsert_account` refuses to rebind,
\* `_promote` wants a bound account, and `switch_bindings` retires the old
\* consent in the transaction that promotes the new one.  Two links can divide
\* the accounts only where two accounts were erased and bound again, or had
\* been let go before both links read them: no exchange looks at what became
\* of the accounts it bound before.
OneLiveLink ==
  \A s, t \in Attempts :
    LiveLink(sess, acct, s) /\ LiveLink(sess, acct, t) /\ s # t
      => \E x, y \in Accounts :
           /\ x # y
           /\ acct[x].life > 1 \/ acct[x].released
           /\ acct[y].life > 1 \/ acct[y].released

\* The ledger never holds a live first link for an authorization it has not
\* settled (`_promote` shares the transaction of `_settle`).
LiveOnlySettled ==
  \A a \in Attempts :
    sess[a].status = "AUTHORIZED" /\ att[a].purpose = "link"
      => att[a].phase \in {"exchanged", "abandoned"}

\* A first link that settled without becoming live leaves no account bound
\* to it, even when its collector is still running (`_contain`, `heartbeat`).
ContainedIsUnbound ==
  \A a \in Attempts :
    att[a].phase \in {"review_required", "indeterminate"}
    /\ att[a].purpose = "link" => BoundTo(a) = {}

\* An exchange that was settled by its own collector or by the one that found
\* it interrupted leaves the consent it noted in the sessions table, and no
\* consent is recorded as closed by the provider while the bank holds it: it
\* can be shown and revoked (`_contain`, `record_revocation`).
ConsentVisible ==
  \A a \in Attempts :
    /\ att[a].session /\ att[a].phase \in {"exchanged", "review_required",
                                           "indeterminate"}
         => sess[a].status # "none"
    /\ sess[a].status = "CLOSED" => grant[a] = "gone"

\* While an account lives, its binding moves from one consent to another only
\* upwards in generation, and only onto a consent whose history it has
\* fetched to the end (the generation fence, `deep_fetch_complete`).  One
\* write escapes both: a first link under way, still holding its lease, that
\* read the account between a release and the binding it overwrites.
NoRollback ==
  [][\A x \in Accounts :
       LET s == acct[x].bound
           t == acct'[x].bound
       IN  s # Nobody /\ t # Nobody /\ s # t
             => \/ sess'[t].gen > sess[s].gen /\ acct[x].fetched = t
                \/ /\ acct[x].released
                   /\ \E p \in Procs :
                        Holds(p, t) /\ At(p, t, "write") /\ proc[p].cur = x]_vars

\* A renewal withdraws the old consent at the bank only when no account is
\* left on it: the ledger is never without the consent it serves from.
ReplacedBeforeWithdrawn ==
  [][\A p \in Procs, s \in Attempts :
       proc[p].pc = "revoke" /\ proc'[p].pc = "record" /\ proc[p].prior = s
         => BoundTo(s) = {}]_vars

\* An authorization the bank answered, or casa ended, is decided in the end,
\* unless an erasure removes it: no crash or stolen lease leaves it pending
\* for ever (`take_lease`, `Interrupted`).
DecidedEventually ==
  \A a \in Attempts :
    Row(a) /\ rec[a] \in {"result_ready", "done"}
      ~> att[a].phase \in SETTLED_PHASES \cup {"erased"}

-----------------------------------------------------------------------------
(* Claims of the code's comments that its interleavings refute.            *)

\* "this later turn is where its half-done work gets contained: the consent
\* it noted is quarantined and every account it bound is released": whenever
\* an attempt is settled, the consent it noted has a row.
KilledIsContained ==
  \A a \in Attempts :
    att[a].session /\ att[a].phase \in SETTLED_PHASES => sess[a].status # "none"

\* `heartbeat`: the exchange must prove it still holds the lease before the
\* binding switch, so no binding is switched for an attempt that was settled
\* or taken over.
SwitchUnderLease ==
  [][\A p \in Procs : proc[p].pc = "switch" /\ proc'[p].pc = "revoke"
        => Holds(p, proc[p].a)]_vars
=============================================================================
