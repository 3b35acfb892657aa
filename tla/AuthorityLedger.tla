-------------------------- MODULE AuthorityLedger --------------------------
(***************************************************************************)
(* The Postgres budget authority (internal/authority/pgstore) as database  *)
(* transactions.  Several control-plane replicas run Store.Sync against    *)
(* one database: each takes a SHARE lock on the policies, the row lock of  *)
(* the dataplane it serves and then the locks of the accounts, works on    *)
(* copies of the rows, and commits or rolls back as a whole.  Policy       *)
(* writers and the calendar move in between.                               *)
(*                                                                         *)
(* The items of a batch (reports, then meters, then grant requests) are    *)
(* chosen one at a time while the transaction runs.  Abort stands for      *)
(* every error return of Sync: a rejected item, a lost connection, a       *)
(* cancelled context, a crashed replica.                                   *)
(*                                                                         *)
(* An authority_requests row is numbered by its primary key (dataplane,    *)
(* boot, request capability), so BootOf and NodeOf are constants.          *)
(***************************************************************************)
EXTENDS LedgerRules, Sums

CONSTANTS Replicas,      \* control-plane processes
          MaxKey,        \* budget keys are 1..MaxKey, in lock order
          MaxWindow,     \* calendar windows are 0..MaxWindow
          MaxRequest,    \* grant requests are 1..MaxRequest
          MaxBoot,       \* node boots are 1..MaxBoot
          BootOf,        \* the boot that made a request
          NodeOf,        \* the dataplane a boot belongs to
          Definitions,   \* budget definitions policy writers may store
          Wants,         \* amounts nodes ask for
          Reports,       \* grant report contents nodes send
          Meters,        \* meter report contents nodes send
          NoRow, NoAccount, NoDraft

Keys     == 1..MaxKey
Windows  == 0..MaxWindow
Requests == 1..MaxRequest
Boots    == 1..MaxBoot
Accounts == Keys \X Windows
MeterIds == Boots \X Accounts

\* A BIGINT column or an int64 wire value.
Amount == 0..MaxInt64

\* tiers are the thresholds, in percent, of the ladder that refers to the budget.
Definition == [rev : Nat, limit : Amount, grant : Amount, hard : BOOLEAN,
               tiers : SUBSET (1..100)]

Report == [seq : Amount, consumed : Amount, observed : Amount,
           closed : BOOLEAN, overrun : BOOLEAN]

Meter == [seq : Amount, consumed : Amount, observed : Amount]

Account == [hardEncumbered : Amount, hardConsumed : Amount, softConsumed : Amount,
            acceptsMeters : BOOLEAN, frozen : BOOLEAN]

Row == [acct : Accounts, rev : Nat, want : Amount, amount : Amount, seq : Amount,
        consumed : Amount, observed : Amount, closed : BOOLEAN, overrun : BOOLEAN]

ASSUME LedgerAssumption ==
    /\ MaxKey \in Nat /\ MaxWindow \in Nat /\ MaxRequest \in Nat
    /\ MaxBoot \in Nat \ {0}
    /\ BootOf \in [Requests -> Boots]
    /\ DOMAIN NodeOf = Boots
    /\ Definitions \subseteq Definition /\ NoBudget \notin Definition
    /\ Wants \subseteq Amount /\ Reports \subseteq Report /\ Meters \subseteq Meter
    /\ NoRow \notin Row /\ NoAccount \notin Account /\ NoDraft \notin Meter

VARIABLES policies,    \* table policies: the stored definition of each key
          window,      \* clock_timestamp(), as the window it lies in
          accounts,    \* table authority_accounts
          rows,        \* table authority_requests
          meters,      \* table authority_meters
          latch,       \* table authority_tiers
          stage,       \* how far each replica's transaction is
          boot,        \* the boot whose sync it serves
          docs,        \* the policies it read
          win,         \* the window it derived its budgets for
          wanted,      \* accounts it has to lock
          working,     \* its locked accounts, NoAccount where it holds none
          draft,       \* its uncommitted request rows, NoRow where none
          meterDraft   \* its uncommitted meter rows, NoDraft where none

tables == <<policies, accounts, rows, meters, latch>>
txs    == <<stage, boot, docs, win, wanted, working, draft, meterDraft>>
vars   == <<tables, window, txs>>

Idle    == "idle"
Stages  == {Idle, "policies", "accounts", "reports", "meters", "requests"}
Owning  == {"accounts", "reports", "meters", "requests"}
Writing == {"reports", "meters", "requests"}

(***************************************************************************)
(* Every column stays in its type, amounts in the int64 range, and every   *)
(* transaction's copies too: no overflow reaches a row.                    *)
(***************************************************************************)
TypeOK ==
    /\ policies \in [Keys -> Definitions \cup {NoBudget}]
    /\ window \in Windows
    /\ accounts \in [Accounts -> Account \cup {NoAccount}]
    /\ rows \in [Requests -> Row \cup {NoRow}]
    /\ meters \in [MeterIds -> Meter]
    /\ latch \in [Accounts -> 0..100]
    /\ stage \in [Replicas -> Stages]
    /\ boot \in [Replicas -> Boots]
    /\ docs \in [Replicas -> [Keys -> Definitions \cup {NoBudget}]]
    /\ win \in [Replicas -> Windows]
    /\ wanted \in [Replicas -> SUBSET Accounts]
    /\ working \in [Replicas -> [Accounts -> Account \cup {NoAccount}]]
    /\ draft \in [Replicas -> [Requests -> Row \cup {NoRow}]]
    /\ meterDraft \in [Replicas -> [MeterIds -> Meter \cup {NoDraft}]]

Init ==
    /\ policies = [k \in Keys |-> NoBudget]
    /\ window = 0
    /\ accounts = [a \in Accounts |-> NoAccount]
    /\ rows = [i \in Requests |-> NoRow]
    /\ meters = [x \in MeterIds |-> NoMeter]
    /\ latch = [a \in Accounts |-> 0]
    /\ stage = [t \in Replicas |-> Idle]
    /\ boot = [t \in Replicas |-> 1] /\ win = [t \in Replicas |-> 0]
    /\ docs = [t \in Replicas |-> [k \in Keys |-> NoBudget]]
    /\ wanted = [t \in Replicas |-> {}]
    /\ working = [t \in Replicas |-> [a \in Accounts |-> NoAccount]]
    /\ draft = [t \in Replicas |-> [i \in Requests |-> NoRow]]
    /\ meterDraft = [t \in Replicas |-> [x \in MeterIds |-> NoDraft]]

-----------------------------------------------------------------------------
(* What a transaction sees. *)

Node(t) == NodeOf[boot[t]]

Held(t) == {a \in Accounts : working[t][a] # NoAccount}

\* The row as the transaction reads it: its own write, else the committed one.
View(t, i) == IF draft[t][i] # NoRow THEN draft[t][i] ELSE rows[i]

MeterView(t, x) ==
    IF meterDraft[t][x] # NoDraft THEN meterDraft[t][x] ELSE meters[x]

\* The accounts of the budgets that transaction t derives for window w.
Active(t, w) == {a \in Accounts : a[2] = w /\ docs[t][a[1]] # NoBudget}

Budget(t, a) == IF a \in Active(t, win[t]) THEN docs[t][a[1]] ELSE NoBudget

\* Mutant: accounts are locked in map order.
Unordered(a, b) == TRUE

\* orderedKeys.
Before(a, b) == a[1] < b[1] \/ (a[1] = b[1] /\ a[2] < b[2])

\* FOR UPDATE on an account waits for the transaction that holds it.
LockFree(t, a) == \A u \in Replicas \ {t} : a \notin Held(u)

NodeFree(t) ==
    \A u \in Replicas \ {t} : ~(stage[u] \in Owning /\ Node(u) = Node(t))

-----------------------------------------------------------------------------
(* Store.Sync, one action per statement group. *)

\* LOCK TABLE policies IN SHARE MODE, then read them.
Begin(t, b) ==
    /\ stage[t] = Idle
    /\ stage' = [stage EXCEPT ![t] = "policies"]
    /\ boot' = [boot EXCEPT ![t] = b]
    /\ docs' = [docs EXCEPT ![t] = policies]
    /\ UNCHANGED <<tables, window, win, wanted, working, draft, meterDraft>>

\* Lock the dataplane row, read the clock, derive the budgets and resolve the
\* accounts that the batch's reports and meters refer to (extra).
LockDataplane(t, extra) ==
    /\ stage[t] = "policies" /\ NodeFree(t)
    /\ stage' = [stage EXCEPT ![t] = "accounts"]
    /\ win' = [win EXCEPT ![t] = window]
    /\ wanted' = [wanted EXCEPT ![t] = Active(t, window) \cup extra]
    /\ UNCHANGED <<tables, window, boot, docs, working, draft, meterDraft>>

\* The next account of lockAccounts, created if the budget is new.
LockAccount(t, a) ==
    /\ stage[t] = "accounts"
    /\ a \in wanted[t] \ Held(t)
    /\ \A b \in wanted[t] \ Held(t) : b = a \/ Before(a, b)
    /\ LockFree(t, a)
    /\ LET soft == a \in Active(t, win[t]) /\ ~docs[t][a[1]].hard
       IN  working' = [working EXCEPT ![t][a] =
               IF accounts[a] = NoAccount THEN NewAccount(soft)
               ELSE [accounts[a] EXCEPT !.acceptsMeters = @ \/ soft]]
    /\ UNCHANGED <<tables, window, stage, boot, docs, win, wanted, draft, meterDraft>>

\* All locks are held: read the clock again.
Recheck(t) ==
    /\ stage[t] = "accounts" /\ wanted[t] \subseteq Held(t)
    /\ window = win[t] \/ Active(t, win[t]) = {}
    /\ stage' = [stage EXCEPT ![t] = "reports"]
    /\ UNCHANGED <<tables, window, boot, docs, win, wanted, working, draft, meterDraft>>

\* applyReport for one report; validateRequest allows one per grant.
ReportGrant(t, i, r) ==
    /\ stage[t] = "reports"
    /\ NodeOf[BootOf[i]] = Node(t) /\ draft[t][i] = NoRow /\ rows[i] # NoRow
    /\ rows[i].amount > 0 /\ rows[i].acct \in Held(t)
    /\ WellFormedReport(r)
    /\ \E o \in ApplyReport(working[t][rows[i].acct], rows[i], r, BootOf[i] # boot[t]) :
         /\ working' = [working EXCEPT ![t][rows[i].acct] = o.acct]
         /\ draft' = [draft EXCEPT ![t][i] = o.row]
    /\ UNCHANGED <<tables, window, stage, boot, docs, win, wanted, meterDraft>>

\* applyMeter for one meter; validateRequest allows one per boot and window.
ReportMeter(t, b, a, m) ==
    /\ stage[t] \in {"reports", "meters"}
    /\ NodeOf[b] = Node(t) /\ meterDraft[t][<<b, a>>] = NoDraft /\ a \in Held(t)
    /\ WellFormedMeter(m)
    /\ \E o \in ApplyMeter(working[t][a], meters[<<b, a>>], m, b # boot[t]) :
         /\ working' = [working EXCEPT ![t][a] = o.acct]
         /\ meterDraft' = [meterDraft EXCEPT ![t][<<b, a>>] = o.row]
    /\ stage' = [stage EXCEPT ![t] = "meters"]
    /\ UNCHANGED <<tables, window, boot, docs, win, wanted, draft>>

\* The row of a request that was never made before.
Fresh(a, rev, want) ==
    [acct |-> a, rev |-> rev, want |-> want, amount |-> 0, seq |-> 0,
     consumed |-> 0, observed |-> 0, closed |-> FALSE, overrun |-> FALSE]

\* issueGrant for one request of the current boot.
RequestGrant(t, i, a, rev, want) ==
    /\ stage[t] \in Writing
    /\ BootOf[i] = boot[t] /\ draft[t][i] = NoRow
    /\ LET asked == Fresh(a, rev, want)
           g == IF rows[i] = NoRow THEN asked ELSE rows[i]
       IN  \E o \in IssueGrant(working[t][a], g, asked, Budget(t, a)) :
             /\ working' = [working EXCEPT ![t][a] = o.acct]
             /\ draft' = [draft EXCEPT ![t][i] = o.row]
    /\ stage' = [stage EXCEPT ![t] = "requests"]
    /\ UNCHANGED <<tables, window, boot, docs, win, wanted, meterDraft>>

\* The transaction is over: its locks and copies are gone.
Release(t) ==
    /\ stage' = [stage EXCEPT ![t] = Idle]
    /\ boot' = [boot EXCEPT ![t] = 1]
    /\ docs' = [docs EXCEPT ![t] = [k \in Keys |-> NoBudget]]
    /\ win' = [win EXCEPT ![t] = 0]
    /\ wanted' = [wanted EXCEPT ![t] = {}]
    /\ working' = [working EXCEPT ![t] = [a \in Accounts |-> NoAccount]]
    /\ draft' = [draft EXCEPT ![t] = [i \in Requests |-> NoRow]]
    /\ meterDraft' = [meterDraft EXCEPT ![t] = [x \in MeterIds |-> NoDraft]]

\* tier.UtilizedPercent.
UtilizedPercent(spent, outstanding, limit) ==
    IF limit <= 0 \/ spent + outstanding >= limit THEN 100
    ELSE ((spent + outstanding) * 100) \div limit

\* The threshold that an account's utilization has reached, 0 if none.
ReachedTier(a, d) ==
    LET p == UtilizedPercent(IF d.hard THEN a.hardEncumbered ELSE a.hardConsumed,
                             a.softConsumed, d.limit)
        reached == {0} \cup {th \in d.tiers : th <= p}
    IN  CHOOSE th \in reached : \A x \in reached : x <= th

\* Mutant: the stored threshold follows the utilization.
TierFollows(old, a, d) == ReachedTier(a, d)

\* ON CONFLICT ... GREATEST(authority_tiers.threshold, excluded.threshold).
Latched(old, a, d) == Larger(old, ReachedTier(a, d))

\* persistAccounts, activeTiers and COMMIT.
Commit(t) ==
    /\ stage[t] \in Writing
    /\ \A a \in Held(t) :
         AddFits(working[t][a].hardEncumbered, working[t][a].softConsumed)
    /\ accounts' = [a \in Accounts |->
                      IF a \in Held(t) THEN working[t][a] ELSE accounts[a]]
    /\ rows' = [i \in Requests |-> View(t, i)]
    /\ meters' = [x \in MeterIds |-> MeterView(t, x)]
    /\ latch' = [a \in Accounts |->
                   IF a \in Active(t, win[t])
                   THEN Latched(latch[a], working[t][a], docs[t][a[1]])
                   ELSE latch[a]]
    /\ Release(t)
    /\ UNCHANGED <<policies, window>>

Abort(t) ==
    /\ stage[t] # Idle
    /\ Release(t)
    /\ UNCHANGED <<tables, window>>

-----------------------------------------------------------------------------
(* The rest of the world. *)

\* Mutant: policy writers do not wait for running syncs.
WritePolicyUnlocked(k, d) ==
    /\ policies' = [policies EXCEPT ![k] = d]
    /\ UNCHANGED <<accounts, rows, meters, latch, window, txs>>

\* A policy writer's ROW EXCLUSIVE lock waits for every SHARE lock.
WritePolicy(k, d) ==
    /\ \A t \in Replicas : stage[t] = Idle
    /\ policies' = [policies EXCEPT ![k] = d]
    /\ UNCHANGED <<accounts, rows, meters, latch, window, txs>>

\* The calendar enters the next window.
Tick ==
    /\ window < MaxWindow
    /\ window' = window + 1
    /\ UNCHANGED <<tables, txs>>

Step(t) ==
    \/ \E b \in Boots : Begin(t, b)
    \/ \E extra \in SUBSET {a \in Accounts : accounts[a] # NoAccount} : LockDataplane(t, extra)
    \/ \E a \in Accounts : LockAccount(t, a)
    \/ Recheck(t)
    \/ \E i \in Requests, r \in Reports : ReportGrant(t, i, r)
    \/ \E b \in Boots, a \in Accounts, m \in Meters : ReportMeter(t, b, a, m)
    \/ \E i \in Requests, a \in Accounts, d \in Definitions, n \in Wants :
         RequestGrant(t, i, a, d.rev, n)
    \/ Commit(t)
    \/ Abort(t)

Next ==
    \/ \E t \in Replicas : Step(t)
    \/ \E k \in Keys, d \in Definitions \cup {NoBudget} : WritePolicy(k, d)
    \/ Tick

Spec == Init /\ [][Next]_vars

-----------------------------------------------------------------------------
(* Properties. *)

Share(table, a) ==
    [i \in Requests |-> IF table[i] # NoRow /\ table[i].acct = a
                        THEN Contribution(table[i]) ELSE 0]

SettledShare(table, a) ==
    [i \in Requests |-> IF table[i] # NoRow /\ table[i].acct = a
                        THEN Settled(table[i]) ELSE 0]

MeterShare(table, a) == [b \in Boots |-> table[<<b, a>>].consumed]

\* The three columns of account a are the totals of the given tables.
Balanced(acct, a, requestTable, meterTable) ==
    /\ acct.hardEncumbered = Total(Share(requestTable, a), MaxRequest)
    /\ acct.hardConsumed = Total(SettledShare(requestTable, a), MaxRequest)
    /\ acct.softConsumed = Total(MeterShare(meterTable, a), MaxBoot)

(***************************************************************************)
(* No credit is minted or lost: whatever order replicas, retries, old      *)
(* boots and aborts come in, the committed columns of authority_accounts   *)
(* are exactly what the committed request and meter rows add up to, and a  *)
(* window without an account has nothing charged to it.                    *)
(***************************************************************************)
LedgerExact ==
    \A a \in Accounts :
      Balanced(IF accounts[a] = NoAccount THEN NewAccount(FALSE) ELSE accounts[a],
               a, rows, meters)

(***************************************************************************)
(* Spending never escapes the escrow: what an account has consumed is      *)
(* covered by what it holds encumbered, overruns included.                 *)
(***************************************************************************)
ConsumedIsEncumbered ==
    \A a \in Accounts : accounts[a] # NoAccount =>
      accounts[a].hardConsumed <= accounts[a].hardEncumbered

(***************************************************************************)
(* Replicas that lock the policies, a dataplane row and the accounts in    *)
(* (key, window) order never all wait for one another.                     *)
(***************************************************************************)
NoDeadlock ==
    LET Waits(t, u) ==
          \/ stage[t] = "policies" /\ stage[u] \in Owning /\ Node(u) = Node(t)
          \/ /\ stage[t] = "accounts"
             /\ \E a \in wanted[t] \ Held(t) :
                  /\ \A b \in wanted[t] \ Held(t) : b = a \/ Before(a, b)
                  /\ a \in Held(u)
    IN  ~ \E T \in SUBSET Replicas \ {{}} :
            \A t \in T : \E u \in T \ {t} : Waits(t, u)

(***************************************************************************)
(* issueGrant only ever raises an unfrozen account's encumbrance to within *)
(* the limit of the policy in force when it commits, counting soft spend,  *)
(* and grants nothing in a frozen window, whatever policies are edited or  *)
(* deleted and re-added.                                                   *)
(***************************************************************************)
IssuesWithinLimit ==
    [][/\ \A a \in Accounts :
            LET old == IF accounts[a] = NoAccount THEN 0 ELSE accounts[a].hardEncumbered
            IN  /\ accounts'[a] # NoAccount
                /\ accounts'[a].hardEncumbered > old
                /\ ~accounts'[a].frozen
                => /\ policies[a[1]] # NoBudget /\ policies[a[1]].hard
                   /\ Encumbered(accounts'[a]) <= policies[a[1]].limit
       /\ \A i \in Requests :
            /\ rows[i] # NoRow => rows[i].amount = 0
            /\ rows'[i] # NoRow /\ rows'[i].amount > 0
            => LET a == rows'[i].acct
               IN  accounts[a] = NoAccount \/ ~accounts[a].frozen]_vars

(***************************************************************************)
(* A closure refunds once: a closed grant stays closed and never holds     *)
(* less again, and an issued grant keeps its amount and account.           *)
(***************************************************************************)
RefundsOnce ==
    [][\A i \in Requests :
         rows[i] # NoRow /\ rows[i].amount > 0 =>
           /\ rows'[i] # NoRow
           /\ rows'[i].amount = rows[i].amount /\ rows'[i].acct = rows[i].acct
           /\ Settled(rows'[i]) >= Settled(rows[i])
           /\ rows[i].closed => /\ rows'[i].closed
                                /\ Contribution(rows'[i]) >= Contribution(rows[i])]_vars

(***************************************************************************)
(* A latched tier never falls within its window: refunds, policy edits and *)
(* deletions do not reset it.                                              *)
(***************************************************************************)
TierNeverFalls == [][\A a \in Accounts : latch'[a] >= latch[a]]_vars
=============================================================================
