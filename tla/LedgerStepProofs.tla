-------------------------- MODULE LedgerStepProofs --------------------------
(***************************************************************************)
(* What one report, one meter and one grant request do, for every content: *)
(* the accounting rules move an account by exactly what they move the row. *)
(* Also the inductive invariant that the other proofs preserve.            *)
(***************************************************************************)
EXTENDS AuthorityLedger, SumsProofs

-----------------------------------------------------------------------------
(* Updating one entry of a replica's private copies. *)

\* One entry of a table of tables.
LEMMA EntryUpdate ==
  ASSUME NEW D, NEW E, NEW V, NEW f \in [D -> [E -> V]],
         NEW t \in D, NEW a \in E, NEW v \in V
  PROVE  /\ [f EXCEPT ![t][a] = v] \in [D -> [E -> V]]
         /\ \A u \in D, x \in E :
              [f EXCEPT ![t][a] = v][u][x] = IF u = t /\ x = a THEN v ELSE f[u][x]
<1>1. f[t] \in [E -> V]
  OBVIOUS
<1>2. [f[t] EXCEPT ![a] = v] \in [E -> V]
  BY <1>1
<1> QED BY <1>1, <1>2

-----------------------------------------------------------------------------
(* The row rules. *)

\* What requests and accepted reports leave in a row: only an overrun exceeds
\* the grant, and only a grant is reported on.
RowOK(g) ==
    /\ g.overrun => g.closed
    /\ ~g.overrun => g.consumed <= g.amount /\ g.observed <= g.consumed
    /\ g.amount = 0 => ~g.closed /\ g.consumed = 0 /\ g.observed = 0

\* A row never holds less of its account than it has settled.
LEMMA SettledIsHeld ==
  ASSUME NEW g \in Row, RowOK(g)
  PROVE  /\ Settled(g) \in Amount /\ Contribution(g) \in Amount
         /\ Settled(g) <= Contribution(g)
BY MaxInt64Assumption DEF RowOK, Row, Amount, Settled, Contribution, Larger

\* applyReport changes the account by exactly what it changes the row's share,
\* keeps the row's identity, and never lets a closed row hold less.
LEMMA ReportRule ==
  ASSUME NEW a \in Account, NEW g \in Row, RowOK(g), g.amount > 0,
         NEW r \in Report, WellFormedReport(r), NEW old \in BOOLEAN,
         NEW o \in ApplyReport(a, g, r, old)
  PROVE  /\ o.acct \in Account /\ o.row \in Row /\ RowOK(o.row)
         /\ o.row.acct = g.acct /\ o.row.amount = g.amount
         /\ o.acct.hardEncumbered - a.hardEncumbered = Contribution(o.row) - Contribution(g)
         /\ o.acct.hardConsumed - a.hardConsumed = Settled(o.row) - Settled(g)
         /\ o.acct.softConsumed = a.softConsumed
         /\ a.frozen => o.acct.frozen
         /\ ~o.acct.frozen => o.acct.hardEncumbered <= a.hardEncumbered
         /\ Settled(o.row) >= Settled(g)
         /\ g.closed => o.row.closed /\ Contribution(o.row) >= Contribution(g)
<1> DEFINE burn == RecoveryBurn(g, r, old)
           e == EffectiveReport(g, r, old)
<1> USE MaxInt64Assumption
<1>1. CASE RecoveryCopy(g, r, old)
  <2>1. o = [acct |-> a,
             row  |-> [g EXCEPT !.seq = Larger(g.seq, r.seq),
                                !.observed = Larger(g.observed, r.observed)]]
    BY <1>1 DEF ApplyReport
  <2>2. Larger(g.seq, r.seq) \in Amount /\ Larger(g.observed, r.observed) \in Amount
    BY DEF Larger, Row, Report, Amount
  <2>3. /\ o.acct = a /\ o.row \in Row /\ o.row.acct = g.acct /\ o.row.amount = g.amount
        /\ o.row.closed = g.closed /\ o.row.overrun = g.overrun
        /\ o.row.consumed = g.consumed /\ o.row.observed = Larger(g.observed, r.observed)
    BY <2>1, <2>2, Zenon DEF Row
  <2>4. Settled(o.row) = Settled(g) /\ RowOK(o.row)
    BY <1>1, <2>3 DEF RecoveryCopy, Settled, Larger, Row, Report, Amount, RowOK
  <2>5. Contribution(o.row) = Contribution(g)
    BY <2>3, <2>4 DEF Contribution
  <2> QED BY <2>3, <2>4, <2>5, SettledIsHeld DEF Amount, Account
<1>2. CASE ~RecoveryCopy(g, r, old)
  <2>1. /\ ~ConflictingReport(g, e, burn)
        /\ \/ o = [acct |-> a, row |-> g]
           \/ /\ ReportFits(a, g, e)
              /\ o = [acct |-> ReportedAccount(a, g, e), row |-> ReportedGrant(g, e)]
    BY <1>2 DEF ApplyReport
  <2>2. /\ e \in Report /\ (e.overrun => e.closed)
        /\ ~e.overrun => e.consumed <= g.amount /\ e.observed <= e.consumed
        /\ g.consumed <= e.consumed /\ g.observed <= e.observed
        /\ g.closed => e.closed
        /\ g.closed => e.overrun \/ (e.consumed = g.consumed /\ e.observed = g.observed /\ e.overrun = g.overrun)
    <3>1. CASE burn
      <4>1. Larger(r.seq, g.seq) \in Amount /\ Larger(r.observed, g.observed) \in Amount
        BY DEF Larger, Row, Report, Amount
      <4>2. e = [r EXCEPT !.seq = Larger(r.seq, g.seq),
                          !.observed = Larger(r.observed, g.observed)]
        BY <3>1 DEF EffectiveReport
      <4>3. /\ e \in Report /\ e.consumed = r.consumed /\ e.closed = r.closed
            /\ e.overrun = r.overrun /\ e.observed = Larger(r.observed, g.observed)
        BY <4>1, <4>2, Zenon DEF Report
      <4>4. /\ ~g.closed /\ ~g.overrun /\ ~r.overrun /\ r.consumed = g.amount
            /\ g.consumed <= g.amount /\ g.observed <= g.consumed
            /\ r.observed <= r.consumed
        BY <3>1 DEF RecoveryBurn, RowOK, WellFormedReport
      <4> HIDE DEF e
      <4>5. g.observed <= e.observed /\ e.observed <= e.consumed
        BY <4>3, <4>4 DEF Larger, Row, Report, Amount
      <4> QED BY <4>3, <4>4, <4>5 DEF Row, Report, Amount
    <3>2. CASE ~burn
      BY <2>1, <3>2 DEF EffectiveReport, ConflictingReport, SameReport, Report, Row,
        RowOK, Amount, WellFormedReport
    <3> QED BY <3>1, <3>2
  <2>3. CASE o = [acct |-> a, row |-> g]
    BY <2>3, SettledIsHeld DEF Amount, Account
  <2>4. CASE /\ ReportFits(a, g, e)
             /\ o = [acct |-> ReportedAccount(a, g, e), row |-> ReportedGrant(g, e)]
    <3> HIDE DEF e
    <3>1. o.row = [g EXCEPT !.seq = e.seq, !.consumed = e.consumed, !.observed = e.observed,
                            !.closed = e.closed, !.overrun = e.overrun]
      BY <2>4 DEF ReportedGrant
    <3>1a. /\ o.row \in Row /\ o.row.acct = g.acct /\ o.row.amount = g.amount
           /\ o.row.closed = e.closed /\ o.row.overrun = e.overrun
           /\ o.row.consumed = e.consumed /\ o.row.observed = e.observed
      BY <2>2, <3>1, Zenon DEF Row, Report
    <3>1b. RowOK(o.row)
      BY <2>2, <3>1a DEF Row, Amount, RowOK
    <3>3. Settled(o.row) = Larger(e.consumed, e.observed) /\ Settled(o.row) >= Settled(g)
      BY <2>2, <3>1a, <3>1b DEF Settled, Larger, Row, Report, Amount
    <3>4. e.closed => Contribution(o.row) = Retained(g, e)
      BY <3>1a, <3>1b, <3>3 DEF Contribution, Retained
    <3>5. ~e.closed => Contribution(o.row) = g.amount /\ Contribution(g) = g.amount
      BY <3>1a, <3>1b, <2>2 DEF Contribution
    <3>6. /\ Settled(o.row) \in Amount /\ Contribution(o.row) \in Amount
          /\ Settled(g) \in Amount /\ Contribution(g) \in Amount
      BY <3>1a, <3>1b, SettledIsHeld
    <3>7. g.closed => Contribution(o.row) >= Contribution(g)
      BY <2>2, <3>1a, <3>1b DEF Contribution, Settled, Larger, Row, Report, Amount
    <3>8. ~e.overrun => Contribution(o.row) <= Contribution(g)
      BY <2>2, <3>1a, <3>1b DEF Contribution, Settled, Larger, Row, Report, Amount, RowOK
    <3>9. /\ o.acct.hardConsumed = a.hardConsumed + Settled(o.row) - Settled(g)
          /\ o.acct.hardEncumbered = IF e.closed THEN a.hardEncumbered + Contribution(o.row) - Contribution(g)
                                     ELSE a.hardEncumbered
          /\ o.acct.softConsumed = a.softConsumed
          /\ o.acct.acceptsMeters = a.acceptsMeters
          /\ o.acct.frozen = (a.frozen \/ e.overrun)
      BY <2>4, <3>3, <3>4, Zenon DEF ReportedAccount, Account
    <3>10. /\ a.hardConsumed + Settled(o.row) - Settled(g) \in Amount
           /\ e.closed => a.hardEncumbered + Contribution(o.row) - Contribution(g) \in Amount
      BY <2>4, <3>3, <3>4, <3>6 DEF ReportFits, AddFits, Amount, Account
    <3>11. o.acct \in Account
      BY <2>4, <3>9, <3>10, Zenon DEF ReportedAccount, Account, Report
    <3> QED BY <3>1a, <3>1b, <3>3, <3>5, <3>6, <3>7, <3>8, <3>9, <3>11, <2>2 DEF Account, Amount
  <2> QED BY <2>1, <2>3, <2>4
<1> QED BY <1>1, <1>2

\* applyMeter changes the account by exactly what it changes the meter.
LEMMA MeterRule ==
  ASSUME NEW a \in Account, NEW row \in Meter, NEW m \in Meter, WellFormedMeter(m),
         NEW old \in BOOLEAN, NEW o \in ApplyMeter(a, row, m, old)
  PROVE  /\ o.acct \in Account /\ o.row \in Meter
         /\ o.acct.softConsumed - a.softConsumed = o.row.consumed - row.consumed
         /\ o.acct.hardEncumbered = a.hardEncumbered
         /\ o.acct.hardConsumed = a.hardConsumed
         /\ o.acct.frozen = a.frozen
<1> DEFINE e == EffectiveMeter(row, m, old)
<1> USE MaxInt64Assumption
<1>1. e \in Meter
  BY DEF EffectiveMeter, Larger, Meter, Amount
<1>2. CASE o = [acct |-> a, row |-> row]
  BY <1>2 DEF Account, Meter, Amount
<1>3. CASE /\ AddFits(a.softConsumed, e.consumed - row.consumed)
           /\ o = [acct |-> [a EXCEPT !.softConsumed = @ + e.consumed - row.consumed],
                   row |-> e]
  <2> HIDE DEF e
  <2>1. a.softConsumed + e.consumed - row.consumed \in Amount
    BY <1>1, <1>3 DEF AddFits, Account, Meter, Amount
  <2> QED BY <1>1, <1>3, <2>1 DEF Account, Meter, Amount
<1> QED BY <1>2, <1>3 DEF ApplyMeter

\* issueGrant changes the account by exactly the amount it grants; it grants
\* only to an unfrozen account within the limit of a hard budget.
LEMMA IssueRule ==
  ASSUME NEW a, NEW g \in Row, RowOK(g), NEW asked, NEW b \in Definition \cup {NoBudget},
         b # NoBudget => a \in Account,
         NEW o \in IssueGrant(a, g, asked, b)
  PROVE  /\ o.row \in Row /\ RowOK(o.row) /\ o.row.acct = g.acct
         /\ Settled(o.row) = Settled(g) /\ o.row.closed = g.closed
         /\ g.amount > 0 => o.row = g
         /\ \/ o.acct = a /\ o.row = g
            \/ /\ b # NoBudget /\ b.hard /\ g.acct = asked.acct
               /\ g.amount = 0 /\ o.row.amount > 0 /\ ~a.frozen
               /\ o.acct \in Account
               /\ o.acct.hardEncumbered - a.hardEncumbered = Contribution(o.row) - Contribution(g)
               /\ o.acct.hardConsumed = a.hardConsumed
               /\ o.acct.softConsumed = a.softConsumed
               /\ o.acct.frozen = a.frozen
               /\ Encumbered(o.acct) <= b.limit
<1> DEFINE n == GrantAmount(a, b, g.want)
<1> USE MaxInt64Assumption
<1>1. CASE o = [acct |-> a, row |-> g]
  BY <1>1
<1>2. CASE o # [acct |-> a, row |-> g]
  <2>1. /\ g.acct = asked.acct /\ g.amount = 0 /\ b # NoBudget /\ b.hard /\ ~a.frozen
        /\ ~Exhausted(a, b, g.want) /\ n > 0 /\ AddFits(a.hardEncumbered, n)
        /\ o = [acct |-> [a EXCEPT !.hardEncumbered = @ + n],
                row |-> [g EXCEPT !.amount = n]]
    BY <1>2 DEF IssueGrant, Decide, Row, Amount
  <2>2. n \in Int /\ n <= b.limit - Encumbered(a)
    BY <2>1 DEF GrantAmount, Smaller, Larger, Encumbered, Account, Definition, Row, Amount
  <2> HIDE DEF n
  <2>3. n \in Amount /\ a.hardEncumbered + n \in Amount
    BY <2>1, <2>2 DEF AddFits, Account, Amount
  <2>4. /\ o.acct \in Account /\ o.acct.hardEncumbered = a.hardEncumbered + n
        /\ o.acct.hardConsumed = a.hardConsumed /\ o.acct.softConsumed = a.softConsumed
        /\ o.acct.frozen = a.frozen
    BY <2>1, <2>3 DEF Account
  <2>5. /\ o.row \in Row /\ o.row.amount = n /\ o.row.acct = g.acct
        /\ o.row.closed = g.closed /\ o.row.overrun = g.overrun
        /\ o.row.consumed = g.consumed /\ o.row.observed = g.observed
    BY <2>1, <2>3 DEF Row
  <2>6. RowOK(o.row) /\ Settled(o.row) = Settled(g)
    BY <2>1, <2>3, <2>5 DEF RowOK, Settled, Row, Amount
  <2>7. Contribution(o.row) = n /\ Contribution(g) = 0
    BY <2>1, <2>5 DEF Contribution, RowOK
  <2>8. Encumbered(o.acct) <= b.limit
    BY <2>1, <2>2, <2>4 DEF Encumbered, Account, Definition, Amount
  <2> QED BY <2>1, <2>2, <2>3, <2>4, <2>5, <2>6, <2>7, <2>8 DEF Account, Amount
<1> QED BY <1>1, <1>2

-----------------------------------------------------------------------------
(* The inductive invariant. *)

\* The request and meter tables as transaction t sees them.
ViewTable(t)  == [i \in Requests |-> View(t, i)]
MeterTable(t) == [x \in MeterIds |-> MeterView(t, x)]

\* Transaction t is covered by its locks: the policies it read are the stored
\* ones, it holds every account it works on, and it has written nothing
\* outside its dataplane and nothing before all locks were taken.
Covered(t) ==
    /\ stage[t] # Idle => docs[t] = policies
    /\ stage[t] \in Owning => Active(t, win[t]) \subseteq wanted[t]
    /\ stage[t] \in Writing => wanted[t] \subseteq Held(t)
    /\ stage[t] \notin Owning => \A a \in Accounts : working[t][a] = NoAccount
    /\ stage[t] \notin Writing => /\ \A i \in Requests : draft[t][i] = NoRow
                                  /\ \A x \in MeterIds : meterDraft[t][x] = NoDraft
    /\ \A i \in Requests : draft[t][i] # NoRow => NodeOf[BootOf[i]] = Node(t)
    /\ \A x \in MeterIds : meterDraft[t][x] # NoDraft => NodeOf[x[1]] = Node(t)

\* Two transactions share neither an account nor a dataplane.
Apart(t, u) ==
    /\ \A a \in Accounts : working[t][a] = NoAccount \/ working[u][a] = NoAccount
    /\ stage[t] \in Owning /\ stage[u] \in Owning => Node(t) # Node(u)

LockInv ==
    /\ \A t \in Replicas : Covered(t)
    /\ \A t, u \in Replicas : t # u => Apart(t, u)

RowsOK ==
    /\ \A i \in Requests : rows[i] # NoRow => RowOK(rows[i])
    /\ \A t \in Replicas, i \in Requests : draft[t][i] # NoRow => RowOK(draft[t][i])

\* The shares of account a are the same in transaction t's tables and in the
\* committed ones.
SameShares(t, a) ==
    /\ Share(ViewTable(t), a) = Share(rows, a)
    /\ SettledShare(ViewTable(t), a) = SettledShare(rows, a)
    /\ MeterShare(MeterTable(t), a) = MeterShare(meters, a)

\* A transaction's copy of an account is balanced against what it has written
\* so far; it changes nothing that is charged to an account it does not hold.
TxBooks ==
    \A t \in Replicas, a \in Accounts :
      /\ working[t][a] # NoAccount =>
           Balanced(working[t][a], a, ViewTable(t), MeterTable(t))
      /\ working[t][a] = NoAccount => SameShares(t, a)

IInv == TypeOK /\ LockInv /\ RowsOK /\ LedgerExact /\ TxBooks

-----------------------------------------------------------------------------
(* Type correctness. *)

\* A ladder's reached threshold is a percentage: the set it is chosen from is
\* finite and holds 0, so it has a greatest element.
LEMMA ReachedTierType ==
  ASSUME NEW a, NEW d \in Definition
  PROVE  ReachedTier(a, d) \in 0..100
<1> DEFINE p == UtilizedPercent(IF d.hard THEN a.hardEncumbered ELSE a.hardConsumed,
                                a.softConsumed, d.limit)
           reached == {0} \cup {th \in d.tiers : th <= p}
           T == {100 - x : x \in reached}
<1>1. reached \subseteq 0..100 /\ 0 \in reached
  BY DEF Definition
<1> HIDE DEF reached
<1>2. T \in SUBSET Nat /\ 100 \in T
  BY <1>1
<1>3. PICK m \in T : \A k \in T : m <= k
  <2> HIDE DEF T
  <2> QED BY <1>2, LeastNatural
<1>4. PICK x \in reached : m = 100 - x
  OBVIOUS
<1>5. \A y \in reached : y <= x
  <2> TAKE y \in reached
  <2>1. m <= 100 - y
    BY <1>3
  <2> QED BY <1>1, <1>4, <2>1
<1>6. (CHOOSE th \in reached : \A y \in reached : y <= th) \in reached
  BY <1>5
<1> QED BY <1>1, <1>6, Zenon DEF ReachedTier, reached

\* A dataplane request can only be granted on an account its transaction holds.
LEMMA BudgetIsHeld ==
  ASSUME IInv, NEW t \in Replicas, stage[t] \in Writing, NEW a \in Accounts,
         Budget(t, a) # NoBudget
  PROVE  /\ working[t][a] \in Account /\ Budget(t, a) \in Definition
         /\ Budget(t, a) = policies[a[1]]
<1>1. a \in Active(t, win[t])
  BY DEF Budget
<1>2. a \in Held(t)
  BY <1>1 DEF IInv, LockInv, Covered, Owning, Writing
<1>3. working[t][a] \in Account
  BY <1>2 DEF Held, IInv, TypeOK
<1>4. Budget(t, a) = docs[t][a[1]] /\ a[1] \in Keys
  BY <1>1 DEF Budget, Accounts
<1>5. docs[t] = policies
  BY DEF IInv, LockInv, Covered, Writing, Idle
<1>6. docs[t][a[1]] \in Definitions \cup {NoBudget}
  BY <1>4 DEF IInv, TypeOK
<1> QED BY <1>3, <1>4, <1>5, <1>6, LedgerAssumption

\* The row a transaction asks a grant with.
LEMMA FreshRow ==
  ASSUME NEW a \in Accounts, NEW rev \in Nat, NEW want \in Wants
  PROVE  Fresh(a, rev, want) \in Row /\ RowOK(Fresh(a, rev, want))
BY LedgerAssumption, MaxInt64Assumption DEF Fresh, Row, RowOK, Amount

\* Everything RequestGrant does, in terms of the row before it (before).
LEMMA RequestOutcome ==
  ASSUME IInv, NEW t \in Replicas, NEW i \in Requests, NEW a \in Accounts,
         NEW rev \in Nat, NEW want \in Wants, RequestGrant(t, i, a, rev, want)
  PROVE  \E before, row \in Row, acct \in Account \cup {NoAccount} :
           /\ before = IF rows[i] = NoRow THEN Fresh(a, rev, want) ELSE rows[i]
           /\ RowOK(before) /\ RowOK(row) /\ before.acct = a /\ row.acct = a
           /\ Settled(row) = Settled(before) /\ row.closed = before.closed
           /\ before.amount > 0 => row = before
           /\ working' = [working EXCEPT ![t][a] = acct]
           /\ draft' = [draft EXCEPT ![t][i] = row]
           /\ \/ acct = working[t][a] /\ row = before
              \/ /\ Budget(t, a) # NoBudget /\ Budget(t, a).hard
                 /\ before.amount = 0 /\ row.amount > 0 /\ ~working[t][a].frozen
                 /\ acct \in Account
                 /\ acct.hardEncumbered - working[t][a].hardEncumbered
                      = Contribution(row) - Contribution(before)
                 /\ acct.hardConsumed = working[t][a].hardConsumed
                 /\ acct.softConsumed = working[t][a].softConsumed
                 /\ acct.frozen = working[t][a].frozen
                 /\ Encumbered(acct) <= Budget(t, a).limit
<1> DEFINE asked == Fresh(a, rev, want)
           before == IF rows[i] = NoRow THEN asked ELSE rows[i]
<1>1. before \in Row /\ RowOK(before)
  <2>1. CASE rows[i] = NoRow
    BY <2>1, FreshRow
  <2>2. CASE rows[i] # NoRow
    BY <2>2 DEF IInv, TypeOK, RowsOK
  <2> QED BY <2>1, <2>2
<1>2. PICK o \in IssueGrant(working[t][a], before, asked, Budget(t, a)) :
        /\ working' = [working EXCEPT ![t][a] = o.acct]
        /\ draft' = [draft EXCEPT ![t][i] = o.row]
  BY Zenon DEF RequestGrant
<1>3. stage[t] \in Writing
  BY DEF RequestGrant
<1>4. Budget(t, a) # NoBudget => working[t][a] \in Account /\ Budget(t, a) \in Definition
  BY <1>3, BudgetIsHeld
<1>5. asked.acct = a /\ before.acct = a
  BY <1>2 DEF Fresh, IssueGrant
<1> HIDE DEF before, asked
<1>6. /\ o.row \in Row /\ RowOK(o.row) /\ o.row.acct = before.acct
      /\ Settled(o.row) = Settled(before) /\ o.row.closed = before.closed
      /\ before.amount > 0 => o.row = before
      /\ \/ o.acct = working[t][a] /\ o.row = before
         \/ /\ Budget(t, a) # NoBudget /\ Budget(t, a).hard /\ before.acct = asked.acct
            /\ before.amount = 0 /\ o.row.amount > 0 /\ ~working[t][a].frozen
            /\ o.acct \in Account
            /\ o.acct.hardEncumbered - working[t][a].hardEncumbered
                 = Contribution(o.row) - Contribution(before)
            /\ o.acct.hardConsumed = working[t][a].hardConsumed
            /\ o.acct.softConsumed = working[t][a].softConsumed
            /\ o.acct.frozen = working[t][a].frozen
            /\ Encumbered(o.acct) <= Budget(t, a).limit
  BY <1>1, <1>2, <1>4, IssueRule, SMTT(30)
<1>7. o.acct \in Account \cup {NoAccount}
  BY <1>6 DEF IInv, TypeOK
<1>8. before = IF rows[i] = NoRow THEN Fresh(a, rev, want) ELSE rows[i]
  BY DEF before, asked
<1> USE <1>1, <1>6, <1>7
<1> WITNESS before \in Row, o.row \in Row, o.acct \in Account \cup {NoAccount}
<1> QED BY <1>2, <1>5, <1>8

\* Everything ReportGrant does, in terms of the account a of the grant.
LEMMA ReportOutcome ==
  ASSUME IInv, NEW t \in Replicas, NEW i \in Requests, NEW r \in Reports,
         ReportGrant(t, i, r)
  PROVE  /\ rows[i] \in Row /\ RowOK(rows[i]) /\ rows[i].amount > 0
         /\ rows[i].acct \in Accounts /\ working[t][rows[i].acct] \in Account
         /\ \E acct \in Account, row \in Row :
              /\ RowOK(row) /\ row.acct = rows[i].acct /\ row.amount = rows[i].amount
              /\ working' = [working EXCEPT ![t][rows[i].acct] = acct]
              /\ draft' = [draft EXCEPT ![t][i] = row]
              /\ acct.hardEncumbered - working[t][rows[i].acct].hardEncumbered
                   = Contribution(row) - Contribution(rows[i])
              /\ acct.hardConsumed - working[t][rows[i].acct].hardConsumed
                   = Settled(row) - Settled(rows[i])
              /\ acct.softConsumed = working[t][rows[i].acct].softConsumed
              /\ working[t][rows[i].acct].frozen => acct.frozen
              /\ ~acct.frozen => acct.hardEncumbered <= working[t][rows[i].acct].hardEncumbered
              /\ Settled(row) >= Settled(rows[i])
              /\ rows[i].closed => row.closed /\ Contribution(row) >= Contribution(rows[i])
<1> DEFINE a == rows[i].acct
           old == BootOf[i] # boot[t]
<1>1. rows[i] \in Row /\ RowOK(rows[i]) /\ rows[i].amount > 0
  BY DEF ReportGrant, IInv, TypeOK, RowsOK
<1>2. a \in Accounts /\ a \in Held(t)
  BY DEF ReportGrant, Held
<1>3. working[t][a] \in Account
  BY <1>2 DEF Held, IInv, TypeOK
<1>4. PICK o \in ApplyReport(working[t][a], rows[i], r, old) :
         /\ working' = [working EXCEPT ![t][a] = o.acct]
         /\ draft' = [draft EXCEPT ![t][i] = o.row]
  BY Zenon DEF ReportGrant
<1>5. r \in Report /\ WellFormedReport(r) /\ old \in BOOLEAN
  BY LedgerAssumption DEF ReportGrant
<1> HIDE DEF old, a
<1>6. /\ o.acct \in Account /\ o.row \in Row /\ RowOK(o.row)
      /\ o.row.acct = rows[i].acct /\ o.row.amount = rows[i].amount
      /\ o.acct.hardEncumbered - working[t][a].hardEncumbered = Contribution(o.row) - Contribution(rows[i])
      /\ o.acct.hardConsumed - working[t][a].hardConsumed = Settled(o.row) - Settled(rows[i])
      /\ o.acct.softConsumed = working[t][a].softConsumed
      /\ working[t][a].frozen => o.acct.frozen
      /\ ~o.acct.frozen => o.acct.hardEncumbered <= working[t][a].hardEncumbered
      /\ Settled(o.row) >= Settled(rows[i])
      /\ rows[i].closed => o.row.closed /\ Contribution(o.row) >= Contribution(rows[i])
  BY <1>1, <1>3, <1>4, <1>5, ReportRule
<1> QED BY <1>1, <1>2, <1>3, <1>4, <1>6, Zenon DEF a

\* Everything ReportMeter does.
LEMMA MeterOutcome ==
  ASSUME IInv, NEW t \in Replicas, NEW b \in Boots, NEW a \in Accounts, NEW m \in Meters,
         ReportMeter(t, b, a, m)
  PROVE  /\ working[t][a] \in Account /\ meters[<<b, a>>] \in Meter
         /\ meterDraft[t][<<b, a>>] = NoDraft
         /\ \E acct \in Account, row \in Meter :
              /\ working' = [working EXCEPT ![t][a] = acct]
              /\ meterDraft' = [meterDraft EXCEPT ![t][<<b, a>>] = row]
              /\ acct.softConsumed - working[t][a].softConsumed = row.consumed - meters[<<b, a>>].consumed
              /\ acct.hardEncumbered = working[t][a].hardEncumbered
              /\ acct.hardConsumed = working[t][a].hardConsumed
              /\ acct.frozen = working[t][a].frozen
<1> DEFINE old == b # boot[t]
<1>1. working[t][a] \in Account /\ meters[<<b, a>>] \in Meter
  BY DEF ReportMeter, Held, IInv, TypeOK, MeterIds
<1>2. PICK o \in ApplyMeter(working[t][a], meters[<<b, a>>], m, old) :
         /\ working' = [working EXCEPT ![t][a] = o.acct]
         /\ meterDraft' = [meterDraft EXCEPT ![t][<<b, a>>] = o.row]
  BY Zenon DEF ReportMeter
<1>3. m \in Meter /\ WellFormedMeter(m) /\ old \in BOOLEAN
  BY LedgerAssumption DEF ReportMeter
<1>4. meterDraft[t][<<b, a>>] = NoDraft
  BY DEF ReportMeter
<1> HIDE DEF old
<1>5. /\ o.acct \in Account /\ o.row \in Meter
      /\ o.acct.softConsumed - working[t][a].softConsumed = o.row.consumed - meters[<<b, a>>].consumed
      /\ o.acct.hardEncumbered = working[t][a].hardEncumbered
      /\ o.acct.hardConsumed = working[t][a].hardConsumed
      /\ o.acct.frozen = working[t][a].frozen
  BY <1>1, <1>2, <1>3, MeterRule
<1> QED BY <1>1, <1>2, <1>4, <1>5, Zenon
=============================================================================
