----------------------- MODULE AuthorityLedgerProofs ------------------------
(***************************************************************************)
(* The authority ledger is correct for every number of replicas, budgets,  *)
(* windows, grants and boots and for every content of the batches.         *)
(***************************************************************************)
EXTENDS LedgerBookProofs, LedgerTypeProofs

-----------------------------------------------------------------------------
(* The end of a transaction, and the invariant. *)

\* A meter keeps the books.
LEMMA ReportMeterBooks ==
  ASSUME IInv, NEW t \in Replicas, NEW b \in Boots, NEW a \in Accounts, NEW m \in Meters,
         ReportMeter(t, b, a, m)
  PROVE  RowsOK' /\ LedgerExact' /\ TxBooks'
<1> USE LedgerAssumption
<1>1. PICK acct \in Account, row \in Meter :
        /\ working' = [working EXCEPT ![t][a] = acct]
        /\ meterDraft' = [meterDraft EXCEPT ![t][<<b, a>>] = row]
        /\ acct.softConsumed - working[t][a].softConsumed = row.consumed - meters[<<b, a>>].consumed
        /\ acct.hardEncumbered = working[t][a].hardEncumbered
        /\ acct.hardConsumed = working[t][a].hardConsumed
  BY MeterOutcome
<1>2. /\ working[t][a] \in Account /\ meters[<<b, a>>] \in Meter
      /\ meterDraft[t][<<b, a>>] = NoDraft
  BY MeterOutcome
<1>3. /\ UNCHANGED <<accounts, rows, meters, draft, boot, docs, win, wanted>>
      /\ \A u \in Replicas \ {t} : stage'[u] = stage[u]
  BY Zenon DEF ReportMeter, tables, IInv, TypeOK
<1>4. \A u \in Replicas \ {t} : SameTx(u)
  BY <1>1, <1>3 DEF SameTx, IInv, TypeOK
<1>5. /\ \A y \in MeterIds : meterDraft'[t][y] = IF y = <<b, a>> THEN row ELSE meterDraft[t][y]
      /\ \A x \in Accounts : working'[t][x] = IF x = a THEN acct ELSE working[t][x]
  BY <1>1 DEF IInv, TypeOK
<1> DEFINE old == MeterTable(t)
           new == [old EXCEPT ![<<b, a>>] = row]
<1>6. MeterTable(t)' = new /\ ViewTable(t)' = ViewTable(t)
  <2>1. \A y \in MeterIds : MeterView(t, y)' = IF y = <<b, a>> THEN row ELSE MeterView(t, y)
    BY <1>3, <1>5 DEF MeterView
  <2> QED BY <1>3, <2>1, Zenon DEF MeterTable, ViewTable, View
<1>7. old \in [MeterIds -> Meter] /\ old[<<b, a>>] = meters[<<b, a>>]
  BY <1>2, ViewGood DEF MeterTable, MeterView, MeterIds
<1> HIDE DEF old, new
<1>8. /\ \A x \in Accounts : x # a => MeterShare(new, x) = MeterShare(old, x)
      /\ Total(MeterShare(new, a), MaxBoot)
           = Total(MeterShare(old, a), MaxBoot) + row.consumed - meters[<<b, a>>].consumed
  <2>1. /\ \A x \in Accounts : x # a => MeterShare(new, x) = MeterShare(old, x)
        /\ Total(MeterShare(new, a), MaxBoot)
             = Total(MeterShare(old, a), MaxBoot) + row.consumed - old[<<b, a>>].consumed
    BY ONLY Zenon, <1>7, row \in Meter, b \in Boots, a \in Accounts, MeterUpdate DEF new
  <2> QED BY <1>7, <2>1
<1>9. Total(MeterShare(old, a), MaxBoot) \in Int
  <2>1. \A c \in Boots : <<c, a>> \in MeterIds /\ old[<<c, a>>].consumed \in Int
    BY <1>7 DEF MeterIds, Meter, Amount
  <2>2. MeterShare(old, a) \in [1..MaxBoot -> Int]
    BY <2>1 DEF MeterShare, Boots
  <2> QED BY <2>2, TotalType
<1>10. ASSUME NEW x \in Accounts
       PROVE  /\ working'[t][x] # NoAccount => Balanced(working'[t][x], x, ViewTable(t)', MeterTable(t)')
              /\ working'[t][x] = NoAccount => SameShares(t, x)'
  <2>0. /\ working[t][x] # NoAccount => Balanced(working[t][x], x, ViewTable(t), old)
        /\ working[t][x] = NoAccount => SameShares(t, x)
    BY DEF IInv, TxBooks, old
  <2>1. CASE x # a
    <3>1. MeterShare(new, x) = MeterShare(old, x)
      BY <1>8, <2>1, Zenon
    <3>2. working'[t][x] = working[t][x]
      BY <1>5, <2>1, Zenon
    <3>3. ASSUME working[t][x] = NoAccount PROVE SameShares(t, x)'
      <4>1. /\ Share(ViewTable(t), x) = Share(rows, x)
            /\ SettledShare(ViewTable(t), x) = SettledShare(rows, x)
            /\ MeterShare(old, x) = MeterShare(meters, x)
        BY <2>0, <3>3 DEF SameShares, old
      <4> QED BY <1>3, <1>6, <3>1, <4>1 DEF SameShares, Share, SettledShare, MeterShare
    <3> QED BY <1>6, <2>0, <3>1, <3>2, <3>3, Zenon DEF Balanced
  <2>2. CASE x = a
    <3>1. working'[t][x] = acct /\ acct # NoAccount /\ Balanced(working[t][a], a, ViewTable(t), old)
      BY <1>2, <1>5, <2>0, <2>2
    <3>2. acct.softConsumed = working[t][a].softConsumed + row.consumed - meters[<<b, a>>].consumed
      <4>1. /\ acct.softConsumed \in Int /\ working[t][a].softConsumed \in Int
            /\ row.consumed \in Int /\ meters[<<b, a>>].consumed \in Int
        BY <1>2 DEF Account, Meter, Amount
      <4> QED BY <1>1, <4>1
    <3> QED BY <1>1, <1>6, <1>8, <2>2, <3>1, <3>2 DEF Balanced
  <2> QED BY <2>1, <2>2
<1>11. \A j \in Requests : draft'[t][j] # NoRow => RowOK(draft'[t][j])
  BY <1>3 DEF IInv, RowsOK
<1> QED BY <1>3, <1>4, <1>10, <1>11, OwnStepBooks

\* A committed transaction's view becomes the table.  Accounts it held take its
\* balanced copies, all others keep their shares; the other transactions work
\* on other dataplanes and other accounts, so their books do not move.
LEMMA CommitBooks ==
  ASSUME IInv, NEW t \in Replicas, Commit(t)
  PROVE  RowsOK' /\ LedgerExact' /\ TxBooks'
<1> USE DEF Owning, Writing
<1>1. /\ rows' = ViewTable(t) /\ meters' = MeterTable(t) /\ Release(t)
      /\ stage[t] \in Writing /\ policies' = policies
      /\ \A a \in Accounts : accounts'[a] = IF working[t][a] # NoAccount THEN working[t][a] ELSE accounts[a]
  BY DEF Commit, ViewTable, MeterTable, Held, tables
<1>2. \A u \in Replicas \ {t} : SameTx(u)
  BY <1>1, ReleaseLocks
<1>3. /\ working'[t] = [a \in Accounts |-> NoAccount]
      /\ draft'[t] = [i \in Requests |-> NoRow]
      /\ meterDraft'[t] = [x \in MeterIds |-> NoDraft]
  BY <1>1 DEF Release, IInv, TypeOK
<1>4. \A a \in Accounts :
        /\ working[t][a] # NoAccount => Balanced(working[t][a], a, ViewTable(t), MeterTable(t))
        /\ working[t][a] = NoAccount => SameShares(t, a)
  BY DEF IInv, TxBooks
<1>5. RowsOK'
  <2>1. \A i \in Requests : View(t, i) # NoRow => RowOK(View(t, i))
    BY DEF IInv, RowsOK, View
  <2> QED BY <1>1, <1>2, <1>3, <2>1 DEF RowsOK, ViewTable, SameTx, IInv
<1>6. LedgerExact'
  <2>1. ASSUME NEW a \in Accounts
        PROVE  Balanced(IF accounts'[a] = NoAccount THEN NewAccount(FALSE) ELSE accounts'[a],
                        a, ViewTable(t), MeterTable(t))
    <3>1. CASE working[t][a] # NoAccount
      BY <1>1, <1>4, <3>1, Zenon
    <3>2. CASE working[t][a] = NoAccount
      <4>1. accounts'[a] = accounts[a] /\ SameShares(t, a)
        BY <1>1, <1>4, <3>2
      <4> QED BY <4>1, Zenon DEF IInv, LedgerExact, SameShares, Balanced
    <3> QED BY <3>1, <3>2, Zenon
  <2> QED BY <1>1, <2>1, Zenon DEF LedgerExact, Balanced, Share, SettledShare, MeterShare
<1>7. ASSUME NEW u \in Replicas \ {t}, NEW a \in Accounts
      PROVE  /\ working'[u][a] # NoAccount =>
                  Balanced(working'[u][a], a, ViewTable(u)', MeterTable(u)')
             /\ working'[u][a] = NoAccount => SameShares(u, a)'
  <2>1. /\ working'[u] = working[u] /\ draft'[u] = draft[u] /\ meterDraft'[u] = meterDraft[u]
    BY <1>2 DEF SameTx
  <2>2. /\ working[u][a] # NoAccount => Balanced(working[u][a], a, ViewTable(u), MeterTable(u))
        /\ working[u][a] = NoAccount => SameShares(u, a)
    BY DEF IInv, TxBooks
  <2>3. /\ \A i \in Requests : View(u, i)' = IF draft[u][i] # NoRow THEN draft[u][i] ELSE View(t, i)
        /\ \A x \in MeterIds : MeterView(u, x)' =
             IF meterDraft[u][x] # NoDraft THEN meterDraft[u][x] ELSE MeterView(t, x)
    BY <1>1, <2>1 DEF View, MeterView, ViewTable, MeterTable
  <2>4. CASE working[u][a] # NoAccount
    <3>1. SameShares(t, a)
      <4>1. working[t][a] = NoAccount
        BY <2>4, SMTT(30) DEF IInv, LockInv, Apart
      <4> QED BY <1>4, <4>1
    <3>2. Share(ViewTable(u)', a) = Share(ViewTable(u), a)
      BY <2>3, <3>1, SMTT(30) DEF SameShares, Share, ViewTable, View
    <3>3. SettledShare(ViewTable(u)', a) = SettledShare(ViewTable(u), a)
      BY <2>3, <3>1 DEF SameShares, SettledShare, ViewTable, View
    <3>4. MeterShare(MeterTable(u)', a) = MeterShare(MeterTable(u), a)
      <4>1. \A b \in Boots : <<b, a>> \in MeterIds
        BY DEF MeterIds
      <4>2. \A b \in Boots : MeterView(t, <<b, a>>).consumed = meters[<<b, a>>].consumed
        <5>1. MeterShare(MeterTable(t), a) = MeterShare(meters, a)
          BY <3>1 DEF SameShares
        <5>2. \A b \in Boots : MeterShare(MeterTable(t), a)[b] = MeterShare(meters, a)[b]
          BY <5>1
        <5> QED BY <4>1, <5>2, Zenon DEF MeterShare, MeterTable
      <4>3. \A b \in Boots : MeterView(u, <<b, a>>)'.consumed = MeterView(u, <<b, a>>).consumed
        BY <2>3, <4>1, <4>2 DEF MeterView
      <4>4. \A b \in Boots : MeterTable(u)'[<<b, a>>].consumed = MeterTable(u)[<<b, a>>].consumed
        BY <4>1, <4>3, Zenon DEF MeterTable
      <4> QED BY <4>4 DEF MeterShare
    <3> QED BY <2>1, <2>2, <2>4, <3>2, <3>3, <3>4 DEF Balanced
  <2>5. CASE working[u][a] = NoAccount
    <3>1. /\ \A i \in Requests : draft[u][i] # NoRow => draft[t][i] = NoRow
          /\ \A x \in MeterIds : meterDraft[u][x] # NoDraft => meterDraft[t][x] = NoDraft
      <4>1. Covered(t) /\ Covered(u) /\ Apart(t, u)
        BY DEF IInv, LockInv
      <4> QED BY <1>1, <4>1 DEF Covered, Apart
    <3>2. /\ Share(ViewTable(u), a) = Share(rows, a)
          /\ SettledShare(ViewTable(u), a) = SettledShare(rows, a)
          /\ MeterShare(MeterTable(u), a) = MeterShare(meters, a)
      BY <2>2, <2>5, Zenon DEF SameShares
    <3>3. Share(ViewTable(u)', a) = Share(ViewTable(t), a)
      BY <2>3, <3>1, <3>2, SMTT(30) DEF Share, ViewTable, View
    <3>4. SettledShare(ViewTable(u)', a) = SettledShare(ViewTable(t), a)
      BY <2>3, <3>1, <3>2 DEF SettledShare, ViewTable, View
    <3>5. MeterShare(MeterTable(u)', a) = MeterShare(MeterTable(t), a)
      <4>1. \A b \in Boots : <<b, a>> \in MeterIds
        BY DEF MeterIds
      <4>2. \A b \in Boots : MeterView(u, <<b, a>>).consumed = meters[<<b, a>>].consumed
        <5>1. \A b \in Boots : MeterShare(MeterTable(u), a)[b] = MeterShare(meters, a)[b]
          BY <3>2
        <5> QED BY <4>1, <5>1, Zenon DEF MeterShare, MeterTable
      <4>3. \A b \in Boots : MeterView(u, <<b, a>>)'.consumed = MeterView(t, <<b, a>>).consumed
        BY <2>3, <3>1, <4>1, <4>2 DEF MeterView
      <4>4. \A b \in Boots : MeterTable(u)'[<<b, a>>].consumed = MeterTable(t)[<<b, a>>].consumed
        BY <4>1, <4>3 DEF MeterTable
      <4> QED BY <4>4 DEF MeterShare
    <3> QED BY <1>1, <2>1, <2>5, <3>3, <3>4, <3>5, Zenon DEF SameShares, Share, SettledShare, MeterShare
  <2> QED BY <2>4, <2>5
<1>8. ViewTable(t)' = rows' /\ MeterTable(t)' = meters'
  BY <1>1, <1>3 DEF ViewTable, MeterTable, View, MeterView
<1>9. \A a \in Accounts : working'[t][a] = NoAccount /\ SameShares(t, a)'
  BY <1>3, <1>8 DEF SameShares, Share, SettledShare, MeterShare
<1>10. TxBooks'
  BY <1>7, <1>9, Zenon DEF TxBooks, Balanced, Share, SettledShare, MeterShare
<1> QED BY <1>5, <1>6, <1>10

\* A transaction that aborts leaves no trace.
LEMMA AbortBooks ==
  ASSUME IInv, NEW t \in Replicas, Abort(t)
  PROVE  RowsOK' /\ LedgerExact' /\ TxBooks'
<1>1. Release(t) /\ UNCHANGED <<policies, accounts, rows, meters>>
  BY DEF Abort, tables
<1>2. \A u \in Replicas \ {t} : SameTx(u)
  BY <1>1, ReleaseLocks
<1>3. /\ working'[t] = [a \in Accounts |-> NoAccount]
      /\ draft'[t] = [i \in Requests |-> NoRow]
      /\ meterDraft'[t] = [x \in MeterIds |-> NoDraft]
  BY <1>1, SMTT(30) DEF Release, IInv, TypeOK
<1>4. ViewTable(t)' = rows' /\ MeterTable(t)' = meters'
  BY <1>1, <1>3 DEF ViewTable, MeterTable, View, MeterView, IInv, TypeOK
<1>5. \A a \in Accounts : working'[t][a] = NoAccount /\ SameShares(t, a)'
  BY <1>3, <1>4 DEF SameShares, Share, SettledShare, MeterShare
<1> QED BY <1>1, <1>2, <1>3, <1>5, OwnStepBooks

\* The initial state satisfies the inductive invariant.
LEMMA InitInv == Init => IInv
<1> SUFFICES ASSUME Init PROVE IInv
  OBVIOUS
<1> USE LedgerAssumption
<1>1. TypeOK
  BY InitType, Zenon
<1>2. LockInv
  BY DEF Init, LockInv, Covered, Apart, Idle, Owning, Writing
<1>3. RowsOK
  BY DEF Init, RowsOK
<1>4. \A t \in Replicas : ViewTable(t) = rows /\ MeterTable(t) = meters
  BY DEF Init, ViewTable, MeterTable, View, MeterView
<1>5. TxBooks
  BY <1>4, Zenon DEF Init, TxBooks, SameShares
<1>6. ASSUME NEW a \in Accounts PROVE Balanced(NewAccount(FALSE), a, rows, meters)
  <2>1. /\ Share(rows, a) = [i \in 1..MaxRequest |-> 0]
        /\ SettledShare(rows, a) = [i \in 1..MaxRequest |-> 0]
    BY DEF Init, Share, SettledShare, Requests
  <2>2. MeterShare(meters, a) = [b \in 1..MaxBoot |-> 0]
    BY DEF Init, MeterShare, NoMeter, MeterIds, Boots
  <2>3. \A n \in Nat : Total([i \in 1..n |-> 0], n) = 0
    BY TotalZero
  <2> QED BY <2>1, <2>2, <2>3 DEF Balanced, NewAccount
<1>7. LedgerExact
  BY <1>6, Zenon DEF Init, LedgerExact
<1> QED BY <1>1, <1>2, <1>3, <1>5, <1>7 DEF IInv

\* Every step of every replica, of a policy writer and of the calendar keeps
\* the inductive invariant.
LEMMA InvStep == IInv /\ [Next]_vars => IInv'
<1> SUFFICES ASSUME IInv, [Next]_vars PROVE RowsOK' /\ LedgerExact' /\ TxBooks'
  BY TypeStep, LockStep DEF IInv
<1>1. ASSUME NEW t \in Replicas, Step(t) PROVE RowsOK' /\ LedgerExact' /\ TxBooks'
  <2>1. ASSUME NEW b \in Boots, Begin(t, b) PROVE RowsOK' /\ LedgerExact' /\ TxBooks'
    BY <2>1, QuietStep DEF Begin, tables
  <2>2. ASSUME NEW extra, LockDataplane(t, extra) PROVE RowsOK' /\ LedgerExact' /\ TxBooks'
    BY <2>2, QuietStep DEF LockDataplane, tables
  <2>3. ASSUME Recheck(t) PROVE RowsOK' /\ LedgerExact' /\ TxBooks'
    BY <2>3, QuietStep DEF Recheck, tables
  <2>4. ASSUME NEW i \in Requests, NEW a \in Accounts, NEW d \in Definitions, NEW n \in Wants,
               RequestGrant(t, i, a, d.rev, n)
        PROVE  RowsOK' /\ LedgerExact' /\ TxBooks'
    <3>1. d.rev \in Nat
      BY LedgerAssumption DEF Definition
    <3> QED BY <2>4, <3>1, RequestGrantBooks
  <2> QED BY Zenon, <1>1, <2>1, <2>2, <2>3, <2>4, LockAccountBooks, ReportGrantBooks, ReportMeterBooks,
             CommitBooks, AbortBooks DEF Step
<1>2. ASSUME NEW k, NEW d, WritePolicy(k, d) PROVE RowsOK' /\ LedgerExact' /\ TxBooks'
  BY <1>2, QuietStep DEF WritePolicy, txs
<1>3. ASSUME Tick PROVE RowsOK' /\ LedgerExact' /\ TxBooks'
  BY <1>3, QuietStep DEF Tick, tables, txs
<1>4. ASSUME UNCHANGED vars PROVE RowsOK' /\ LedgerExact' /\ TxBooks'
  BY <1>4, QuietStep DEF vars, tables, txs
<1> QED BY <1>1, <1>2, <1>3, <1>4 DEF Next

-----------------------------------------------------------------------------
(* The theorems. *)

\* Everything below follows from the inductive invariant: the locks keep the
\* transactions apart, and both the committed books and every transaction's
\* private copies balance.
THEOREM Invariance == Spec => []IInv
BY InitInv, InvStep, PTL DEF Spec

\* No column or wire value ever leaves the int64 range, and every row refers to
\* an account: Store.Sync checks each addition before it stores the sum.
THEOREM TypeCorrect == Spec => []TypeOK
<1>1. IInv => TypeOK
  BY DEF IInv
<1> QED BY <1>1, Invariance, PTL

\* The columns of authority_accounts are exactly what the committed request and
\* meter rows add up to, for any number of replicas, nodes, boots and batches.
THEOREM LedgerIsExact == Spec => []LedgerExact
<1>1. IInv => LedgerExact
  BY DEF IInv
<1> QED BY <1>1, Invariance, PTL

\* What an account has consumed is covered by what it holds encumbered.
THEOREM SpendingIsCovered == Spec => []ConsumedIsEncumbered
<1>1. IInv => ConsumedIsEncumbered
  <2> SUFFICES ASSUME IInv, NEW a \in Accounts, accounts[a] # NoAccount
               PROVE  accounts[a].hardConsumed <= accounts[a].hardEncumbered
    BY DEF ConsumedIsEncumbered
  <2>1. /\ accounts[a].hardEncumbered = Total(Share(rows, a), MaxRequest)
        /\ accounts[a].hardConsumed = Total(SettledShare(rows, a), MaxRequest)
    BY Zenon DEF IInv, LedgerExact, Balanced
  <2>2. GoodTable(rows)
    BY DEF IInv, TypeOK, RowsOK, GoodTable, RowTable
  <2> DEFINE c == SettledShare(rows, a)
             d == Share(rows, a)
  <2>3. /\ c \in [1..MaxRequest -> Int] /\ d \in [1..MaxRequest -> Int]
        /\ \A i \in 1..MaxRequest : c[i] <= d[i]
        /\ MaxRequest \in Nat
    BY <2>2, ShareType, LedgerAssumption
  <2> HIDE DEF c, d
  <2>4. Total(c, MaxRequest) <= Total(d, MaxRequest)
    BY ONLY Zenon, <2>3, TotalMonotone
  <2> QED BY <2>1, <2>4 DEF c, d
<1> QED BY <1>1, Invariance, PTL
=============================================================================
