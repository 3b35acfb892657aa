-------------------------- MODULE LedgerBookProofs --------------------------
(***************************************************************************)
(* Every step inside a transaction keeps its private books balanced.       *)
(***************************************************************************)
EXTENDS LedgerLockProofs

-----------------------------------------------------------------------------
(* The books. *)

RowTable == [Requests -> Row \cup {NoRow}]

GoodTable(table) ==
    table \in RowTable /\ \A i \in Requests : table[i] # NoRow => RowOK(table[i])

\* The shares of well-formed rows are integers, and settled shares are covered
\* by the encumbered ones.
LEMMA ShareType ==
  ASSUME NEW table, GoodTable(table), NEW a
  PROVE  /\ Share(table, a) \in [1..MaxRequest -> Int]
         /\ SettledShare(table, a) \in [1..MaxRequest -> Int]
         /\ \A i \in 1..MaxRequest : SettledShare(table, a)[i] <= Share(table, a)[i]
<1>1. \A i \in Requests : table[i] # NoRow =>
        /\ Settled(table[i]) \in Int /\ Contribution(table[i]) \in Int
        /\ Settled(table[i]) <= Contribution(table[i])
  BY SettledIsHeld DEF GoodTable, RowTable, Amount
<1> QED BY <1>1 DEF Share, SettledShare, Requests

\* Replacing one row by another of the same account moves that account's
\* totals by the difference and no other account's shares.
LEMMA RowUpdate ==
  ASSUME NEW table, GoodTable(table), NEW i \in Requests, NEW g \in Row, RowOK(g),
         table[i] # NoRow => table[i].acct = g.acct,
         NEW new, new = [table EXCEPT ![i] = g]
  PROVE  /\ GoodTable(new)
         /\ \A a \in Accounts : a # g.acct =>
              Share(new, a) = Share(table, a) /\ SettledShare(new, a) = SettledShare(table, a)
         /\ Total(Share(new, g.acct), MaxRequest) = Total(Share(table, g.acct), MaxRequest)
              + Contribution(g) - (IF table[i] = NoRow THEN 0 ELSE Contribution(table[i]))
         /\ Total(SettledShare(new, g.acct), MaxRequest) = Total(SettledShare(table, g.acct), MaxRequest)
              + Settled(g) - (IF table[i] = NoRow THEN 0 ELSE Settled(table[i]))
<1> USE LedgerAssumption
<1>1. /\ new \in RowTable /\ new[i] = g /\ g # NoRow
      /\ \A j \in Requests : j # i => new[j] = table[j]
  BY DEF GoodTable, RowTable
<1>2. GoodTable(new)
  BY <1>1 DEF GoodTable
<1>3. ASSUME NEW a \in Accounts, a # g.acct
      PROVE  Share(new, a) = Share(table, a) /\ SettledShare(new, a) = SettledShare(table, a)
  BY <1>1, <1>3 DEF Share, SettledShare
<1> DEFINE a == g.acct
<1>4. /\ Share(new, a)[i] = Contribution(g) /\ SettledShare(new, a)[i] = Settled(g)
      /\ Share(table, a)[i] = IF table[i] = NoRow THEN 0 ELSE Contribution(table[i])
      /\ SettledShare(table, a)[i] = IF table[i] = NoRow THEN 0 ELSE Settled(table[i])
      /\ \A j \in Requests : j # i => /\ Share(new, a)[j] = Share(table, a)[j]
                                      /\ SettledShare(new, a)[j] = SettledShare(table, a)[j]
  BY <1>1 DEF Share, SettledShare
<1>5. /\ Share(new, a) \in [1..MaxRequest -> Int] /\ Share(table, a) \in [1..MaxRequest -> Int]
      /\ SettledShare(new, a) \in [1..MaxRequest -> Int]
      /\ SettledShare(table, a) \in [1..MaxRequest -> Int]
  BY <1>2, ShareType, Zenon
<1> HIDE DEF a
<1>6. Total(Share(new, a), MaxRequest)
        = Total(Share(table, a), MaxRequest) + Share(new, a)[i] - Share(table, a)[i]
  <2> DEFINE c == Share(table, a)
             d == Share(new, a)
  <2>1. /\ c \in [1..MaxRequest -> Int] /\ d \in [1..MaxRequest -> Int] /\ i \in 1..MaxRequest
        /\ \A j \in 1..MaxRequest : j # i => d[j] = c[j]
        /\ MaxRequest \in Nat
    BY <1>4, <1>5, Zenon DEF Requests
  <2> HIDE DEF c, d
  <2>2. Total(d, MaxRequest) = Total(c, MaxRequest) + d[i] - c[i]
    BY ONLY Zenon, <2>1, TotalUpdate
  <2> QED BY <2>2 DEF c, d
<1>7. Total(SettledShare(new, a), MaxRequest)
        = Total(SettledShare(table, a), MaxRequest) + SettledShare(new, a)[i] - SettledShare(table, a)[i]
  <2> DEFINE c == SettledShare(table, a)
             d == SettledShare(new, a)
  <2>1. /\ c \in [1..MaxRequest -> Int] /\ d \in [1..MaxRequest -> Int] /\ i \in 1..MaxRequest
        /\ \A j \in 1..MaxRequest : j # i => d[j] = c[j]
        /\ MaxRequest \in Nat
    BY <1>4, <1>5, Zenon DEF Requests
  <2> HIDE DEF c, d
  <2>2. Total(d, MaxRequest) = Total(c, MaxRequest) + d[i] - c[i]
    BY ONLY Zenon, <2>1, TotalUpdate
  <2> QED BY <2>2 DEF c, d
<1> QED BY <1>2, <1>3, <1>4, <1>6, <1>7, Zenon DEF a

\* The same for one meter.
LEMMA MeterUpdate ==
  ASSUME NEW table \in [MeterIds -> Meter], NEW b \in Boots, NEW a \in Accounts, NEW m \in Meter,
         NEW new, new = [table EXCEPT ![<<b, a>>] = m]
  PROVE  /\ \A x \in Accounts : x # a => MeterShare(new, x) = MeterShare(table, x)
         /\ Total(MeterShare(new, a), MaxBoot)
              = Total(MeterShare(table, a), MaxBoot) + m.consumed - table[<<b, a>>].consumed
<1> USE LedgerAssumption
<1>1. /\ new \in [MeterIds -> Meter] /\ new[<<b, a>>] = m
      /\ \A y \in MeterIds : y # <<b, a>> => new[y] = table[y]
  BY DEF MeterIds
<1>2. ASSUME NEW x \in Accounts, x # a PROVE MeterShare(new, x) = MeterShare(table, x)
  <2>1. \A c \in Boots : <<c, x>> \in MeterIds /\ <<c, x>> # <<b, a>>
    BY <1>2 DEF MeterIds
  <2> QED BY <1>1, <2>1 DEF MeterShare
<1>3. /\ MeterShare(new, a) \in [1..MaxBoot -> Int] /\ MeterShare(table, a) \in [1..MaxBoot -> Int]
  <2>1. \A c \in Boots : <<c, a>> \in MeterIds
    BY DEF MeterIds
  <2>2. \A y \in MeterIds : new[y].consumed \in Int /\ table[y].consumed \in Int
    BY <1>1 DEF Meter, Amount
  <2> QED BY <2>1, <2>2 DEF MeterShare, Boots
<1>4. \A c \in Boots : c # b => MeterShare(new, a)[c] = MeterShare(table, a)[c]
  <2>1. \A c \in Boots : c # b => <<c, a>> \in MeterIds /\ <<c, a>> # <<b, a>>
    BY DEF MeterIds
  <2> QED BY <1>1, <2>1 DEF MeterShare
<1>5. Total(MeterShare(new, a), MaxBoot)
        = Total(MeterShare(table, a), MaxBoot) + MeterShare(new, a)[b] - MeterShare(table, a)[b]
  <2> DEFINE c == MeterShare(table, a)
             d == MeterShare(new, a)
  <2>1. /\ c \in [1..MaxBoot -> Int] /\ d \in [1..MaxBoot -> Int] /\ b \in 1..MaxBoot
        /\ \A j \in 1..MaxBoot : j # b => d[j] = c[j]
        /\ MaxBoot \in Nat
    BY <1>3, <1>4, Zenon DEF Boots
  <2> HIDE DEF c, d
  <2>2. Total(d, MaxBoot) = Total(c, MaxBoot) + d[b] - c[b]
    BY ONLY Zenon, <2>1, TotalUpdate
  <2> QED BY <2>2 DEF c, d
<1>6. MeterShare(new, a)[b] = m.consumed /\ MeterShare(table, a)[b] = table[<<b, a>>].consumed
  BY <1>1 DEF MeterShare
<1> QED BY <1>2, <1>5, <1>6, Zenon

\* A step of t that writes no table leaves the committed books and the other
\* transactions' books as they were.
LEMMA OwnStepBooks ==
  ASSUME IInv, NEW t \in Replicas, UNCHANGED <<accounts, rows, meters>>,
         \A u \in Replicas \ {t} : SameTx(u),
         \A i \in Requests : draft'[t][i] # NoRow => RowOK(draft'[t][i]),
         \A a \in Accounts :
           /\ working'[t][a] # NoAccount =>
                Balanced(working'[t][a], a, ViewTable(t)', MeterTable(t)')
           /\ working'[t][a] = NoAccount => SameShares(t, a)'
  PROVE  RowsOK' /\ LedgerExact' /\ TxBooks'
<1>1. LedgerExact'
  BY Zenon DEF IInv, LedgerExact, Balanced, Share, SettledShare, MeterShare
<1>2. RowsOK'
  BY DEF IInv, RowsOK, SameTx
<1>3. ASSUME NEW u \in Replicas, NEW a \in Accounts
      PROVE  /\ working'[u][a] # NoAccount =>
                  Balanced(working'[u][a], a, ViewTable(u)', MeterTable(u)')
             /\ working'[u][a] = NoAccount => SameShares(u, a)'
  <2>1. CASE u = t
    BY <2>1
  <2>2. CASE u # t
    <3>1. /\ working'[u] = working[u] /\ draft'[u] = draft[u] /\ meterDraft'[u] = meterDraft[u]
      BY <2>2 DEF SameTx
    <3>2. ViewTable(u)' = ViewTable(u) /\ MeterTable(u)' = MeterTable(u)
      BY <3>1 DEF ViewTable, MeterTable, View, MeterView
    <3>3. (SameShares(u, a))' <=> SameShares(u, a)
      BY <3>2 DEF SameShares, Share, SettledShare, MeterShare
    <3> QED BY <3>1, <3>2, <3>3 DEF IInv, TxBooks
  <2> QED BY <2>1, <2>2
<1>4. TxBooks'
  BY <1>3 DEF TxBooks, Balanced, Share, SettledShare, MeterShare
<1> QED BY <1>1, <1>2, <1>4

\* A step that touches no row and no copy keeps the books.
LEMMA QuietStep ==
  ASSUME IInv, UNCHANGED <<accounts, rows, meters, working, draft, meterDraft>>
  PROVE  RowsOK' /\ LedgerExact' /\ TxBooks'
<1>1. LedgerExact'
  BY Zenon DEF IInv, LedgerExact, Balanced, Share, SettledShare, MeterShare
<1>2. RowsOK'
  BY DEF IInv, RowsOK
<1>3. \A u \in Replicas : ViewTable(u)' = ViewTable(u) /\ MeterTable(u)' = MeterTable(u)
  BY DEF ViewTable, MeterTable, View, MeterView
<1>4. TxBooks'
  BY <1>3 DEF IInv, TxBooks, SameShares, Balanced, Share, SettledShare, MeterShare
<1> QED BY <1>1, <1>2, <1>4

\* A fresh copy of an account is balanced, because nothing has been written.
LEMMA LockAccountBooks ==
  ASSUME IInv, NEW t \in Replicas, NEW a \in Accounts, LockAccount(t, a)
  PROVE  RowsOK' /\ LedgerExact' /\ TxBooks'
<1>1. /\ stage[t] = "accounts" /\ UNCHANGED <<accounts, rows, meters, draft, meterDraft>>
      /\ UNCHANGED <<stage, boot, docs, win, wanted>>
  BY DEF LockAccount, tables
<1>2. PICK soft \in BOOLEAN : working' = [working EXCEPT ![t][a] =
               IF accounts[a] = NoAccount THEN NewAccount(soft)
               ELSE [accounts[a] EXCEPT !.acceptsMeters = @ \/ soft]]
  BY Zenon DEF LockAccount
<1>3. /\ \A i \in Requests : draft[t][i] = NoRow
      /\ \A x \in MeterIds : meterDraft[t][x] = NoDraft
  BY <1>1 DEF IInv, LockInv, Covered, Writing
<1>4. ViewTable(t) = rows /\ MeterTable(t) = meters
  BY <1>3 DEF ViewTable, MeterTable, View, MeterView, IInv, TypeOK
<1>5. ViewTable(t)' = rows /\ MeterTable(t)' = meters
  BY <1>1, <1>4 DEF ViewTable, MeterTable, View, MeterView
<1>6. /\ \A u \in Replicas \ {t} : SameTx(u)
      /\ \A x \in Accounts : x # a => working'[t][x] = working[t][x]
      /\ working'[t][a] = IF accounts[a] = NoAccount THEN NewAccount(soft)
                          ELSE [accounts[a] EXCEPT !.acceptsMeters = @ \/ soft]
  BY <1>1, <1>2 DEF SameTx, IInv, TypeOK
<1>7. /\ working'[t][a].hardEncumbered
           = (IF accounts[a] = NoAccount THEN NewAccount(FALSE) ELSE accounts[a]).hardEncumbered
      /\ working'[t][a].hardConsumed
           = (IF accounts[a] = NoAccount THEN NewAccount(FALSE) ELSE accounts[a]).hardConsumed
      /\ working'[t][a].softConsumed
           = (IF accounts[a] = NoAccount THEN NewAccount(FALSE) ELSE accounts[a]).softConsumed
  BY <1>6 DEF NewAccount, IInv, TypeOK, Account
<1>8. Balanced(working'[t][a], a, rows, meters)
  BY <1>7, Zenon DEF IInv, LedgerExact, Balanced
<1>9. ASSUME NEW x \in Accounts
      PROVE  /\ working'[t][x] # NoAccount => Balanced(working'[t][x], x, rows, meters)
             /\ working'[t][x] = NoAccount => SameShares(t, x)'
  <2>1. SameShares(t, x)'
    BY <1>1, <1>5 DEF SameShares, Share, SettledShare, MeterShare
  <2>2. CASE x = a
    BY <1>8, <2>1, <2>2
  <2>3. CASE x # a
    BY <1>4, <1>6, <2>1, <2>3 DEF IInv, TxBooks
  <2> QED BY <2>2, <2>3
<1>10. \A i \in Requests : draft'[t][i] # NoRow => RowOK(draft'[t][i])
  BY <1>1, <1>3
<1> QED BY <1>1, <1>5, <1>6, <1>9, <1>10, OwnStepBooks

\* What transaction t sees is a table of well-formed rows.
LEMMA ViewGood ==
  ASSUME IInv, NEW t \in Replicas
  PROVE  GoodTable(rows) /\ GoodTable(ViewTable(t)) /\ MeterTable(t) \in [MeterIds -> Meter]
BY DEF IInv, TypeOK, RowsOK, GoodTable, RowTable, ViewTable, View, MeterTable, MeterView

\* Transaction t writes row i of account a, whose shares were c0 and s0, and
\* moves its copy of the account by the change.
WritesRow(t, i, a, acct, row, c0, s0) ==
    /\ row.acct = a /\ draft[t][i] = NoRow /\ (rows[i] # NoRow => rows[i].acct = a)
    /\ UNCHANGED <<accounts, rows, meters, meterDraft>>
    /\ \A u \in Replicas \ {t} : SameTx(u)
    /\ working' = [working EXCEPT ![t][a] = acct]
    /\ draft' = [draft EXCEPT ![t][i] = row]
    /\ c0 = IF rows[i] = NoRow THEN 0 ELSE Contribution(rows[i])
    /\ s0 = IF rows[i] = NoRow THEN 0 ELSE Settled(rows[i])
    /\ \/ acct = working[t][a] /\ Contribution(row) = c0 /\ Settled(row) = s0
       \/ /\ acct \in Account /\ working[t][a] \in Account
          /\ acct.hardEncumbered - working[t][a].hardEncumbered = Contribution(row) - c0
          /\ acct.hardConsumed - working[t][a].hardConsumed = Settled(row) - s0
          /\ acct.softConsumed = working[t][a].softConsumed

\* Writing a row that way keeps the books: the copy stays balanced, and an
\* account that t does not hold keeps its share.
LEMMA WriteRowBooks ==
  ASSUME IInv, NEW t \in Replicas, NEW i \in Requests, NEW a \in Accounts,
         NEW acct \in Account \cup {NoAccount}, NEW row \in Row, RowOK(row),
         NEW c0, NEW s0, WritesRow(t, i, a, acct, row, c0, s0)
  PROVE  RowsOK' /\ LedgerExact' /\ TxBooks'
<1> USE DEF WritesRow
<1> USE LedgerAssumption
<1> DEFINE old == ViewTable(t)
           new == [old EXCEPT ![i] = row]
<1>1. GoodTable(old) /\ old[i] = rows[i]
  BY ViewGood DEF ViewTable, View
<1>2. /\ \A j \in Requests : draft'[t][j] = IF j = i THEN row ELSE draft[t][j]
      /\ \A x \in Accounts : working'[t][x] = IF x = a THEN acct ELSE working[t][x]
  BY DEF IInv, TypeOK
<1>3. ViewTable(t)' = new /\ MeterTable(t)' = MeterTable(t)
  <2>1. \A j \in Requests : View(t, j)' = IF j = i THEN row ELSE View(t, j)
    BY <1>2 DEF View
  <2> QED BY <2>1, Zenon DEF ViewTable, MeterTable, MeterView
<1>4. row.acct = a /\ (old[i] # NoRow => old[i].acct = row.acct)
  BY <1>1
<1> HIDE DEF old, new
<1>5. /\ GoodTable(new)
      /\ \A x \in Accounts : x # a => Share(new, x) = Share(old, x) /\ SettledShare(new, x) = SettledShare(old, x)
      /\ Total(Share(new, a), MaxRequest) = Total(Share(old, a), MaxRequest) + Contribution(row) - c0
      /\ Total(SettledShare(new, a), MaxRequest) = Total(SettledShare(old, a), MaxRequest) + Settled(row) - s0
  <2>1. /\ GoodTable(new)
        /\ \A x \in Accounts : x # row.acct =>
             Share(new, x) = Share(old, x) /\ SettledShare(new, x) = SettledShare(old, x)
        /\ Total(Share(new, row.acct), MaxRequest) = Total(Share(old, row.acct), MaxRequest)
             + Contribution(row) - (IF old[i] = NoRow THEN 0 ELSE Contribution(old[i]))
        /\ Total(SettledShare(new, row.acct), MaxRequest) = Total(SettledShare(old, row.acct), MaxRequest)
             + Settled(row) - (IF old[i] = NoRow THEN 0 ELSE Settled(old[i]))
    <3> HIDE DEF WritesRow
    <3> QED BY ONLY Zenon, <1>1, <1>4, row \in Row, RowOK(row), i \in Requests, RowUpdate DEF new
  <2> QED BY <1>1, <2>1
<1>6. /\ Contribution(row) \in Int /\ Settled(row) \in Int /\ c0 \in Int /\ s0 \in Int
  BY SettledIsHeld DEF IInv, RowsOK, TypeOK, Amount
<1>7. Total(Share(old, a), MaxRequest) \in Int /\ Total(SettledShare(old, a), MaxRequest) \in Int
  BY <1>1, ShareType, TotalType
<1>8. ASSUME NEW x \in Accounts
      PROVE  /\ working'[t][x] # NoAccount => Balanced(working'[t][x], x, ViewTable(t)', MeterTable(t)')
             /\ working'[t][x] = NoAccount => SameShares(t, x)'
  <2>0. /\ working[t][x] # NoAccount => Balanced(working[t][x], x, old, MeterTable(t))
        /\ working[t][x] = NoAccount => SameShares(t, x)
    BY Zenon DEF IInv, TxBooks, old
  <2>1. CASE x # a
    <3>1. Share(new, x) = Share(old, x) /\ SettledShare(new, x) = SettledShare(old, x)
      BY <1>5, <2>1, Zenon
    <3> QED BY <1>2, <1>3, <2>0, <2>1, <3>1 DEF Balanced, SameShares, old, Share, SettledShare, MeterShare
  <2>2. CASE x = a /\ acct # NoAccount
    <3>1. working'[t][x] = acct /\ acct \in Account /\ working[t][x] \in Account
      BY <1>2, <2>2
    <3>2. Balanced(working[t][x], x, old, MeterTable(t))
      BY <2>0, <3>1, SMTT(30)
    <3>3. /\ acct.hardEncumbered = working[t][a].hardEncumbered + Contribution(row) - c0
          /\ acct.hardConsumed = working[t][a].hardConsumed + Settled(row) - s0
          /\ acct.softConsumed = working[t][a].softConsumed
      <4>1. /\ acct.hardEncumbered \in Int /\ acct.hardConsumed \in Int
            /\ working[t][a].hardEncumbered \in Int /\ working[t][a].hardConsumed \in Int
        BY <2>2, <3>1 DEF Account, Amount
      <4>2. CASE acct = working[t][a] /\ Contribution(row) = c0 /\ Settled(row) = s0
        BY <1>6, <4>1, <4>2
      <4>3. CASE /\ acct.hardEncumbered - working[t][a].hardEncumbered = Contribution(row) - c0
                 /\ acct.hardConsumed - working[t][a].hardConsumed = Settled(row) - s0
                 /\ acct.softConsumed = working[t][a].softConsumed
        BY ONLY <1>6, <4>1, <4>3
      <4> QED BY <4>2, <4>3
    <3> QED BY <1>3, <1>5, <1>6, <1>7, <2>2, <3>1, <3>2, <3>3, Zenon DEF Balanced
  <2>3. CASE x = a /\ acct = NoAccount
    <3>1. working[t][a] = NoAccount /\ Contribution(row) = c0 /\ Settled(row) = s0
      BY <2>3
    <3>2. SameShares(t, a)
      BY <2>0, <2>3, <3>1
    <3>3. Share(new, a) = Share(old, a) /\ SettledShare(new, a) = SettledShare(old, a)
      BY <1>1, <3>1 DEF Share, SettledShare, new, GoodTable, RowTable
    <3> QED BY <1>2, <1>3, <2>3, <3>2, <3>3 DEF SameShares, old, Share, SettledShare, MeterShare
  <2> QED BY <2>1, <2>2, <2>3
<1>9. \A j \in Requests : draft'[t][j] # NoRow => RowOK(draft'[t][j])
  BY <1>2 DEF IInv, RowsOK
<1> QED BY <1>8, <1>9, OwnStepBooks

\* A report keeps the books.
LEMMA ReportGrantBooks ==
  ASSUME IInv, NEW t \in Replicas, NEW i \in Requests, NEW r \in Reports, ReportGrant(t, i, r)
  PROVE  RowsOK' /\ LedgerExact' /\ TxBooks'
<1>1. PICK acct \in Account, row \in Row :
        /\ RowOK(row) /\ row.acct = rows[i].acct
        /\ working' = [working EXCEPT ![t][rows[i].acct] = acct]
        /\ draft' = [draft EXCEPT ![t][i] = row]
        /\ acct.hardEncumbered - working[t][rows[i].acct].hardEncumbered
             = Contribution(row) - Contribution(rows[i])
        /\ acct.hardConsumed - working[t][rows[i].acct].hardConsumed
             = Settled(row) - Settled(rows[i])
        /\ acct.softConsumed = working[t][rows[i].acct].softConsumed
  BY ReportOutcome, SMTT(30)
<1>2. rows[i] \in Row /\ rows[i].acct \in Accounts /\ working[t][rows[i].acct] \in Account
  BY ReportOutcome
<1>3. /\ draft[t][i] = NoRow /\ rows[i] # NoRow
      /\ UNCHANGED <<accounts, rows, meters, meterDraft, stage, boot, docs, win, wanted>>
  BY DEF ReportGrant, tables
<1>4. \A u \in Replicas \ {t} : SameTx(u)
  BY <1>1, <1>3, Zenon DEF SameTx, IInv, TypeOK
<1>5. WritesRow(t, i, rows[i].acct, acct, row, Contribution(rows[i]), Settled(rows[i]))
  BY <1>1, <1>2, <1>3, <1>4 DEF WritesRow
<1> QED BY <1>1, <1>2, <1>5, WriteRowBooks, Zenon

\* A grant, a denial and a replayed request keep the books.
LEMMA RequestGrantBooks ==
  ASSUME IInv, NEW t \in Replicas, NEW i \in Requests, NEW a \in Accounts,
         NEW rev \in Nat, NEW want \in Wants, RequestGrant(t, i, a, rev, want)
  PROVE  RowsOK' /\ LedgerExact' /\ TxBooks'
<1> DEFINE c0 == IF rows[i] = NoRow THEN 0 ELSE Contribution(rows[i])
           s0 == IF rows[i] = NoRow THEN 0 ELSE Settled(rows[i])
<1>1. PICK before \in Row, row \in Row, acct \in Account \cup {NoAccount} :
        /\ before = IF rows[i] = NoRow THEN Fresh(a, rev, want) ELSE rows[i]
        /\ RowOK(row) /\ before.acct = a /\ row.acct = a
        /\ Settled(row) = Settled(before)
        /\ working' = [working EXCEPT ![t][a] = acct]
        /\ draft' = [draft EXCEPT ![t][i] = row]
        /\ \/ acct = working[t][a] /\ row = before
           \/ /\ Budget(t, a) # NoBudget /\ acct \in Account
              /\ acct.hardEncumbered - working[t][a].hardEncumbered
                   = Contribution(row) - Contribution(before)
              /\ acct.hardConsumed = working[t][a].hardConsumed
              /\ acct.softConsumed = working[t][a].softConsumed
  BY RequestOutcome
<1>2. Contribution(before) = c0 /\ Settled(before) = s0 /\ s0 \in Int
  <2>1. CASE rows[i] = NoRow
    BY <1>1, <2>1 DEF Fresh, Contribution, Settled, Larger
  <2>2. CASE rows[i] # NoRow
    BY <1>1, <2>2, SettledIsHeld DEF IInv, TypeOK, RowsOK, Amount
  <2> QED BY <2>1, <2>2
<1>3. /\ draft[t][i] = NoRow /\ stage[t] \in Writing
      /\ UNCHANGED <<accounts, rows, meters, meterDraft, boot, docs, win, wanted>>
      /\ \A u \in Replicas \ {t} : stage'[u] = stage[u]
  BY DEF RequestGrant, tables, IInv, TypeOK
<1>4. \A u \in Replicas \ {t} : SameTx(u)
  BY <1>1, <1>3 DEF SameTx, IInv, TypeOK
<1>5. Budget(t, a) # NoBudget => working[t][a] \in Account
  BY <1>3, BudgetIsHeld, Zenon
<1> HIDE DEF c0, s0
<1>6. \/ acct = working[t][a] /\ Contribution(row) = c0 /\ Settled(row) = s0
      \/ /\ acct \in Account /\ working[t][a] \in Account
         /\ acct.hardEncumbered - working[t][a].hardEncumbered = Contribution(row) - c0
         /\ acct.hardConsumed - working[t][a].hardConsumed = Settled(row) - s0
         /\ acct.softConsumed = working[t][a].softConsumed
  BY <1>1, <1>2, <1>5 DEF Account, Amount
<1>7. /\ rows[i] # NoRow => rows[i].acct = a
      /\ c0 = IF rows[i] = NoRow THEN 0 ELSE Contribution(rows[i])
      /\ s0 = IF rows[i] = NoRow THEN 0 ELSE Settled(rows[i])
  BY <1>1 DEF c0, s0
<1>8. /\ RowOK(row) /\ row.acct = a
      /\ working' = [working EXCEPT ![t][a] = acct] /\ draft' = [draft EXCEPT ![t][i] = row]
  BY <1>1
<1>9. WritesRow(t, i, a, acct, row, c0, s0)
  BY <1>3, <1>4, <1>6, <1>7, <1>8 DEF WritesRow
<1> QED BY <1>8, <1>9, WriteRowBooks, SMTT(30)
=============================================================================
