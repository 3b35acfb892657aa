-------------------------- MODULE LedgerTypeProofs --------------------------
(***************************************************************************)
(* Every step of the ledger keeps the types.                               *)
(***************************************************************************)
EXTENDS LedgerStepProofs

\* The initial state has its types.
LEMMA InitType == Init => TypeOK
BY LedgerAssumption, MaxInt64Assumption
   DEF Init, TypeOK, Boots, Windows, Keys, NoMeter, Meter, Amount, Stages, Idle

\* A transaction that ends leaves well-typed transaction variables.
LEMMA ReleaseType ==
  ASSUME TypeOK, NEW t \in Replicas, Release(t)
  PROVE  /\ stage' \in [Replicas -> Stages]
         /\ boot' \in [Replicas -> Boots]
         /\ docs' \in [Replicas -> [Keys -> Definitions \cup {NoBudget}]]
         /\ win' \in [Replicas -> Windows]
         /\ wanted' \in [Replicas -> SUBSET Accounts]
         /\ working' \in [Replicas -> [Accounts -> Account \cup {NoAccount}]]
         /\ draft' \in [Replicas -> [Requests -> Row \cup {NoRow}]]
         /\ meterDraft' \in [Replicas -> [MeterIds -> Meter \cup {NoDraft}]]
BY LedgerAssumption DEF TypeOK, Release, Boots, Windows, Stages, Idle

\* Every step of the ledger keeps the types: no column and no wire value leaves
\* the int64 range, because every addition is checked.
LEMMA TypeStep ==
  ASSUME IInv, [Next]_vars
  PROVE  TypeOK'
<1> USE LedgerAssumption, MaxInt64Assumption
<1>0. TypeOK
  BY DEF IInv
<1>1. ASSUME NEW t \in Replicas, NEW b \in Boots, Begin(t, b) PROVE TypeOK'
  BY <1>0, <1>1 DEF TypeOK, Begin, tables, Stages
<1>2. ASSUME NEW t \in Replicas, NEW extra \in SUBSET {a \in Accounts : accounts[a] # NoAccount},
             LockDataplane(t, extra)
      PROVE  TypeOK'
  BY <1>0, <1>2 DEF TypeOK, LockDataplane, Active, tables, Stages
<1>3. ASSUME NEW t \in Replicas, NEW a \in Accounts, LockAccount(t, a) PROVE TypeOK'
  <2>1. PICK soft \in BOOLEAN : working' = [working EXCEPT ![t][a] =
               IF accounts[a] = NoAccount THEN NewAccount(soft)
               ELSE [accounts[a] EXCEPT !.acceptsMeters = @ \/ soft]]
    BY <1>3, Zenon DEF LockAccount
  <2>2. NewAccount(soft) \in Account
    BY DEF NewAccount, Account, Amount
  <2>3. accounts[a] # NoAccount => [accounts[a] EXCEPT !.acceptsMeters = @ \/ soft] \in Account
    <3> DEFINE v == accounts[a].acceptsMeters \/ soft
    <3>1. v \in BOOLEAN
      OBVIOUS
    <3>2. accounts[a] # NoAccount => accounts[a] \in Account
      BY <1>0 DEF TypeOK
    <3>3. accounts[a] # NoAccount => [accounts[a] EXCEPT !.acceptsMeters = v] \in Account
      <4> HIDE DEF v
      <4> QED BY <3>1, <3>2 DEF Account
    <3> QED BY <3>3
  <2>4. working' \in [Replicas -> [Accounts -> Account \cup {NoAccount}]]
    <3>1. PICK v \in Account \cup {NoAccount} : working' = [working EXCEPT ![t][a] = v]
      BY <1>0, <2>1, <2>2, <2>3, Zenon DEF TypeOK
    <3>2. working \in [Replicas -> [Accounts -> Account \cup {NoAccount}]]
      BY <1>0 DEF TypeOK
    <3> QED BY <3>1, <3>2, EntryUpdate
  <2> QED BY <1>0, <1>3, <2>4 DEF TypeOK, LockAccount, tables
<1>4. ASSUME NEW t \in Replicas, Recheck(t) PROVE TypeOK'
  BY <1>0, <1>4 DEF TypeOK, Recheck, tables, Stages
<1>5. ASSUME NEW t \in Replicas, NEW i \in Requests, NEW r \in Reports, ReportGrant(t, i, r)
      PROVE  TypeOK'
  <2>1. /\ working' \in [Replicas -> [Accounts -> Account \cup {NoAccount}]]
        /\ draft' \in [Replicas -> [Requests -> Row \cup {NoRow}]]
    <3>1. PICK v \in Account, g \in Row : /\ working' = [working EXCEPT ![t][rows[i].acct] = v]
                                         /\ draft' = [draft EXCEPT ![t][i] = g]
      BY <1>5, ReportOutcome, SMTT(30)
    <3>2. rows[i].acct \in Accounts
      BY <1>5, ReportOutcome
    <3>3. /\ working \in [Replicas -> [Accounts -> Account \cup {NoAccount}]]
          /\ draft \in [Replicas -> [Requests -> Row \cup {NoRow}]]
      BY <1>0 DEF TypeOK
    <3> QED BY <3>1, <3>2, <3>3, EntryUpdate, SMTT(30)
  <2> QED BY <1>0, <1>5, <2>1 DEF TypeOK, ReportGrant, tables
<1>6. ASSUME NEW t \in Replicas, NEW b \in Boots, NEW a \in Accounts, NEW m \in Meters,
             ReportMeter(t, b, a, m)
      PROVE  TypeOK'
  <2>1. /\ working' \in [Replicas -> [Accounts -> Account \cup {NoAccount}]]
        /\ meterDraft' \in [Replicas -> [MeterIds -> Meter \cup {NoDraft}]]
    <3>1. PICK v \in Account, g \in Meter : /\ working' = [working EXCEPT ![t][a] = v]
                                           /\ meterDraft' = [meterDraft EXCEPT ![t][<<b, a>>] = g]
      BY <1>6, MeterOutcome
    <3>2. /\ working \in [Replicas -> [Accounts -> Account \cup {NoAccount}]]
          /\ meterDraft \in [Replicas -> [MeterIds -> Meter \cup {NoDraft}]]
      BY <1>0 DEF TypeOK
    <3>3. working' \in [Replicas -> [Accounts -> Account \cup {NoAccount}]]
      BY <3>1, <3>2, EntryUpdate
    <3>4. g \in Meter \cup {NoDraft}
      BY <3>1
    <3>6. <<b, a>> \in MeterIds
      BY DEF MeterIds
    <3>5. meterDraft' \in [Replicas -> [MeterIds -> Meter \cup {NoDraft}]]
      BY <3>1, <3>2, <3>4, <3>6, EntryUpdate, SMTT(30)
    <3> QED BY <3>3, <3>5
  <2> QED BY <1>0, <1>6, <2>1 DEF TypeOK, ReportMeter, tables, Stages
<1>7. ASSUME NEW t \in Replicas, NEW i \in Requests, NEW a \in Accounts, NEW d \in Definitions,
             NEW n \in Wants, RequestGrant(t, i, a, d.rev, n)
      PROVE  TypeOK'
  <2>1. d.rev \in Nat
    BY DEF Definition
  <2>2. /\ working' \in [Replicas -> [Accounts -> Account \cup {NoAccount}]]
        /\ draft' \in [Replicas -> [Requests -> Row \cup {NoRow}]]
    <3>1. PICK v \in Account \cup {NoAccount}, g \in Row :
            /\ working' = [working EXCEPT ![t][a] = v]
            /\ draft' = [draft EXCEPT ![t][i] = g]
      BY <1>7, <2>1, RequestOutcome
    <3>2. /\ working \in [Replicas -> [Accounts -> Account \cup {NoAccount}]]
          /\ draft \in [Replicas -> [Requests -> Row \cup {NoRow}]]
      BY <1>0 DEF TypeOK
    <3> QED BY <3>1, <3>2, EntryUpdate
  <2> QED BY <1>0, <1>7, <2>2 DEF TypeOK, RequestGrant, tables, Stages
<1>8. ASSUME NEW t \in Replicas, Commit(t) PROVE TypeOK'
  <2>1. accounts' \in [Accounts -> Account \cup {NoAccount}]
    BY <1>0, <1>8 DEF TypeOK, Commit, Held
  <2>2. rows' \in [Requests -> Row \cup {NoRow}]
    BY <1>0, <1>8 DEF TypeOK, Commit, View
  <2>3. meters' \in [MeterIds -> Meter]
    BY <1>0, <1>8 DEF TypeOK, Commit, MeterView
  <2>4. latch' \in [Accounts -> 0..100]
    <3>1. \A a \in Active(t, win[t]) : docs[t][a[1]] \in Definition
      BY <1>0, SMTT(30) DEF Active, Accounts, TypeOK
    <3>2. \A a \in Active(t, win[t]) : Latched(latch[a], working[t][a], docs[t][a[1]]) \in 0..100
      BY <1>0, <3>1, ReachedTierType DEF Latched, Larger, TypeOK, Active
    <3> QED BY <1>0, <1>8, <3>2, Zenon DEF TypeOK, Commit
  <2>5. Release(t) /\ UNCHANGED <<policies, window>>
    BY <1>8 DEF Commit
  <2> QED BY <1>0, <2>1, <2>2, <2>3, <2>4, <2>5, ReleaseType, Zenon DEF TypeOK
<1>9. ASSUME NEW t \in Replicas, Abort(t) PROVE TypeOK'
  <2>1. Release(t) /\ UNCHANGED <<policies, accounts, rows, meters, latch, window>>
    BY <1>9 DEF Abort, tables
  <2> QED BY <1>0, <2>1, ReleaseType DEF TypeOK
<1>10. ASSUME NEW k \in Keys, NEW d \in Definitions \cup {NoBudget}, WritePolicy(k, d)
       PROVE  TypeOK'
  BY <1>0, <1>10 DEF TypeOK, WritePolicy, txs
<1>11. ASSUME Tick PROVE TypeOK'
  BY <1>0, <1>11 DEF TypeOK, Tick, tables, txs, Windows
<1>12. ASSUME UNCHANGED vars PROVE TypeOK'
  BY <1>0, <1>12 DEF TypeOK, vars, tables, txs
<1> QED BY <1>1, <1>2, <1>3, <1>4, <1>5, <1>6, <1>7, <1>8, <1>9, <1>10, <1>11, <1>12
        DEF Next, Step
=============================================================================
