-------------------------- MODULE LedgerLockProofs --------------------------
(***************************************************************************)
(* Every step of the ledger keeps the locking discipline.                  *)
(***************************************************************************)
EXTENDS LedgerStepProofs

\* The transaction variables of u are what they were.
SameTx(u) ==
    /\ stage'[u] = stage[u] /\ boot'[u] = boot[u] /\ docs'[u] = docs[u]
    /\ win'[u] = win[u] /\ wanted'[u] = wanted[u] /\ working'[u] = working[u]
    /\ draft'[u] = draft[u] /\ meterDraft'[u] = meterDraft[u]

\* A transaction that does not move, under policies that do not change, stays
\* covered by its locks.
LEMMA SameTxCovered ==
  ASSUME NEW u \in Replicas, Covered(u), SameTx(u), policies' = policies
  PROVE  Covered(u)'
BY DEF Covered, SameTx, Active, Held, Node

\* Two transactions stay apart when one stays put and the other keeps its
\* node, takes no lock that the first holds, and was already past its
\* dataplane lock.
LEMMA SameTxApart ==
  ASSUME NEW t \in Replicas, NEW u \in Replicas, Apart(t, u), SameTx(u),
         stage'[t] \in Owning => stage[t] \in Owning /\ boot'[t] = boot[t],
         \A a \in Accounts : working'[t][a] = NoAccount \/ working[t][a] # NoAccount
  PROVE  Apart(t, u)' /\ Apart(u, t)'
BY DEF Apart, SameTx, Node

\* A step of t that moves only t, keeps it covered and takes no new lock keeps
\* the locking discipline.
LEMMA OwnStepLocks ==
  ASSUME LockInv, NEW t \in Replicas, \A u \in Replicas \ {t} : SameTx(u),
         policies' = policies, Covered(t)',
         stage'[t] \in Owning => stage[t] \in Owning /\ boot'[t] = boot[t],
         \A a \in Accounts : working'[t][a] = NoAccount \/ working[t][a] # NoAccount
  PROVE  LockInv'
<1>1. ASSUME NEW u \in Replicas PROVE Covered(u)'
  <2>1. CASE u = t
    BY <2>1
  <2>2. CASE u # t
    BY <2>2, SameTxCovered DEF LockInv
  <2> QED BY <2>1, <2>2
<1>2. ASSUME NEW u \in Replicas, NEW v \in Replicas, u # v PROVE Apart(u, v)'
  <2>1. Apart(u, v) /\ Apart(v, u)
    BY <1>2 DEF LockInv
  <2>2. CASE u = t
    BY <1>2, <2>1, <2>2, SameTxApart
  <2>3. CASE v = t
    BY <1>2, <2>1, <2>3, SameTxApart
  <2>4. CASE u # t /\ v # t
    <3>1. SameTx(u) /\ SameTx(v)
      BY <2>4
    <3> QED BY <2>1, <3>1 DEF Apart, SameTx, Node
  <2> QED BY <2>2, <2>3, <2>4
<1> QED BY <1>1, <1>2 DEF LockInv

\* A transaction that ends holds nothing.
LEMMA ReleaseLocks ==
  ASSUME IInv, NEW t \in Replicas, Release(t), policies' = policies
  PROVE  LockInv' /\ \A u \in Replicas \ {t} : SameTx(u)
<1> USE DEF Idle, Owning, Writing
<1>1. \A u \in Replicas \ {t} : SameTx(u)
  BY DEF Release, SameTx, IInv, TypeOK
<1>2. /\ stage'[t] = Idle /\ working'[t] = [a \in Accounts |-> NoAccount]
      /\ draft'[t] = [i \in Requests |-> NoRow]
      /\ meterDraft'[t] = [x \in MeterIds |-> NoDraft]
  BY DEF Release, IInv, TypeOK
<1>3. Covered(t)'
  BY <1>2 DEF Covered
<1>4. \A a \in Accounts : working'[t][a] = NoAccount
  BY <1>2
<1>5. LockInv
  BY DEF IInv
<1> QED BY <1>1, <1>2, <1>3, <1>4, <1>5, OwnStepLocks

\* So does a step that moves no transaction and no policy.
LEMMA StillLocks ==
  ASSUME IInv, UNCHANGED <<policies, txs>>
  PROVE  LockInv'
<1>1. ASSUME NEW u \in Replicas PROVE SameTx(u)
  BY DEF SameTx, txs
<1>2. ASSUME NEW u \in Replicas PROVE Covered(u)'
  BY <1>1, SameTxCovered DEF IInv, LockInv
<1>3. ASSUME NEW u \in Replicas, NEW v \in Replicas, u # v PROVE Apart(u, v)'
  <2>1. Apart(u, v)
    BY <1>3 DEF IInv, LockInv
  <2> QED BY <1>1, <2>1 DEF Apart, SameTx, Node
<1> QED BY <1>2, <1>3 DEF LockInv

\* Every step keeps the locking discipline: policies under SHARE, one
\* transaction per dataplane, one per account.
LEMMA LockStep ==
  ASSUME IInv, [Next]_vars
  PROVE  LockInv'
<1> USE DEF Idle, Owning, Writing
<1>0. TypeOK /\ LockInv /\ \A t \in Replicas : Covered(t)
  BY DEF IInv, LockInv
<1>1. ASSUME NEW t \in Replicas, NEW b \in Boots, Begin(t, b) PROVE LockInv'
  <2>1. \A u \in Replicas \ {t} : SameTx(u)
    BY <1>0, <1>1 DEF Begin, SameTx, TypeOK
  <2>2. /\ stage[t] = Idle /\ stage'[t] = "policies" /\ docs'[t] = policies
        /\ policies' = policies /\ UNCHANGED <<working, draft, meterDraft>>
    BY <1>0, <1>1 DEF Begin, tables, TypeOK
  <2>3. Covered(t)'
    BY <1>0, <2>2 DEF Covered
  <2> QED BY <1>0, <2>1, <2>2, <2>3, OwnStepLocks
<1>2. ASSUME NEW t \in Replicas, NEW extra \in SUBSET {a \in Accounts : accounts[a] # NoAccount},
             LockDataplane(t, extra)
      PROVE  LockInv'
  <2>1. \A u \in Replicas \ {t} : SameTx(u)
    BY <1>0, <1>2 DEF LockDataplane, SameTx, TypeOK
  <2>2. /\ stage[t] = "policies" /\ stage'[t] = "accounts" /\ win'[t] = window
        /\ wanted'[t] = Active(t, window) \cup extra
        /\ UNCHANGED <<policies, boot, docs, working, draft, meterDraft>>
        /\ NodeFree(t)
    BY <1>0, <1>2 DEF LockDataplane, tables, TypeOK
  <2>3. Covered(t)'
    BY <1>0, <2>2, Zenon DEF Covered, Active, Node
  <2>4. ASSUME NEW u \in Replicas PROVE Covered(u)'
    BY <1>0, <2>1, <2>2, <2>3, SameTxCovered
  <2>5. ASSUME NEW u \in Replicas, NEW v \in Replicas, u # v PROVE Apart(u, v)'
    <3>1. Apart(u, v)
      BY <1>0, <2>5 DEF LockInv
    <3>2. \A x \in Replicas : Node(x)' = Node(x)
      BY <2>2 DEF Node
    <3>3. stage'[u] \in Owning /\ stage'[v] \in Owning => Node(u) # Node(v)
      BY <2>1, <2>2, <2>5, <3>1 DEF NodeFree, SameTx, Apart
    <3> QED BY <2>2, <3>1, <3>2, <3>3 DEF Apart
  <2> QED BY <2>4, <2>5 DEF LockInv
<1>3. ASSUME NEW t \in Replicas, NEW a \in Accounts, LockAccount(t, a) PROVE LockInv'
  <2>1. PICK v : working' = [working EXCEPT ![t][a] = v]
    BY <1>3, Zenon DEF LockAccount
  <2>2. /\ \A x \in Accounts : x # a => working'[t][x] = working[t][x]
        /\ \A u \in Replicas \ {t} : working'[u] = working[u]
    BY <1>0, <2>1 DEF TypeOK
  <2>3. /\ stage[t] = "accounts" /\ LockFree(t, a) /\ a \in wanted[t]
        /\ UNCHANGED <<policies, stage, boot, docs, win, wanted, draft, meterDraft>>
    BY <1>3 DEF LockAccount, tables
  <2>4. \A u \in Replicas \ {t} : SameTx(u)
    BY <2>2, <2>3 DEF SameTx
  <2>5. Covered(t)'
    BY <1>0, <2>3 DEF Covered, Active, Node
  <2>6. ASSUME NEW u \in Replicas PROVE Covered(u)'
    BY <1>0, <2>3, <2>4, <2>5, SameTxCovered
  <2>7. ASSUME NEW u \in Replicas, NEW w \in Replicas, u # w PROVE Apart(u, w)'
    <3>1. Apart(u, w)
      BY <1>0, <2>7 DEF LockInv
    <3>2. ASSUME NEW x \in Accounts PROVE working'[u][x] = NoAccount \/ working'[w][x] = NoAccount
      <4>1. working[u][x] = NoAccount \/ working[w][x] = NoAccount
        BY <3>1 DEF Apart
      <4>2. \A y \in Replicas \ {t} : working[y][a] = NoAccount
        BY <2>3 DEF LockFree, Held
      <4>3. CASE x # a
        BY <2>2, <4>1, <4>3
      <4>4. CASE x = a
        BY <2>2, <2>7, <4>2, <4>4
      <4> QED BY <4>3, <4>4
    <3> QED BY <2>3, <3>1, <3>2 DEF Apart, Node
  <2> QED BY <2>6, <2>7 DEF LockInv
<1>4. ASSUME NEW t \in Replicas, Recheck(t) PROVE LockInv'
  <2>1. \A u \in Replicas \ {t} : SameTx(u)
    BY <1>0, <1>4 DEF Recheck, SameTx, TypeOK
  <2>2. /\ stage[t] = "accounts" /\ stage'[t] = "reports" /\ wanted[t] \subseteq Held(t)
        /\ UNCHANGED <<policies, boot, docs, win, wanted, working, draft, meterDraft>>
    BY <1>0, <1>4 DEF Recheck, tables, TypeOK
  <2>3. Covered(t)'
    BY <1>0, <2>2 DEF Covered, Active, Node, Held
  <2> QED BY <1>0, <2>1, <2>2, <2>3, OwnStepLocks
<1>5. ASSUME NEW t \in Replicas, NEW i \in Requests, NEW r \in Reports, ReportGrant(t, i, r)
      PROVE  LockInv'
  <2>1. PICK v \in Account, g \in Row : /\ working' = [working EXCEPT ![t][rows[i].acct] = v]
                                        /\ draft' = [draft EXCEPT ![t][i] = g]
    BY <1>5, ReportOutcome, SMTT(30)
  <2>2. rows[i].acct \in Accounts /\ working[t][rows[i].acct] \in Account
    BY <1>5, ReportOutcome
  <2>3. /\ stage[t] = "reports" /\ NodeOf[BootOf[i]] = Node(t)
        /\ UNCHANGED <<policies, stage, boot, docs, win, wanted, meterDraft>>
    BY <1>5 DEF ReportGrant, tables
  <2>4. \A u \in Replicas \ {t} : SameTx(u)
    BY <1>0, <2>1, <2>3, Zenon DEF SameTx, TypeOK
  <2>5. /\ \A x \in Accounts : working[t][x] = NoAccount <=> working'[t][x] = NoAccount
        /\ \A j \in Requests : j # i => draft'[t][j] = draft[t][j]
    BY <1>0, <2>1, <2>2, LedgerAssumption, SMTT(30) DEF TypeOK
  <2>6. Covered(t)'
    BY <1>0, <2>3, <2>5 DEF Covered, Active, Node, Held
  <2> QED BY <1>0, <2>3, <2>4, <2>5, <2>6, OwnStepLocks, Zenon
<1>6. ASSUME NEW t \in Replicas, NEW b \in Boots, NEW a \in Accounts, NEW m \in Meters,
             ReportMeter(t, b, a, m)
      PROVE  LockInv'
  <2>1. PICK v \in Account, g \in Meter : /\ working' = [working EXCEPT ![t][a] = v]
                                          /\ meterDraft' = [meterDraft EXCEPT ![t][<<b, a>>] = g]
    BY <1>6, MeterOutcome
  <2>2. working[t][a] \in Account
    BY <1>6, MeterOutcome, Zenon
  <2>3. /\ stage[t] \in {"reports", "meters"} /\ stage'[t] = "meters" /\ NodeOf[b] = Node(t)
        /\ UNCHANGED <<policies, boot, docs, win, wanted, draft>>
        /\ \A u \in Replicas \ {t} : stage'[u] = stage[u]
    BY <1>0, <1>6 DEF ReportMeter, tables, TypeOK
  <2>4. \A u \in Replicas \ {t} : SameTx(u)
    BY <1>0, <2>1, <2>3 DEF SameTx, TypeOK
  <2>5. /\ \A x \in Accounts : working[t][x] = NoAccount <=> working'[t][x] = NoAccount
        /\ \A y \in MeterIds : y # <<b, a>> => meterDraft'[t][y] = meterDraft[t][y]
    BY <1>0, <2>1, <2>2, LedgerAssumption DEF TypeOK
  <2>6. \A y \in MeterIds : meterDraft'[t][y] # NoDraft => NodeOf[y[1]] = Node(t)
    <3>1. \A y \in MeterIds : meterDraft[t][y] # NoDraft => NodeOf[y[1]] = Node(t)
      BY <1>0, Zenon DEF Covered
    <3>2. ASSUME NEW y \in MeterIds, meterDraft'[t][y] # NoDraft PROVE NodeOf[y[1]] = Node(t)
      <4>1. CASE y = <<b, a>>
        <5>1. y[1] = b
          BY <4>1
        <5> QED BY <2>3, <5>1, Zenon
      <4>2. CASE y # <<b, a>>
        BY <2>5, <3>1, <3>2, <4>2, Zenon
      <4> QED BY <4>1, <4>2
    <3> QED BY <3>2, Zenon
  <2>7. Covered(t)'
    BY <1>0, <2>3, <2>5, <2>6, Zenon DEF Covered, Active, Node, Held
  <2> QED BY <1>0, <2>3, <2>4, <2>5, <2>7, OwnStepLocks, Zenon
<1>7. ASSUME NEW t \in Replicas, NEW i \in Requests, NEW a \in Accounts, NEW d \in Definitions,
             NEW n \in Wants, RequestGrant(t, i, a, d.rev, n)
      PROVE  LockInv'
  <2>0. d.rev \in Nat
    BY LedgerAssumption DEF Definition
  <2>1. PICK v \in Account \cup {NoAccount}, g \in Row :
          /\ working' = [working EXCEPT ![t][a] = v]
          /\ draft' = [draft EXCEPT ![t][i] = g]
          /\ v = working[t][a] \/ (Budget(t, a) # NoBudget /\ v \in Account)
    BY <1>7, <2>0, RequestOutcome
  <2>3. /\ stage[t] \in Writing /\ stage'[t] = "requests" /\ BootOf[i] = boot[t]
        /\ UNCHANGED <<policies, boot, docs, win, wanted, meterDraft>>
        /\ \A u \in Replicas \ {t} : stage'[u] = stage[u]
    BY <1>0, <1>7 DEF RequestGrant, tables, TypeOK
  <2>2. v = working[t][a] \/ (v # NoAccount /\ working[t][a] # NoAccount)
    BY <2>1, <2>3, BudgetIsHeld, LedgerAssumption
  <2>4. \A u \in Replicas \ {t} : SameTx(u)
    BY <1>0, <2>1, <2>3 DEF SameTx, TypeOK
  <2>5. /\ \A x \in Accounts : working[t][x] = NoAccount <=> working'[t][x] = NoAccount
        /\ \A j \in Requests : j # i => draft'[t][j] = draft[t][j]
    BY <1>0, <2>1, <2>2 DEF TypeOK
  <2>6. Covered(t)'
    BY <1>0, <2>3, <2>5, Zenon DEF Covered, Active, Node, Held
  <2> QED BY <1>0, <2>3, <2>4, <2>5, <2>6, OwnStepLocks, Zenon
<1>8. ASSUME NEW t \in Replicas, Commit(t) PROVE LockInv'
  BY <1>8, ReleaseLocks, Zenon DEF Commit
<1>9. ASSUME NEW t \in Replicas, Abort(t) PROVE LockInv'
  BY <1>9, ReleaseLocks DEF Abort, tables
<1>10. ASSUME NEW k \in Keys, NEW d \in Definitions \cup {NoBudget}, WritePolicy(k, d)
       PROVE  LockInv'
  <2>1. (\A t \in Replicas : stage[t] = Idle) /\ UNCHANGED txs
    BY <1>10, Zenon DEF WritePolicy
  <2>2. ASSUME NEW t \in Replicas PROVE Covered(t)'
    <3>1. SameTx(t) /\ stage[t] = Idle /\ Covered(t)
      BY <1>0, <2>1 DEF SameTx, txs
    <3> QED BY <3>1, Zenon DEF Covered, SameTx, Node
  <2>3. ASSUME NEW t \in Replicas, NEW u \in Replicas, t # u PROVE Apart(t, u)'
    <3>1. Apart(t, u)
      BY <1>0, <2>3, Zenon DEF LockInv
    <3> QED BY <2>1, <3>1 DEF Apart, Node, txs
  <2> QED BY <2>2, <2>3, Zenon DEF LockInv
<1>11. ASSUME Tick PROVE LockInv'
  BY <1>11, StillLocks DEF Tick, tables
<1>12. ASSUME UNCHANGED vars PROVE LockInv'
  BY <1>12, StillLocks DEF vars, tables
<1> QED BY <1>1, <1>2, <1>3, <1>4, <1>5, <1>6, <1>7, <1>8, <1>9, <1>10, <1>11, <1>12
        DEF Next, Step
=============================================================================
