---------------------------- MODULE EscrowFleet ----------------------------
(***************************************************************************)
(* Durable budgets end to end (ADR-045): mayu processes that admit calls   *)
(* from their escrow journals, the network, and the authority that issues  *)
(* and settles escrow.                                                     *)
(*                                                                         *)
(* A journal is a file.  A process owns the file it opened last; a process *)
(* that crashes, or is replaced, is followed by another boot on the same   *)
(* file, and a file may be copied (a backup, a cloned volume) and the copy *)
(* opened while the original is in use.  Files that are never copied are   *)
(* the journals of different nodes.                                        *)
(*                                                                         *)
(* The network keeps batches and replies in flight, and may lose, delay,   *)
(* reorder and deliver them again, also to a later boot; HTTP is kinder.   *)
(* The authority's Sync is one atomic step here: AuthorityLedger shows     *)
(* what its transactions do to one another.  All clocks run at the same    *)
(* rate; only durations are ever compared.                                 *)
(***************************************************************************)
EXTENDS NodeJournal

CONSTANTS Files,      \* journal files
          Scenarios   \* what may happen: one of these is in force

VARIABLES world,       \* the scenario
          journal,     \* the files, None before the first boot
          memory,      \* the owner's memory, None if no process has the file open
          boots, nonces, issued,   \* boots, request and permit nonces used so far
          clock,
          policies, accounts, rows, expires, meters,   \* the authority's tables
          batches, replies,        \* messages in flight
          calls        \* upstream calls: what they may still cost, what they did

node == <<journal, memory, boots, nonces, issued>>
ledger == <<accounts, rows, expires, meters>>
network == <<batches, replies>>
vars == <<world, node, clock, policies, ledger, network, calls>>

NoRow == None

\* A scenario bounds what happens and how much of it.
Definitions == world.definitions   \* budget definitions that policy writers may store
Subjects    == world.subjects      \* the sets of budget keys that callers match
Bounds      == world.bounds        \* upper bounds of calls
Outcomes    == world.outcomes      \* how calls end
MaxTime     == world.time          \* the clock runs from 0 to MaxTime
MaxFlight   == world.flight        \* batches, and replies, in flight at once
Copies      == world.copies        \* whether files are copied
Cancels     == world.cancels       \* whether callers give up while Reserve cleans up

Init ==
    /\ world \in Scenarios
    /\ journal = [f \in Files |-> None] /\ memory = [f \in Files |-> None]
    /\ boots = 0 /\ nonces = {} /\ issued = 0
    /\ clock = 0
    /\ policies \in {p \in [Keys -> Definitions \cup {NoBudget}] :
                      \A k \in Keys : p[k] \in IF k \in UNION Subjects THEN Definitions
                                               ELSE {NoBudget}}
    /\ accounts = [a \in Accounts |-> NewAccount(FALSE)]
    /\ rows = [i \in Requests |-> NoRow] /\ expires = [i \in Requests |-> NoTime]
    /\ meters = [x \in MeterIds |-> NoMeter]
    /\ batches = {} /\ replies = {}
    /\ calls = [p \in Permits |-> None]

-----------------------------------------------------------------------------
(* The node. *)

\* The process on file f runs and no operation of it holds the store's mutex.
Free(f) == memory[f] # None /\ memory[f].returning = None

\* transaction: the journal is replaced, then dead deadlines are pruned.
Commit(f, j, m) ==
    /\ journal' = [journal EXCEPT ![f] = j]
    /\ memory' = [memory EXCEPT ![f] =
         [m EXCEPT !.deadlines = [i \in Requests |->
             IF journal'[f].grants[i] = None \/ journal'[f].grants[i].closed
             THEN 0 ELSE @[i]]]]

Existing == {f \in Files : journal[f] # None}

\* Open: a new boot fences the old one.
Open(f) ==
    /\ boots < world.boots
    /\ journal[f] = None => Cardinality(Existing) < world.files
    /\ journal[f] # None => RetireFits(journal[f])
    /\ boots' = boots + 1
    /\ Commit(f, Opened(IF journal[f] = None THEN emptyJournal ELSE journal[f], boots + 1),
              [deadlines |-> [i \in Requests |-> 0], windows |-> [k \in Keys |-> 0],
               returning |-> None])
    /\ UNCHANGED <<world, nonces, issued, clock, policies, ledger, network, calls>>

\* A backup, or a clone, of a journal.
Copy(f, g) ==
    /\ Copies /\ journal[f] # None /\ journal[g] = None /\ Cardinality(Existing) < world.files
    /\ journal' = [journal EXCEPT ![g] = journal[f]]
    /\ UNCHANGED <<world, memory, boots, nonces, issued, clock, policies, ledger, network, calls>>

\* Reserve's first transaction.
Reserve(f, scope, bound) ==
    LET j == journal[f]
        m == memory[f]
        j1 == closeInactive(j, m, clock)
        unasked == Unasked(j1, m, scope, bound, clock)
        p == issued + 1
    IN  /\ Free(f) /\ j.ready /\ ~j.poisoned
        /\ IF \/ Current(j1, m, scope, clock) # Matching(j1, scope)
              \/ Unfunded(j1, m, scope, bound, clock) # {}
           THEN \E fresh \in [unasked -> (1..world.requests) \ nonces] :
                  /\ IsInjective(fresh)
                  /\ Commit(f, ReserveDenied(j, m, scope, fresh, bound, clock), m)
                  /\ nonces' = nonces \cup {fresh[k] : k \in unasked}
                  /\ UNCHANGED issued
           ELSE /\ p <= world.permits
                /\ issued' = p
                /\ Commit(f, ReserveRecorded(j, m, scope, p, bound, clock),
                          [m EXCEPT !.returning =
                             [permit |-> p, expires |-> ReserveExpires(j1, m, scope, bound, clock)]])
                /\ UNCHANGED nonces
        /\ UNCHANGED <<world, boots, clock, policies, ledger, network, calls>>

\* Reserve hands the permit out, and the call is dispatched.
Dispatch(f) ==
    /\ memory[f] # None /\ memory[f].returning # None
    /\ \A t \in memory[f].returning.expires : clock < t
    /\ LET p == memory[f].returning.permit
       IN  calls' = [calls EXCEPT ![p] =
             [grants |-> journal[f].permits[p].grants,
              meters |-> journal[f].permits[p].meters,
              bound |-> journal[f].permits[p].bound,
              at |-> clock, cost |-> journal[f].permits[p].bound, seen |-> 0]]
    /\ memory' = [memory EXCEPT ![f].returning = None]
    /\ UNCHANGED <<world, journal, boots, nonces, issued, clock, policies, ledger, network>>

\* Reserve finds that the permit expired while it was recorded and undoes it;
\* when its caller gives up first, the bound stays reserved until a restart.
Expire(f) ==
    /\ memory[f] # None /\ memory[f].returning # None
    /\ \E t \in memory[f].returning.expires : clock >= t
    /\ LET m == [memory[f] EXCEPT !.returning = None]
           p == memory[f].returning.permit
       IN  \/ Commit(f, ReserveUndone(journal[f], m, p, clock), m)
           \/ Cancels /\ Commit(f, journal[f], m)
    /\ UNCHANGED <<world, boots, nonces, issued, clock, policies, ledger, network, calls>>

\* Finish: the handler of a dispatched call settles its permit.
Finish(f, p, o) ==
    /\ Free(f) /\ calls[p] # None /\ Settles(journal[f], p)
    /\ IF SettlementFits(journal[f], p, o)
       THEN Commit(f, Finished(journal[f], memory[f], p, o, clock), memory[f])
       ELSE Commit(f, Poisoned(journal[f], p, o), memory[f])
    /\ calls' = [calls EXCEPT
         ![p].cost = IF o.complete /\ ~o.invalidUsage /\ o.actual # None
                     THEN Smaller(o.actual, calls[p].bound) ELSE @,
         ![p].seen = IF SettlementFits(journal[f], p, o) THEN ObservedBy(o) ELSE @]
    /\ UNCHANGED <<world, boots, nonces, issued, clock, policies, ledger, network>>

\* Request: the batch of the next heartbeat.
Request(f) ==
    /\ Free(f) /\ Cardinality(batches) < MaxFlight
    /\ \E j \in {Prepared(journal[f], memory[f], clock)} : \E b \in {Batch(j)} :
         /\ Commit(f, Requested(j, b), memory[f])
         /\ batches' = batches \cup {[b EXCEPT !.at = clock]}
    /\ UNCHANGED <<world, boots, nonces, issued, clock, policies, ledger, replies, calls>>

\* Apply: a reply reaches the process on file f.
Apply(f, r) ==
    /\ Free(f) /\ Accepts(journal[f], r)
    /\ \E m \in {AppliedMemory(journal[f], memory[f], r, clock)} :
         Commit(f, Applied(journal[f], m, r, clock), m)
    /\ UNCHANGED <<world, boots, nonces, issued, clock, policies, ledger, network, calls>>

-----------------------------------------------------------------------------
(* The authority: Sync of one batch, all of it or nothing. *)

\* policy.AuthorityBudgets at time t.
Budgets(t) ==
    [k \in Keys |-> IF policies[k] = NoBudget THEN NoBudget
                    ELSE [rev |-> policies[k].rev, limit |-> policies[k].limit,
                          grant |-> policies[k].grant, hard |-> policies[k].hard,
                          window |-> WindowOf(t)]]

InForce(a) == IF Budgets(clock)[a[1]] # NoBudget /\ WindowOf(clock) = a[2]
              THEN Budgets(clock)[a[1]] ELSE NoBudget

\* The tables as lockAccounts leaves them.
Locked ==
    [accounts |-> [a \in Accounts |->
        [accounts[a] EXCEPT !.acceptsMeters = @ \/ (InForce(a) # NoBudget /\ ~InForce(a).hard)]],
     rows |-> rows, meters |-> meters]

ReportStep(b, states, i) ==
    UNION {LET g == s.rows[i] IN
           IF g = NoRow THEN {}
           ELSE {[s EXCEPT !.accounts[g.acct] = o.acct, !.rows[i] = o.row] :
                   o \in ApplyReport(s.accounts[g.acct], g, b.reports[i],
                                     b.reports[i].boot # b.boot)}
           : s \in states}

MeterStep(b, states, x) ==
    UNION {{[s EXCEPT !.accounts[x[2]] = o.acct, !.meters[x] = o.row] :
              o \in ApplyMeter(s.accounts[x[2]], s.meters[x], b.meters[x], x[1] # b.boot)}
           : s \in states}

GrantStep(b, states, i) ==
    UNION {LET w == b.wants[i]
               asked == [acct |-> w.acct, rev |-> w.rev, want |-> w.want, amount |-> 0,
                         seq |-> 0, consumed |-> 0, observed |-> 0, closed |-> FALSE,
                         overrun |-> FALSE]
               g == IF s.rows[i] = NoRow THEN asked ELSE s.rows[i]
           IN  {[s EXCEPT !.accounts[w.acct] = o.acct, !.rows[i] = o.row] :
                  o \in IssueGrant(s.accounts[w.acct], g, asked, InForce(w.acct))}
           : s \in states}

\* The tables after the batch; none when Sync returns an error.
Synced(b) ==
    LET Report(states, i) == ReportStep(b, states, i)
        Meter(states, x)  == MeterStep(b, states, x)
        Grant(states, i)  == GrantStep(b, states, i)
        reported == FoldLeft(Report, {Locked}, Sorted(DOMAIN b.reports))
        metered  == FoldLeft(Meter, reported, SetToSeq(DOMAIN b.meters))
    IN  {s \in FoldLeft(Grant, metered, Sorted(DOMAIN b.wants)) :
           /\ \A i \in DOMAIN b.reports : WellFormedReport(b.reports[i])
           /\ \A x \in DOMAIN b.meters : WellFormedMeter(b.meters[x])
           /\ \A a \in Accounts : AddFits(s.accounts[a].hardEncumbered, s.accounts[a].softConsumed)}

\* expires_at of a grant issued now.
ExpiresNow == Smaller(clock + Lease, WindowEnd(WindowOf(clock)))

\* expires_at of every grant after the batch led to the tables s.
Expiries(s) ==
    [i \in Requests |-> IF s.rows[i] # NoRow /\ s.rows[i].amount > 0 /\ expires[i] = NoTime
                        THEN ExpiresNow ELSE expires[i]]

\* appendGrantResult: an open grant, else a denial.
Granted(b, s) == {i \in DOMAIN b.wants : s.rows[i].amount > 0 /\ ~s.rows[i].closed}

Denial(s, i) ==
    LET b == InForce(s.rows[i].acct)
    IN  IF s.rows[i].amount = 0 /\ b # NoBudget /\ b.rev = s.rows[i].rev /\ b.hard
        THEN "exhausted" ELSE "other"

Reply(b, s) ==
    [time |-> clock, at |-> b.at, budgets |-> Budgets(clock),
     grants |-> [i \in Granted(b, s) |->
                   [acct |-> s.rows[i].acct, rev |-> s.rows[i].rev,
                    amount |-> s.rows[i].amount, expires |-> Expiries(s)[i]]],
     denied |-> [i \in DOMAIN b.wants \ Granted(b, s) |-> Denial(s, i)],
     acks |-> [i \in DOMAIN b.reports |-> b.reports[i].seq],
     meterAcks |-> [x \in DOMAIN b.meters |-> b.meters[x].seq]]

Sync(b) ==
    /\ Cardinality(replies) < MaxFlight
    /\ \E s \in Synced(b) :
         /\ accounts' = s.accounts /\ rows' = s.rows /\ meters' = s.meters
         /\ expires' = Expiries(s)
         /\ replies' = replies \cup {Reply(b, s)}
    /\ UNCHANGED <<world, node, clock, policies, batches, calls>>

-----------------------------------------------------------------------------
(* The rest of the world. *)

LoseBatch ==
    /\ \E b \in batches : batches' = batches \ {b}
    /\ UNCHANGED <<world, node, clock, policies, ledger, replies, calls>>

LoseReply ==
    /\ \E r \in replies : replies' = replies \ {r}
    /\ UNCHANGED <<world, node, clock, policies, ledger, batches, calls>>

\* A policy write takes time: no two snapshots with the same timestamp differ.
WritePolicy(k, d) ==
    /\ policies[k] # d /\ clock < MaxTime
    /\ policies' = [policies EXCEPT ![k] = d]
    /\ clock' = clock + 1
    /\ UNCHANGED <<world, node, ledger, network, calls>>

Tick ==
    /\ clock < MaxTime
    /\ clock' = clock + 1
    /\ UNCHANGED <<world, node, policies, ledger, network, calls>>

Process(f) ==
    \/ Open(f)
    \/ \E scope \in Subjects, bound \in Bounds : Reserve(f, scope, bound)
    \/ Dispatch(f)
    \/ Expire(f)
    \/ \E p \in Permits, o \in Outcomes : Finish(f, p, o)
    \/ Request(f)
    \/ \E r \in replies : Apply(f, r)

Next ==
    \/ \E f \in Files : Process(f)
    \/ \E f, g \in Files : Copy(f, g)
    \/ \E b \in batches : Sync(b)
    \/ LoseBatch \/ LoseReply
    \/ \E k \in UNION Subjects, d \in Definitions : WritePolicy(k, d)
    \/ Tick

Spec == Init /\ [][Next]_vars

(***************************************************************************)
(* Heartbeats go on, a call in flight ends, an HTTP exchange that is tried *)
(* again and again succeeds some day and is given up after its timeout.    *)
(***************************************************************************)
Fairness ==
    /\ WF_vars(Tick)
    /\ \A f \in Files :
         /\ WF_vars(Request(f)) /\ WF_vars(Dispatch(f)) /\ WF_vars(Expire(f))
         /\ SF_vars(\E r \in replies : Apply(f, r))
         /\ \A p \in Permits : WF_vars(\E o \in Outcomes : Finish(f, p, o))
    /\ SF_vars(\E b \in batches : Sync(b))
    /\ WF_vars(LoseBatch) /\ WF_vars(LoseReply)

FairSpec == Spec /\ Fairness

-----------------------------------------------------------------------------
(* Properties. *)

Sum(S, F(_)) == FoldLeft(LAMBDA n, x : n + F(x), 0, SetToSeq(S))

(***************************************************************************)
(* A journal always explains itself: what a grant has reserved is the sum  *)
(* of the bounds of its unsettled permits, a grant with unsettled permits  *)
(* is open, it is never promised twice (spent and reserved fit in it       *)
(* unless a call overran), and decode accepts the snapshot: no             *)
(* acknowledgement runs ahead of what was sent and no permit refers to a   *)
(* grant or meter that was collected.                                      *)
(***************************************************************************)
JournalSound ==
    \A f \in Files : journal[f] # None =>
      LET j == journal[f]
          Using(i) == {p \in Pending(j) : i \in j.permits[p].grants}
      IN  /\ \A i \in Entries(j.grants) :
               LET g == j.grants[i]
               IN  /\ g.reserved = Sum(Using(i), LAMBDA p : j.permits[p].bound)
                   /\ g.pending = Cardinality(Using(i))
                   /\ g.pending > 0 => ~g.closed
                   /\ ~g.overrun => g.consumed + g.reserved <= g.amount
                   /\ g.ack <= g.sent /\ g.sent <= g.seq
          /\ \A p \in Pending(j) :
               /\ j.permits[p].grants \subseteq Entries(j.grants)
               /\ j.permits[p].meters \subseteq Entries(j.meters)

\* The calls that were admitted under grant i.
CallsOn(i) == {p \in Permits : calls[p] # None /\ i \in calls[p].grants}

\* What the calls under grant i may cost in the end, overruns aside.
Liability(i) == Sum(CallsOn(i), LAMBDA p : calls[p].cost)

(***************************************************************************)
(* The authority never lets go of escrow that a call may still cost: for   *)
(* every grant, what it holds of its account covers the bound of every     *)
(* call in flight or of unknown outcome and the cost of every other one,   *)
(* whatever was lost or repeated, however processes crashed, and also when *)
(* a journal was restored from a copy or runs next to its copy.  Under a   *)
(* soft budget, what the meter of a boot says, in the journal or, once     *)
(* that has collected it, in the authority's table, and the bounds of the  *)
(* permits that still refer to it cover its calls.                         *)
(***************************************************************************)
LiabilityCovered ==
    /\ \A i \in Requests : CallsOn(i) # {} =>
         rows[i] # NoRow /\ Liability(i) <= Contribution(rows[i])
    /\ \A x \in MeterIds :
         LET under == {p \in Permits : calls[p] # None /\ x \in calls[p].meters}
             kept  == {f \in Files : journal[f] # None /\ journal[f].meters[x] # None}
             Unsettled(f) == {p \in Pending(journal[f]) : x \in journal[f].permits[p].meters}
             spent == Sum(under, LAMBDA p : calls[p].cost)
         IN  IF kept = {} THEN spent <= meters[x].consumed
             ELSE \A f \in kept : spent <= journal[f].meters[x].consumed
                    + Sum(Unsettled(f), LAMBDA p : journal[f].permits[p].bound)

(***************************************************************************)
(* The hard cap: escrow covers every call of the whole fleet and, under a  *)
(* policy that stays as it is, the calls that stay within their bounds     *)
(* cost no more than the limit.                                            *)
(***************************************************************************)
SpendWithinLimit ==
    /\ LiabilityCovered
    /\ Cardinality(Definitions) = 1 => \A a \in Accounts :
         LET granted == {i \in Requests : rows[i] # NoRow /\ rows[i].acct = a}
         IN  Sum(granted, Liability) <= policies[a[1]].limit

(***************************************************************************)
(* No call is dispatched under a grant after the authority's own clock has *)
(* passed the grant's expiry, however long the reply took to arrive, the   *)
(* journal to commit, or a duplicate of the reply to turn up.              *)
(***************************************************************************)
NoAdmissionAfterExpiry ==
    \A p \in Permits : calls[p] # None =>
      \A i \in calls[p].grants : calls[p].at < expires[i]

(***************************************************************************)
(* Synchronization never gets stuck: whatever was lost, repeated, crashed  *)
(* or collected before, the batch that a node would send now is one that   *)
(* the authority accepts, and its reply is one that the node accepts.      *)
(***************************************************************************)
SyncNeverWedges ==
    \A f \in Files : Free(f) =>
      LET j == Prepared(journal[f], memory[f], clock)
          b == [Batch(j) EXCEPT !.at = clock]
      IN  \E s \in Synced(b) : Accepts(Requested(j, b), Reply(b, s))

(***************************************************************************)
(* The observed cost of settled calls is not forgotten: it is in the       *)
(* journal's grant until the authority holds exactly the same total in a   *)
(* closed row, across crashes, collection and repeated reports.            *)
(***************************************************************************)
KnownCostsKept ==
    \A i \in Requests : CallsOn(i) # {} =>
      LET seen == Sum(CallsOn(i), LAMBDA p : calls[p].seen)
          kept == {f \in Files : journal[f] # None /\ journal[f].grants[i] # None}
      IN  IF kept = {} THEN rows[i].closed /\ rows[i].observed = seen
          ELSE \A f \in kept : journal[f].grants[i].observed = seen

(***************************************************************************)
(* Unused escrow comes back: while a node keeps sending heartbeats, every  *)
(* grant that expires within the modelled time is closed in the end, even  *)
(* if the reply with the grant or the report of its closure is lost any    *)
(* number of times.  (Unless Cancels: then an unsettled permit keeps its   *)
(* grant open until the next boot.)                                        *)
(***************************************************************************)
EscrowReturns ==
    \A i \in Requests :
      (rows[i] # NoRow /\ rows[i].amount > 0 /\ expires[i] <= MaxTime) ~> (rows[i] # NoRow /\ rows[i].closed)
====
