---------------------------- MODULE NodeJournal ----------------------------
(***************************************************************************)
(* The node-local escrow journal (internal/authority/local): one versioned *)
(* snapshot that every operation reads and replaces in one SQLite          *)
(* transaction.  The operators here are the transitions of that snapshot;  *)
(* EscrowFleet runs them in processes that crash, share a network with the *)
(* authority and may be started from copies of a journal.                  *)
(*                                                                         *)
(* A grant is named by the request it answers (the authority issues at     *)
(* most one grant per request).  Nonces are numbers that are never used    *)
(* twice; a nonce may sort before or after the earlier ones.  Text, JSON,  *)
(* hashes and the batch cursors are left out: a batch of the model always  *)
(* has room.  Sequence numbers are unbounded, amounts are not.             *)
(***************************************************************************)
EXTENDS LedgerRules, SequencesExt

CONSTANTS MaxKey,          \* budget keys are 1..MaxKey
          MaxWindow,       \* budget windows are 0..MaxWindow
          WindowLength,    \* clock ticks in a window
          Lease,           \* LeaseSeconds, in clock ticks
          MaxBoot,         \* process starts are 1..MaxBoot
          MaxRequest,      \* grant request nonces are 1..MaxRequest
          MaxPermit,       \* permit nonces are 1..MaxPermit
          CompletedLimit,  \* completedReceiptLimit
          ReceiptLimit,    \* replayReceiptLimit
          ObsoleteLimit,   \* obsoleteRequestLimit
          None             \* an absent map entry, an unknown cost

Keys     == 1..MaxKey
Windows  == 0..MaxWindow
Boots    == 1..MaxBoot
Requests == 1..MaxRequest
Permits  == 1..MaxPermit
Accounts == Keys \X Windows
MeterIds == Boots \X Accounts

WindowOf(t)  == t \div WindowLength
WindowEnd(w) == (w + 1) * WindowLength

ASSUME JournalAssumption ==
    /\ MaxKey \in Nat /\ MaxWindow \in Nat /\ MaxBoot \in Nat
    /\ MaxRequest \in Nat /\ MaxPermit \in Nat
    /\ WindowLength \in Nat \ {0} /\ Lease \in Nat \ {0}
    /\ CompletedLimit \in Nat /\ ReceiptLimit \in Nat /\ ObsoleteLimit \in Nat

\* The zero time.Time.
NoTime == -1

emptyJournal ==
    [owner |-> 0, ready |-> FALSE, poisoned |-> FALSE, serverTime |-> NoTime,
     budgets |-> [k \in Keys |-> NoBudget],
     grants |-> [i \in Requests |-> None], requests |-> [i \in Requests |-> None],
     permits |-> [p \in Permits |-> None], meters |-> [x \in MeterIds |-> None],
     receipts |-> <<>>, completed |-> <<>>, obsolete |-> <<>>]

\* Op(x); TLC evaluates x once, also inside ENABLED.
On(x, Op(_)) == CHOOSE y \in {Op(z) : z \in {x}} : TRUE

Entries(map) == {x \in DOMAIN map : map[x] # None}

\* sortedKeys.
Sorted(S) == SetToSortSeq(S, LAMBDA a, b : a < b)

-----------------------------------------------------------------------------
(* Collection (gc.go): the end of every transaction. *)

\* remember: a receipt replaces the one with its id; the oldest ones go.
Remember(receipts, r) ==
    LET old  == {n \in DOMAIN receipts : receipts[n].id = r.id}
        kept == IF old = {} THEN Append(receipts, r)
                ELSE [n \in DOMAIN receipts |-> IF n \in old THEN r ELSE receipts[n]]
    IN  SubSeq(kept, Larger(1, Len(kept) - ReceiptLimit + 1), Len(kept))

ReceiptsOf(j, id) == {r \in ToSet(j.receipts) : r.id = id}

\* The last limit members of the old order that are still wanted, then new ones.
Queued(order, wanted, limit) ==
    LET kept == SelectSeq(order, LAMBDA x : x \in wanted)
        all  == kept \o Sorted(wanted \ ToSet(kept))
    IN  SubSeq(all, Larger(1, Len(all) - limit + 1), Len(all))

Pending(j) == {p \in Entries(j.permits) : ~j.permits[p].done}

collectPermits(j) ==
    LET order == Queued(j.completed, Entries(j.permits) \ Pending(j), CompletedLimit)
        kept  == Pending(j) \cup ToSet(order)
    IN  [j EXCEPT
           !.completed = order,
           !.permits = [p \in Permits |->
               CASE p \notin kept -> None
                 [] p \in Pending(j) -> @[p]
                 [] OTHER -> [@[p] EXCEPT !.grants = {}, !.meters = {}]]]

\* Mutant: a closed grant goes before its last report is acknowledged.
FinalizedUnacked(j, i) ==
    /\ j.grants[i].closed /\ j.grants[i].pending = 0 /\ j.grants[i].reserved = 0
    /\ j.grants[i].ack > 0
    /\ \A p \in Pending(j) : i \notin j.permits[p].grants

\* Nothing is left to do for the grant.
Finalized(j, i) ==
    /\ j.grants[i].closed /\ j.grants[i].pending = 0 /\ j.grants[i].reserved = 0
    /\ j.grants[i].ack = j.grants[i].seq
    /\ \A p \in Pending(j) : i \notin j.permits[p].grants

collectGrants(j) ==
    LET gone == {i \in Entries(j.grants) : Finalized(j, i)}
        Note(rs, i) == Remember(rs, [id |-> <<"grant", i>>, seq |-> j.grants[i].seq])
    IN  [j EXCEPT
           !.receipts = FoldLeft(Note, @, Sorted(gone)),
           !.requests = [i \in Requests |-> IF i \in gone THEN None ELSE @[i]],
           !.grants = [i \in Requests |-> IF i \in gone THEN None ELSE @[i]]]

collectMeters(j) ==
    LET gone == {x \in Entries(j.meters) :
                   /\ x[1] # j.owner \/ j.serverTime >= WindowEnd(x[2][2])
                   /\ \A p \in Pending(j) : x \notin j.permits[p].meters
                   /\ j.meters[x].ack = j.meters[x].seq}
        Note(rs, x) == Remember(rs, [id |-> <<"meter", x>>, seq |-> j.meters[x].seq])
    IN  [j EXCEPT !.receipts = FoldLeft(Note, @, SetToSeq(gone)),
                  !.meters = [x \in MeterIds |-> IF x \in gone THEN None ELSE @[x]]]

\* collectObsoleteRequests: what an unanswered obsolete request waits for.
collectObsoleteRequests(j) ==
    LET unanswered == {i \in Entries(j.requests) :
                         j.requests[i].obsolete /\ ~j.requests[i].granted}
        waiting == {i \in unanswered :
                      /\ j.requests[i].sent
                      /\ j.requests[i].denied = "" \/ j.requests[i].pendingReply
                      /\ j.serverTime < WindowEnd(j.requests[i].budget.window)}
        order == Queued(j.obsolete, waiting, ObsoleteLimit)
    IN  [j EXCEPT !.obsolete = order,
                  !.requests = [i \in Requests |->
                      IF i \in unanswered \ ToSet(order) THEN None ELSE @[i]]]

collect(j) ==
    On(On(On(On(j, collectPermits), collectGrants), collectMeters), collectObsoleteRequests)

-----------------------------------------------------------------------------
(* Grants.  The process m keeps lease and window deadlines in memory.      *)
(* budgets[k] is the definition in force and the window it is in force     *)
(* for; a permit or a grant carries the boot that made it.                 *)

sameDefinition(r, b) == b # NoBudget /\ r.rev = b.rev /\ r.window = b.window

usable(j, g, deadline, now) ==
    /\ g.boot = j.owner /\ ~g.closed /\ ~g.overrun
    /\ j.budgets[g.acct[1]] # NoBudget
    /\ g.rev = j.budgets[g.acct[1]].rev /\ g.acct[2] = j.budgets[g.acct[1]].window
    /\ g.consumed + g.reserved <= g.amount
    /\ now < deadline

\* closeGrant: the whole remainder goes back with the next report.
closeGrant(g) == [g EXCEPT !.closed = TRUE, !.seq = @ + 1]

\* Close the idle open grants in S.
CloseIdle(j, S) ==
    [j EXCEPT !.grants = [i \in Requests |->
        IF i \in S /\ ~@[i].closed /\ @[i].pending = 0 THEN closeGrant(@[i]) ELSE @[i]]]

closeInactive(j, m, now) ==
    CloseIdle(j, {i \in Entries(j.grants) :
                    ~(/\ usable(j, j.grants[i], m.deadlines[i], now)
                      /\ j.budgets[j.grants[i].acct[1]].hard)})

-----------------------------------------------------------------------------
(* Admission (admission.go).  scope is the set of budget keys that match   *)
(* the subject of the call, bound the most that the call may cost.         *)

Matching(j, scope) == {k \in scope : j.budgets[k] # NoBudget}

\* The budgets whose window has not ended yet.
Current(j, m, scope, now) == {k \in Matching(j, scope) : now < m.windows[k]}

Hard(j, m, scope, now) ==
    {k \in Current(j, m, scope, now) : j.budgets[k].hard}

UsableFor(j, k, m, now) ==
    {i \in Entries(j.grants) :
       j.grants[i].acct[1] = k /\ usable(j, j.grants[i], m.deadlines[i], now)}

\* Mutant: a reservation may use credit that is already reserved.
RoomBeforeReserved(g, bound) == g.amount - g.consumed > 0 /\ g.amount - g.consumed >= bound

Room(g, bound) ==
    LET available == g.amount - g.consumed - g.reserved
    IN  available > 0 /\ available >= bound

\* The first grant of the key that has room for the bound, if any.
Chosen(j, k, m, bound, now) ==
    LET fit == {i \in UsableFor(j, k, m, now) : Room(j.grants[i], bound)}
    IN  {i \in fit : \A other \in fit : i <= other}

\* The grants that Reserve looks at and finds too small on its way.
TooSmall(j, k, m, bound, now) ==
    {i \in UsableFor(j, k, m, now) :
       /\ ~Room(j.grants[i], bound)
       /\ \A c \in Chosen(j, k, m, bound, now) : i < c}

\* Mutant: a request that was already sent is raised.
ReusableSent(j, k, bound) ==
    LET open == {i \in Entries(j.requests) :
                   /\ j.requests[i].boot = j.owner /\ j.requests[i].key = k
                   /\ ~j.requests[i].obsolete /\ ~j.requests[i].granted
                   /\ sameDefinition(j.requests[i].budget, j.budgets[k])}
    IN  {i \in open : \A other \in open : i <= other}

\* queue: the request of this boot that already asks for enough, or that was
\* not sent yet and may still ask for more.
Reusable(j, k, bound) ==
    LET open == {i \in Entries(j.requests) :
                   /\ j.requests[i].boot = j.owner /\ j.requests[i].key = k
                   /\ ~j.requests[i].obsolete /\ ~j.requests[i].granted
                   /\ sameDefinition(j.requests[i].budget, j.budgets[k])
                   /\ j.requests[i].want >= Larger(bound, 1) \/ ~j.requests[i].sent}
    IN  {i \in open : \A other \in open : i <= other}

\* The hard budgets for which Reserve finds no credit, and those for which it
\* also needs a request of its own.
Unfunded(j, m, scope, bound, now) ==
    {k \in Hard(j, m, scope, now) : Chosen(j, k, m, bound, now) = {}}

Unasked(j, m, scope, bound, now) ==
    {k \in Unfunded(j, m, scope, bound, now) : Reusable(j, k, bound) = {}}

newRequest(j, k, bound) ==
    [key |-> k, budget |-> j.budgets[k], boot |-> j.owner, want |-> Larger(bound, 1),
     sent |-> FALSE, granted |-> FALSE, denied |-> "", obsolete |-> FALSE,
     pendingReply |-> FALSE]

\* The requests after queue ran for the keys in need; fresh names the new ones.
QueuedRequests(j, need, fresh, bound) ==
    [i \in Requests |->
       IF \E k \in need : i \in Reusable(j, k, bound)
       THEN [j.requests[i] EXCEPT !.want = Larger(@, bound)]
       ELSE IF \E k \in DOMAIN fresh : fresh[k] = i
       THEN newRequest(j, CHOOSE k \in DOMAIN fresh : fresh[k] = i, bound)
       ELSE j.requests[i]]

\* Reserve, when some matching budget is not funded: commit the queued wants
\* and the closures of settled grants, and reserve nothing.
ReserveDenied(j, m, scope, fresh, bound, now) ==
    LET j1   == closeInactive(j, m, now)
        j2   == CloseIdle(j1, UNION {TooSmall(j1, k, m, bound, now) :
                                       k \in Hard(j1, m, scope, now)})
        need == Unfunded(j1, m, scope, bound, now)
    IN  collect([j2 EXCEPT !.requests = QueuedRequests(j2, need, fresh, bound)])

\* Reserve, when every matching budget is funded: the whole bound is reserved
\* from one grant of each hard budget and recorded under permit p.
ReserveRecorded(j, m, scope, p, bound, now) ==
    LET j1     == closeInactive(j, m, now)
        j2     == CloseIdle(j1, UNION {TooSmall(j1, k, m, bound, now) :
                                         k \in Hard(j1, m, scope, now)})
        chosen == UNION {Chosen(j1, k, m, bound, now) : k \in Hard(j1, m, scope, now)}
        soft   == Current(j1, m, scope, now) \ Hard(j1, m, scope, now)
        mine   == {<<j.owner, <<k, j.budgets[k].window>>>> : k \in soft}
    IN  collect([j2 EXCEPT
          !.grants = [i \in Requests |->
              IF i \in chosen THEN [@[i] EXCEPT !.reserved = @ + bound, !.pending = @ + 1]
              ELSE @[i]],
          !.meters = [x \in MeterIds |->
              IF x \in mine /\ @[x] = None
              THEN [seq |-> 1, consumed |-> 0, observed |-> 0, ack |-> 0, sent |-> 0]
              ELSE @[x]],
          !.permits[p] = [boot |-> j.owner, bound |-> bound, grants |-> chosen,
                          meters |-> mine, done |-> FALSE, retired |-> FALSE]])

\* The deadline after which the reservation may not be handed out any more.
ReserveExpires(j, m, scope, bound, now) ==
    {m.windows[k] : k \in Matching(j, scope)} \cup
    {m.deadlines[i] : i \in UNION {Chosen(j, k, m, bound, now) : k \in Hard(j, m, scope, now)}}

\* Reserve's second transaction: the permit expired before anyone saw it.
ReserveUndone(j, m, p, now) ==
    LET undone == [j EXCEPT
          !.grants = [i \in Requests |->
              IF i \in j.permits[p].grants
              THEN [@[i] EXCEPT !.reserved = @ - j.permits[p].bound, !.pending = @ - 1]
              ELSE @[i]],
          !.permits[p].done = TRUE]
    IN  collect(On(undone, LAMBDA x : closeInactive(x, m, now)))

-----------------------------------------------------------------------------
(* Settlement.  An outcome is the observed cost (None: unknown), whether   *)
(* the call is known to be complete, and whether its usage was invalid.    *)

ConsumedBy(bound, o) ==
    IF o.actual # None /\ ((o.complete /\ ~o.invalidUsage) \/ o.actual > bound)
    THEN o.actual ELSE bound

ObservedBy(o) == IF o.actual = None THEN 0 ELSE o.actual

Overruns(bound, o) == o.invalidUsage \/ ObservedBy(o) > bound

\* Finish changes nothing for a permit that is unknown, settled (a retry gets
\* its first outcome or an error), retired, or from another boot.
Settles(j, p) ==
    /\ j.permits[p] # None /\ ~j.permits[p].retired
    /\ ~j.permits[p].done
    /\ j.permits[p].boot = j.owner

\* The sums of every grant and meter of the permit stay within an int64.
SettlementFits(j, p, o) ==
    LET consumed == ConsumedBy(j.permits[p].bound, o)
    IN  /\ \A i \in j.permits[p].grants :
             /\ AddFits(j.grants[i].consumed, consumed)
             /\ AddFits(j.grants[i].observed, ObservedBy(o))
        /\ \A x \in j.permits[p].meters :
             /\ AddFits(j.meters[x].consumed, consumed)
             /\ AddFits(j.meters[x].observed, ObservedBy(o))

SettledRow(g, bound, o) ==
    [g EXCEPT !.consumed = @ + ConsumedBy(bound, o),
              !.observed = @ + ObservedBy(o),
              !.reserved = @ - bound,
              !.pending = @ - 1,
              !.overrun = @ \/ Overruns(bound, o),
              !.closed = (g.overrun \/ Overruns(bound, o)) /\ g.pending = 1,
              !.seq = @ + 1]

Finished(j, m, p, o, now) ==
    LET bound == j.permits[p].bound
        settled == [j EXCEPT
          !.grants = [i \in Requests |-> IF i \in j.permits[p].grants
                                         THEN SettledRow(@[i], bound, o) ELSE @[i]],
          !.meters = [x \in MeterIds |->
              IF x \in j.permits[p].meters
              THEN [@[x] EXCEPT !.consumed = @ + ConsumedBy(bound, o),
                                !.observed = @ + ObservedBy(o), !.seq = @ + 1]
              ELSE @[x]],
          !.permits[p].done = TRUE,
          !.poisoned = @ \/ Overruns(bound, o)]
    IN  collect(On(settled, LAMBDA x : closeInactive(x, m, now)))

\* The sums do not fit: keep the reservation and stop admitting for good.
Poisoned(j, p, o) ==
    collect([j EXCEPT !.poisoned = TRUE, !.permits[p].retired = TRUE,
                      !.grants = [i \in Requests |->
                          IF i \in j.permits[p].grants
                          THEN [@[i] EXCEPT !.overrun = @ \/ o.invalidUsage] ELSE @[i]]])

-----------------------------------------------------------------------------
(* A new boot (store.go). *)

\* Each unsettled call of the earlier boot is charged its bound.
RetireMeter(j, x) ==
    LET owed == {p \in Pending(j) : x \in j.permits[p].meters}
        Add(n, p) == n + j.permits[p].bound
    IN  [j.meters[x] EXCEPT !.consumed = FoldLeft(Add, @, Sorted(owed)),
                            !.seq = @ + Cardinality(owed)]

\* Mutant: calls in flight are forgotten.
RetireForgotten(g) ==
    [g EXCEPT !.closed = TRUE, !.reserved = 0, !.pending = 0, !.seq = @ + 1]

\* Every grant of an earlier boot is burned in full.
RetireGrant(g) ==
    [g EXCEPT !.consumed = Larger(@, g.amount), !.closed = TRUE, !.reserved = 0, !.pending = 0,
              !.seq = @ + 1]

\* Otherwise the journal cannot be opened.
RetireFits(j) == \A x \in Entries(j.meters) : RetireMeter(j, x).consumed <= MaxInt64

retire(j) ==
    [j EXCEPT
       !.permits = [p \in Permits |-> IF p \in Pending(j)
                      THEN [@[p] EXCEPT !.done = TRUE, !.retired = TRUE] ELSE @[p]],
       !.grants = [i \in Requests |-> IF @[i] = None THEN None ELSE RetireGrant(@[i])],
       !.meters = [x \in MeterIds |-> IF @[x] = None THEN None ELSE RetireMeter(j, x)],
       !.requests = [i \in Requests |-> IF @[i] = None THEN None
                                        ELSE [@[i] EXCEPT !.obsolete = TRUE]]]

\* initialize: boot b takes the journal over.
Opened(j, b) ==
    collect([retire(j) EXCEPT !.owner = b, !.ready = FALSE, !.serverTime = NoTime,
                              !.budgets = [k \in Keys |-> NoBudget]])

-----------------------------------------------------------------------------
(* Synchronization (sync.go). *)

\* The requests that a batch carries.
Wanting(j) ==
    {i \in Entries(j.requests) :
       /\ j.requests[i].boot = j.owner /\ ~j.requests[i].obsolete /\ ~j.requests[i].granted
       /\ sameDefinition(j.requests[i].budget, j.budgets[j.requests[i].key])}

\* Mutant: a report is sent once, even if it is never acknowledged.
ReportableOnce(j) ==
    {i \in Entries(j.grants) :
       /\ j.grants[i].sent # j.grants[i].seq
       /\ ~(j.grants[i].overrun /\ ~j.grants[i].closed)}

\* The grants and meters with something to report.
Reportable(j) ==
    {i \in Entries(j.grants) :
       /\ j.grants[i].ack # j.grants[i].seq
       /\ ~(j.grants[i].overrun /\ ~j.grants[i].closed)}

Metered(j) == {x \in Entries(j.meters) : j.meters[x].ack # j.meters[x].seq}

\* The batch that Request returns for the journal j it leaves behind.
Batch(j) ==
    [boot    |-> j.owner, at |-> NoTime,
     wants   |-> [i \in Wanting(j) |->
                    [acct |-> <<j.requests[i].key, j.requests[i].budget.window>>,
                     rev |-> j.requests[i].budget.rev, want |-> j.requests[i].want]],
     reports |-> [i \in Reportable(j) |->
                    [boot |-> j.grants[i].boot, seq |-> j.grants[i].seq,
                     consumed |-> j.grants[i].consumed, observed |-> j.grants[i].observed,
                     closed |-> j.grants[i].closed, overrun |-> j.grants[i].overrun]],
     meters  |-> [x \in Metered(j) |->
                    [seq |-> j.meters[x].seq, consumed |-> j.meters[x].consumed,
                     observed |-> j.meters[x].observed]]]

\* The journal that the batch is taken from.
Prepared(j, m, now) == closeInactive(j, m, now)

\* Request: the journal after the batch b was taken from j.
Requested(j, b) ==
    collect([j EXCEPT
      !.requests = [i \in Requests |-> IF i \in DOMAIN b.wants
                      THEN [@[i] EXCEPT !.sent = TRUE, !.pendingReply = TRUE] ELSE @[i]],
      !.grants = [i \in Requests |-> IF i \in DOMAIN b.reports
                    THEN [@[i] EXCEPT !.sent = j.grants[i].seq] ELSE @[i]],
      !.meters = [x \in MeterIds |-> IF x \in DOMAIN b.meters
                    THEN [@[x] EXCEPT !.sent = j.meters[x].seq] ELSE @[x]]])

validateGrant(j, i, g, serverTime) ==
    /\ j.requests[i] # None /\ j.requests[i].sent /\ j.requests[i].budget.hard
    /\ g.acct = <<j.requests[i].key, j.requests[i].budget.window>>
    /\ g.rev = j.requests[i].budget.rev
    /\ g.amount >= j.requests[i].want /\ g.amount > 0
    /\ g.amount <= Larger(j.requests[i].budget.grant, j.requests[i].want)
    /\ g.amount <= j.requests[i].budget.limit
    /\ g.expires > WindowEnd(g.acct[2] - 1) /\ g.expires <= serverTime + Lease

\* The acknowledgement of sequence number n is one that this journal sent.
validAck(j, map, id, x, n) ==
    IF map[x] # None THEN n <= map[x].sent
    ELSE \E r \in ReceiptsOf(j, id) : n <= r.seq

\* Mutant: the time the reply took is not subtracted.
deadlineWithoutTrip(now, serverTime, expiry, rtt) ==
    IF expiry <= serverTime THEN now ELSE now + (expiry - serverTime)

deadline(now, serverTime, expiry, rtt) ==
    IF expiry <= serverTime \/ rtt >= expiry - serverTime THEN now
    ELSE now + (expiry - serverTime) - rtt

(* A reply holds the server's time, the budgets in force, a grant or a     *)
(* denial for every request and an acknowledgement for every report.       *)

Stale(j, r) == r.time < j.serverTime

Advances(j, r) == ~j.ready \/ r.time > j.serverTime

\* Apply commits the reply; otherwise it returns an error and changes nothing.
Accepts(j, r) ==
    /\ Stale(j, r) \/ Advances(j, r) \/ j.budgets = r.budgets
    /\ \A i \in DOMAIN r.grants :
         ReceiptsOf(j, <<"grant", i>>) # {} \/ validateGrant(j, i, r.grants[i], r.time)
    /\ \A i \in DOMAIN r.denied : j.requests[i] # None /\ j.requests[i].sent
    /\ \A i \in DOMAIN r.acks : validAck(j, j.grants, <<"grant", i>>, i, r.acks[i])
    /\ \A x \in DOMAIN r.meterAcks :
         validAck(j, j.meters, <<"meter", x>>, x, r.meterAcks[x])

\* Apply, step 1: a newer snapshot replaces the budgets and window deadlines.
Snapshot(j, r) ==
    IF Stale(j, r) \/ ~Advances(j, r) THEN j
    ELSE [j EXCEPT !.budgets = r.budgets, !.serverTime = r.time, !.ready = TRUE]

SnapshotWindows(j, m, r, now) ==
    IF Stale(j, r) \/ ~Advances(j, r) THEN m.windows
    ELSE [k \in Keys |-> IF r.budgets[k] = NoBudget THEN 0
                         ELSE deadline(now, r.time, WindowEnd(r.budgets[k].window), now - r.at)]

\* Step 2: the grants that the journal does not know yet.
NewGrants(j, r) ==
    {i \in DOMAIN r.grants : ReceiptsOf(j, <<"grant", i>>) = {} /\ j.grants[i] = None}

Until(j, r, i, now) ==
    deadline(now, r.time,
             Smaller(r.grants[i].expires, WindowEnd(j.requests[i].budget.window)), now - r.at)

\* The grant can be used: it was asked for by this boot under the definition
\* that is in force (j1 is j with the reply's snapshot) and has time left.
Spendable(j, j1, r, i, now) ==
    LET q == j.requests[i]
    IN  /\ q.boot = j.owner /\ ~Stale(j, r) /\ ~q.obsolete
        /\ sameDefinition(q.budget, j1.budgets[q.key]) /\ j1.budgets[q.key].hard
        /\ now < Until(j, r, i, now)

newGrant(j, j1, r, i, now) ==
    LET mine == j.requests[i].boot = j.owner
    IN  [acct |-> r.grants[i].acct, rev |-> r.grants[i].rev, amount |-> r.grants[i].amount,
         boot |-> j.requests[i].boot, consumed |-> IF mine THEN 0 ELSE r.grants[i].amount,
         observed |-> 0, reserved |-> 0, pending |-> 0,
         closed |-> ~Spendable(j, j1, r, i, now), overrun |-> FALSE,
         seq |-> 1, ack |-> 0, sent |-> 0]

\* Step 3: denials, acknowledgements, and what the new budgets make obsolete.
AnsweredRequest(j, j1, r, i) ==
    LET q == j.requests[i]
        answered == IF i \in NewGrants(j, r)
                    THEN [q EXCEPT !.granted = TRUE, !.denied = "", !.pendingReply = FALSE]
                    ELSE IF i \in DOMAIN r.denied /\ ~q.granted /\ ~Stale(j, r)
                    THEN [q EXCEPT !.denied = r.denied[i], !.pendingReply = FALSE]
                    ELSE q
    IN  [answered EXCEPT !.obsolete = @ \/ ~sameDefinition(q.budget, j1.budgets[q.key])]

Acknowledged(row, acks, x) ==
    IF x \in DOMAIN acks THEN [row EXCEPT !.ack = Larger(@, acks[x])] ELSE row

AppliedMemory(j, m, r, now) ==
    LET j1 == Snapshot(j, r)
    IN  [m EXCEPT
           !.deadlines = [i \in Requests |->
               IF i \in NewGrants(j, r) /\ Spendable(j, j1, r, i, now)
               THEN Until(j, r, i, now) ELSE @[i]],
           !.windows = SnapshotWindows(j, m, r, now)]

\* Steps 1 to 3, before the last look at the grants.
Answered(j, r, now) ==
    LET j1 == Snapshot(j, r)
    IN  [j1 EXCEPT
          !.grants = [i \in Requests |->
              IF i \in NewGrants(j, r) THEN newGrant(j, j1, r, i, now)
              ELSE IF @[i] = None THEN None ELSE Acknowledged(@[i], r.acks, i)],
          !.requests = [i \in Requests |-> IF @[i] = None THEN None
                                           ELSE AnsweredRequest(j, j1, r, i)],
          !.meters = [x \in MeterIds |-> IF @[x] = None THEN None
                                         ELSE Acknowledged(@[x], r.meterAcks, x)]]

\* Step 4: idle grants that the budgets or the clock have overtaken.
CloseOvertaken(j, m, now) ==
    LET Overtaken(i) == LET g == j.grants[i] b == j.budgets[g.acct[1]]
                        IN  \/ b = NoBudget
                            \/ ~b.hard \/ g.rev # b.rev \/ g.acct[2] # b.window
                            \/ now >= m.deadlines[i]
    IN  CloseIdle(j, {i \in Entries(j.grants) : Overtaken(i)})

\* Apply, with the process's memory m after it.
Applied(j, m, r, now) ==
    collect(On(Answered(j, r, now), LAMBDA x : CloseOvertaken(x, m, now)))
=============================================================================
