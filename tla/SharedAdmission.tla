--------------------------- MODULE SharedAdmission ---------------------------
(***************************************************************************)
(* Shared governance (ADR-046): internal/authority/pgstore/shared*.go and  *)
(* internal/server/requestpolicy/shared.go.  Every gateway replica         *)
(* reserves all limits that apply to a provider attempt in one Postgres    *)
(* transaction and settles the permit in another one.                      *)
(*                                                                         *)
(* ReserveShared is two steps, because time passes while it waits for row  *)
(* locks: Begin takes the SHARE lock on the definitions and derives the    *)
(* limits, Commit has the rows, reads the clock again and books or rolls   *)
(* back.  A settlement reads only rows it has locked and is one step.      *)
(* Policy money is booked in the accounts of the ADR-045 ledger too, whose *)
(* grants (LedgerRules) draw on them at the same time.                     *)
(*                                                                         *)
(* A limit is [key, kind, limit, hard, period, money]: period 0 is a rate  *)
(* bucket.  A tick refills `limit' units of debt, Scale ticks one minute.  *)
(* An optional number is a set with at most one member.                    *)
(***************************************************************************)
EXTENDS LedgerRules, FiniteSetsExt, Sequences, SequencesExt, TLC

CONSTANTS Worlds,      \* scenarios: [policies, limits, expires,
                       \* horizon (last tick), usages, wants]
          Attempts,    \* provider attempts of all gateways
          Scale,       \* debt units of one token (sharedRateScale)
          Window,      \* the model's context window in tokens
          NoPermit, NoGrant

ASSUME SharedAssumption ==
    Scale \in Nat \ {0} /\ Window \in Nat \ {0}

VARIABLES world,       \* the scenario, fixed at the start
          now,         \* clock_timestamp()
          gen,         \* the stored policies: an index of world.policies
          rev,         \* the stored key and team: an index of world.limits
          counters,    \* table shared_counters
          segments,    \* table shared_rate_segments, oldest first
          accounts,    \* table authority_accounts
          grant,       \* an ADR-045 grant row on one of them
          permits,     \* tables shared_permits and shared_bookings
          attempt      \* where each attempt is and the snapshot it holds

tables == <<counters, segments, accounts, permits>>
vars   == <<world, now, gen, rev, tables, grant, attempt>>

\* Input, output, cache reads and the two lifetimes of cache writes.
TokenBound == 5 * Window
CostBound  == 5 * Window

NewCounter(rate) ==
    [used |-> 0, reserved |-> 0, debt |-> 0, rate |-> rate, updated |-> now,
     frozen |-> FALSE]

NewSharedAccount(soft) ==
    [hardEncumbered |-> 0, hardConsumed |-> 0, softConsumed |-> 0,
     softPending |-> 0, acceptsMeters |-> soft, frozen |-> FALSE]

Row(table, i, fresh) == IF i \in DOMAIN table THEN table[i] ELSE fresh

-----------------------------------------------------------------------------
(* The limits of a subject. *)

IsRate(kind) == kind \in {"rpm", "tpm"}

Rate(d) == IF IsRate(d.kind) THEN d.limit ELSE 0

Bound(d) ==
    CASE d.kind = "rpm" -> 1
      [] d.kind = "microUSD" -> CostBound
      [] OTHER -> TokenBound

\* The window of period p that time t lies in; a bucket has none.
SharedWindow(p, t) == IF p = 0 THEN 0 ELSE t \div p

Id(d, t) == <<d.key, SharedWindow(d.period, t)>>

\* sharedDefinitions: a zero limit of a key, a team or a rate rule is no limit.
SharedDefinitions(g, v) ==
    {d \in world.policies[g] \cup world.limits[v] : d.limit # 0 \/ d.money}

Current == SharedDefinitions(gen, rev)

-----------------------------------------------------------------------------
(* Rate buckets. *)

\* Mutant: a tick that has only started refills too.
RefillEarly(c, rate) ==
    LET due == IF c.rate > 0
               THEN Smaller((now + 1 - c.updated) * Smaller(c.rate, rate), c.debt)
               ELSE 0
    IN  [c EXCEPT !.debt = @ - due, !.rate = rate, !.updated = now]

\* refill: elapsed time at the slower of the stored and the present limit.
Refill(c, rate) ==
    LET due == IF c.rate > 0
               THEN Smaller((now - c.updated) * Smaller(c.rate, rate), c.debt)
               ELSE 0
    IN  [c EXCEPT !.debt = @ - due, !.rate = rate, !.updated = now]

Owed(segs) == MapThenSumSet(LAMBDA j : segs[j].remaining, DOMAIN segs)

Live(segs) == SelectSeq(segs, LAMBDA s : s.remaining > 0)

\* refillSharedRate: the oldest debt is retired first.
RetireOldest(segs, retired) ==
    Live([j \in DOMAIN segs |->
            [segs[j] EXCEPT !.remaining =
               Larger(0, @ - Larger(0, retired - Owed(SubSeq(segs, 1, j - 1))))]])

\* returnSharedRate: own is what refill left of the booking's debt.
Release(own, refund) == Smaller(refund * Scale, own)

-----------------------------------------------------------------------------
(* What a provider's usage says (settleShared).  A usage is                *)
(* [input, output, read, creation, split, uncertain], where the split of   *)
(* cache writes by lifetime is optional and so are its two parts.          *)

ValueOf(o) == IF o = {} THEN 0 ELSE CHOOSE n \in o : TRUE

SplitCounts(u) == UNION {s.m5 \cup s.h1 : s \in u.split}

OutOfRange(u) ==
    \E n \in u.input \cup u.output \cup u.read \cup u.creation \cup SplitCounts(u) :
        n \notin 0..Window

Measured(u) == ~u.uncertain /\ u.input # {} /\ u.output # {}

SplitSum(u) == MapThenSumSet(LAMBDA s : ValueOf(s.m5) + ValueOf(s.h1), u.split)

FullSplit(u) == \E s \in u.split : s.m5 # {} /\ s.h1 # {}

\* authorityUsage and authorityTokens reject the numbers.
InvalidUsage(u) ==
    \/ OutOfRange(u)
    \/ /\ Measured(u) /\ u.creation # {}
       /\ \/ SplitSum(u) > ValueOf(u.creation)
          \/ FullSplit(u) /\ SplitSum(u) # ValueOf(u.creation)

\* authorityTokens: the aggregate of cache writes or a full split, never both.
AuthorityTokens(u) ==
    IF Measured(u) /\ (u.creation # {} \/ u.split = {} \/ FullSplit(u))
    THEN {ValueOf(u.input) + ValueOf(u.output) + ValueOf(u.read)
          + (IF u.creation # {} THEN ValueOf(u.creation) ELSE SplitSum(u))}
    ELSE {}

\* authorityUsage and the price of what it returns, one unit per token.
AuthorityCost(u) ==
    IF Measured(u) /\ (FullSplit(u) \/ (u.split = {} /\ ValueOf(u.creation) = 0))
    THEN {ValueOf(u.input) + ValueOf(u.output) + ValueOf(u.read) + SplitSum(u)}
    ELSE {}

NoSettlement == [complete |-> FALSE, tokens |-> {}, cost |-> {}, invalid |-> FALSE]

SettleShared(u, complete) ==
    IF InvalidUsage(u) THEN [NoSettlement EXCEPT !.complete = complete, !.invalid = TRUE]
    ELSE [complete |-> complete, tokens |-> AuthorityTokens(u),
          cost |-> AuthorityCost(u), invalid |-> FALSE]

-----------------------------------------------------------------------------
(* ReserveShared. *)

\* What already counts against the limit: policy money counts in the account.
Taken(d, c, a) == IF d.money THEN Encumbered(a) ELSE c.used

\* The additions of sharedCheckCapacity stay in range.
Addable(d, c, a) ==
    /\ d.money => AddFits(a.hardEncumbered, a.softConsumed)
    /\ AddFits(Taken(d, c, a), Bound(d))
    /\ AddFits(c.used, Bound(d)) /\ AddFits(c.reserved, Bound(d))

\* sharedCheckCapacity: the reservation would pass the limit.
OverLimit(d, c, a) ==
    IF IsRate(d.kind) THEN c.debt + Bound(d) * Scale > d.limit * Scale
    ELSE Taken(d, c, a) + Bound(d) > d.limit

BookedCounter(d, c) ==
    [c EXCEPT !.used = @ + Bound(d), !.reserved = @ + Bound(d),
              !.debt = IF IsRate(d.kind) THEN @ + Bound(d) * Scale ELSE @]

BookedAccount(d, a) ==
    IF d.hard THEN [a EXCEPT !.hardEncumbered = @ + Bound(d)]
    ELSE [a EXCEPT !.softConsumed = @ + Bound(d), !.softPending = @ + Bound(d)]

Booking(d, i) ==
    [id |-> i, kind |-> d.kind, amount |-> Bound(d), money |-> d.money,
     hard |-> d.hard]

\* The segments of a bucket after its refill, with the new booking's debt.
BookedSegments(r, d, i, c) ==
    Append(RetireOldest(Row(segments, i, <<>>),
                        Row(counters, i, NewCounter(0)).debt - c.debt),
           [attempt |-> r, remaining |-> Bound(d) * Scale, uncertain |-> TRUE])

\* The limits and rows ReserveShared derived when it began.
Limits(r) == SharedDefinitions(attempt[r].gen, attempt[r].rev)

IdOf(r, d) == Id(d, attempt[r].at)

\* sharedCheckClock: a window or the key ended while the locks were awaited.
Moved(r) ==
    \/ now >= world.expires
    \/ \E d \in Limits(r) : Id(d, now) # IdOf(r, d)

At(r, pc) == attempt' = [attempt EXCEPT ![r].pc = pc]

\* The request is authenticated and routed under a policy generation.
Snapshot(r) ==
    /\ attempt[r].pc = "idle" /\ now < world.expires
    /\ attempt' = [attempt EXCEPT ![r] = [pc |-> "routed", gen |-> gen, rev |-> rev, at |-> now]]
    /\ UNCHANGED <<world, now, gen, rev, tables, grant>>

\* sharedSnapshot and sharedDefinitions: refused on any change since routing.
Begin(r) ==
    /\ attempt[r].pc = "routed"
    /\ attempt' = [attempt EXCEPT ![r].pc =
                     IF now < world.expires /\ attempt[r].gen = gen /\ attempt[r].rev = rev
                     THEN "begun" ELSE "refused",
                   ![r].at = now]
    /\ UNCHANGED <<world, now, gen, rev, tables, grant>>

\* Every limit of the attempt is booked, and the reply may be lost.
Book(r, cs, as) ==
    /\ counters' = [i \in {IdOf(r, d) : d \in Limits(r)} |->
                      LET d == CHOOSE e \in Limits(r) : IdOf(r, e) = i
                      IN  BookedCounter(d, cs[d])] @@ counters
    /\ accounts' = [i \in {IdOf(r, d) : d \in DOMAIN as} |->
                      LET d == CHOOSE e \in DOMAIN as : IdOf(r, e) = i
                      IN  BookedAccount(d, as[d])] @@ accounts
    /\ segments' = [i \in {IdOf(r, d) : d \in {e \in Limits(r) : IsRate(e.kind)}} |->
                      LET d == CHOOSE e \in Limits(r) : IdOf(r, e) = i
                      IN  BookedSegments(r, d, i, cs[d])] @@ segments
    /\ permits' = [permits EXCEPT ![r] =
                     [at |-> now, terminal |-> "", settled |-> NoSettlement,
                      invalid |-> FALSE, bookings |-> {Booking(d, IdOf(r, d)) : d \in Limits(r)}]]
    /\ \E pc \in {"held", "lost"} : At(r, pc)

\* The rest of ReserveShared, with all rows locked.  A soft limit never denies,
\* a frozen row always does, and a denial writes nothing.
Commit(r) ==
    /\ attempt[r].pc = "begun"
    /\ \E cs \in {[d \in Limits(r) |->
                     Refill(Row(counters, IdOf(r, d), NewCounter(Rate(d))), Rate(d))]},
          as \in {[d \in {e \in Limits(r) : e.money} |->
                     [Row(accounts, IdOf(r, d), NewSharedAccount(~d.hard))
                        EXCEPT !.acceptsMeters = @ \/ ~d.hard]]} :
         LET acct(d) == IF d.money THEN as[d] ELSE NewSharedAccount(FALSE)
         IN  IF \/ Moved(r)
                \/ \E d \in Limits(r) :
                     \/ cs[d].frozen \/ acct(d).frozen
                     \/ ~Addable(d, cs[d], acct(d))
                     \/ d.hard /\ OverLimit(d, cs[d], acct(d))
             THEN At(r, "refused") /\ UNCHANGED tables
             ELSE Book(r, cs, as)
    /\ UNCHANGED <<world, now, gen, rev, grant>>

\* Every error return before the commit, a crash of the gateway included.
Abort(r) ==
    /\ attempt[r].pc = "begun" /\ At(r, "refused")
    /\ UNCHANGED <<world, now, gen, rev, tables, grant>>

-----------------------------------------------------------------------------
(* FinishShared and CancelShared. *)

InvalidObservation(o, bound) == \E n \in o : n < 0 \/ n > bound

Observed(b, s) == IF b.kind = "microUSD" THEN s.cost ELSE s.tokens

\* The amount of booking b is known after terminal t with settlement s.
Known(b, t, s) ==
    t = "cancel" \/ b.kind = "rpm" \/ (s.complete /\ Observed(b, s) # {})

SharedRetained(b, t, s) ==
    CASE t = "cancel" -> 0
      [] t # "cancel" /\ (b.kind = "rpm" \/ ~Known(b, t, s)) -> b.amount
      [] OTHER -> ValueOf(Observed(b, s))

OwnDebt(r, segs) ==
    MapThenSumSet(LAMBDA j : segs[j].remaining, {j \in DOMAIN segs : segs[j].attempt = r})

\* Mutant: an unknown outcome gives its reservation back.
SettledForgetful(r, b, c, t, s) ==
    IF IsRate(b.kind)
    THEN [c EXCEPT !.debt = @ - Release(OwnDebt(r, segments[b.id]), b.amount - SharedRetained(b, t, s)),
                   !.used = @ - b.amount, !.reserved = @ - b.amount]
    ELSE [c EXCEPT !.used = @ - (b.amount - SharedRetained(b, t, s)),
                   !.reserved = @ - b.amount]

\* settleSharedBooking on the counter: a bucket counts open permits only, its
\* debt keeps the rest; a window keeps what is retained, reserved while unknown.
SettledCounter(r, b, c, t, s) ==
    IF IsRate(b.kind)
    THEN [c EXCEPT !.debt = @ - Release(OwnDebt(r, segments[b.id]), b.amount - SharedRetained(b, t, s)),
                   !.used = @ - b.amount, !.reserved = @ - b.amount]
    ELSE [c EXCEPT !.used = @ - (b.amount - SharedRetained(b, t, s)),
                   !.reserved = IF Known(b, t, s) THEN @ - b.amount ELSE @]

\* Pending soft money is cleared by every terminal, the invalid ones included.
Unpended(b, a) == IF b.hard THEN a ELSE [a EXCEPT !.softPending = @ - b.amount]

SettledAccount(b, a, t, s) ==
    LET kept == SharedRetained(b, t, s)
    IN  IF b.hard
        THEN [a EXCEPT !.hardEncumbered = @ - (b.amount - kept), !.hardConsumed = @ + kept]
        ELSE [Unpended(b, a) EXCEPT !.softConsumed = @ - (b.amount - kept)]

SettledSegments(r, b, segs, t, s) ==
    Live([j \in DOMAIN segs |->
            IF segs[j].attempt # r THEN segs[j]
            ELSE [segs[j] EXCEPT !.remaining = @ - Release(@, b.amount - SharedRetained(b, t, s)),
                                 !.uncertain = ~Known(b, t, s)]])

\* The checks of settleSharedBooking and returnSharedRate.
Settleable(r, b, t, s) ==
    LET kept == SharedRetained(b, t, s)
        c    == counters[b.id]
    IN  /\ kept \in 0..b.amount /\ c.reserved >= b.amount /\ c.used >= b.amount
        /\ IsRate(b.kind) => Release(OwnDebt(r, segments[b.id]), b.amount - kept) <= c.debt
        /\ b.money => IF b.hard
                      THEN /\ accounts[b.id].hardEncumbered >= b.amount - kept
                           /\ AddFits(accounts[b.id].hardConsumed, kept)
                      ELSE /\ accounts[b.id].softConsumed >= b.amount - kept
                           /\ accounts[b.id].softPending >= b.amount

BookingOf(p, i) == CHOOSE b \in p.bookings : b.id = i

Ids(p) == {b.id : b \in p.bookings}

MoneyIds(p) == {b.id : b \in {e \in p.bookings : e.money}}

RateIds(p) == {b.id : b \in {e \in p.bookings : IsRate(e.kind)}}

\* An invalid outcome freezes every row of the permit and refunds nothing.
Freeze(p) ==
    /\ counters' = [i \in Ids(p) |-> [counters[i] EXCEPT !.frozen = TRUE]] @@ counters
    /\ accounts' = [i \in MoneyIds(p) |->
                      [Unpended(BookingOf(p, i), accounts[i]) EXCEPT !.frozen = TRUE]] @@ accounts
    /\ UNCHANGED segments

Settle(r, p, t, s) ==
    /\ \A b \in p.bookings : Settleable(r, b, t, s)
    /\ counters' = [i \in Ids(p) |->
                      SettledCounter(r, BookingOf(p, i), counters[i], t, s)] @@ counters
    /\ accounts' = [i \in MoneyIds(p) |->
                      SettledAccount(BookingOf(p, i), accounts[i], t, s)] @@ accounts
    /\ segments' = [i \in RateIds(p) |->
                      SettledSegments(r, BookingOf(p, i), segments[i], t, s)] @@ segments

Invalid(s) ==
    s.invalid \/ InvalidObservation(s.tokens, TokenBound) \/ InvalidObservation(s.cost, CostBound)

\* sharedTerminal: the first terminal decides, a repetition changes nothing.
SharedTerminal(r, t, s) ==
    \E p \in {permits[r]} :
        IF p.terminal # "" THEN UNCHANGED tables
        ELSE /\ IF Invalid(s) THEN Freeze(p) ELSE Settle(r, p, t, s)
             /\ permits' = [permits EXCEPT ![r].terminal = t, ![r].settled = s,
                                           ![r].invalid = Invalid(s)]

\* The settlements an attempt can end with: the provider's usage, complete or
\* cut short, or the release of a request that never got one.
Settlements ==
    {NoSettlement} \cup {SettleShared(u, c) : u \in world.usages, c \in BOOLEAN}

\* finishShared, and a second call that a retry by another replica would make.
FinishShared(r, s) ==
    /\ attempt[r].pc \in {"held", "done"} /\ SharedTerminal(r, "finish", s)
    /\ At(r, "done") /\ UNCHANGED <<world, now, gen, rev, grant>>

\* CancelShared, before the attempt is sent.
CancelShared(r) ==
    /\ attempt[r].pc \in {"held", "done"} /\ SharedTerminal(r, "cancel", NoSettlement)
    /\ At(r, "done") /\ UNCHANGED <<world, now, gen, rev, grant>>

\* finishShared fails before its commit: the reservation is retained.
FinishFails(r) ==
    /\ attempt[r].pc = "held" /\ At(r, "lost")
    /\ UNCHANGED <<world, now, gen, rev, tables, grant>>

-----------------------------------------------------------------------------
(* The rest of the database: definition writers, ADR-045 grants, time. *)

\* No reservation holds the SHARE lock on policies, keys and teams.
Unlocked == \A r \in Attempts : attempt[r].pc # "begun"

WritePolicies ==
    /\ Unlocked /\ \E g \in DOMAIN world.policies \ {gen} : gen' = g
    /\ UNCHANGED <<world, now, rev, tables, grant, attempt>>

WriteLimits ==
    /\ Unlocked /\ \E v \in DOMAIN world.limits \ {rev} : rev' = v
    /\ UNCHANGED <<world, now, gen, tables, grant, attempt>>

\* Mutant: the grant is sized before the account is locked.
SyncGrantUnlocked ==
    /\ grant = NoGrant
    /\ \E d \in {e \in Current : e.money}, want \in world.wants :
         /\ d.hard /\ ~Row(accounts, Id(d, now), NewSharedAccount(FALSE)).frozen
         /\ grant' = [acct |-> Id(d, now), rev |-> 0, want |-> want, amount |-> want, seq |-> 0,
                      consumed |-> 0, observed |-> 0, closed |-> FALSE, overrun |-> FALSE]
         /\ accounts' = (Id(d, now) :>
                           [Row(accounts, Id(d, now), NewSharedAccount(FALSE))
                              EXCEPT !.hardEncumbered = @ + want]) @@ accounts
    /\ UNCHANGED <<world, now, gen, rev, counters, segments, permits, attempt>>

\* A node's sync is granted escrow on a hard policy budget (issueGrant).
SyncGrant ==
    /\ grant = NoGrant
    /\ \E d \in {e \in Current : e.money}, want \in world.wants :
       \E asked \in {[acct |-> Id(d, now), rev |-> 0, want |-> want, amount |-> 0, seq |-> 0,
                      consumed |-> 0, observed |-> 0, closed |-> FALSE, overrun |-> FALSE]} :
       \E o \in IssueGrant(Row(accounts, Id(d, now), NewSharedAccount(~d.hard)), asked, asked,
                           [rev |-> 0, limit |-> d.limit, grant |-> want, hard |-> d.hard]) :
         /\ o.row.amount > 0
         /\ grant' = o.row /\ accounts' = (o.row.acct :> o.acct) @@ accounts
    /\ UNCHANGED <<world, now, gen, rev, counters, segments, permits, attempt>>

\* The node closes the grant after spending part of it (applyReport).
SyncClose ==
    /\ grant # NoGrant
    /\ ~grant.closed
    /\ \E n \in {0, grant.amount} :
       \E o \in ApplyReport(accounts[grant.acct], grant,
                            [seq |-> 1, consumed |-> n, observed |-> n, closed |-> TRUE,
                             overrun |-> FALSE], FALSE) :
         grant' = o.row /\ accounts' = (grant.acct :> o.acct) @@ accounts
    /\ UNCHANGED <<world, now, gen, rev, counters, segments, permits, attempt>>

Tick ==
    /\ now < world.horizon /\ now' = now + 1
    /\ UNCHANGED <<world, gen, rev, tables, grant, attempt>>

Init ==
    /\ world \in Worlds /\ now = 0 /\ gen = 1 /\ rev = 1
    /\ counters = <<>> /\ segments = <<>> /\ accounts = <<>> /\ grant = NoGrant
    /\ permits = [r \in Attempts |-> NoPermit]
    /\ attempt = [r \in Attempts |-> [pc |-> "idle", gen |-> 1, rev |-> 1, at |-> 0]]

Next ==
    \/ \E r \in Attempts :
         \/ Snapshot(r) \/ Begin(r) \/ Commit(r) \/ Abort(r)
         \/ CancelShared(r) \/ FinishFails(r)
         \/ \E s \in Settlements : FinishShared(r, s)
    \/ WritePolicies \/ WriteLimits \/ SyncGrant \/ SyncClose \/ Tick

Spec == Init /\ [][Next]_vars

-----------------------------------------------------------------------------
(* SharedUsage: what a caller is told of one limit, computed under the same *)
(* locks and rolled back.                                                   *)

\* sharedCeil.
CeilTokens(debt) == (debt + Scale - 1) \div Scale

Uncertain(segs) ==
    MapThenSumSet(LAMBDA j : segs[j].remaining, {j \in DOMAIN segs : segs[j].uncertain})

\* Open escrow of nodes on the account of limit d.
NodeReserved(i) ==
    IF grant # NoGrant /\ grant.acct = i /\ ~grant.closed THEN grant.amount - grant.consumed
    ELSE 0

SharedUsage(d, i, c, a, segs) ==
    IF IsRate(d.kind)
    THEN [used |-> CeilTokens(c.debt), reserved |-> CeilTokens(Uncertain(segs))]
    ELSE IF d.money
    THEN [used |-> Encumbered(a), reserved |-> c.reserved + NodeReserved(i)]
    ELSE [used |-> c.used, reserved |-> c.reserved]

-----------------------------------------------------------------------------
(* Properties. *)

Permits == {r \in Attempts : permits[r] # NoPermit}

Bookings(i) == {<<r, b>> \in UNION {{r} \X permits[r].bookings : r \in Permits} : b.id = i}

Open(r) == permits[r].terminal = "" \/ permits[r].invalid

\* What booking b of permit r holds of its limit.
Kept(r, b) ==
    IF Open(r) THEN b.amount ELSE SharedRetained(b, permits[r].terminal, permits[r].settled)

Unresolved(r, b) ==
    Open(r) \/ ~Known(b, permits[r].terminal, permits[r].settled)

SumOver(S, Op(_, _)) == MapThenSumSet(LAMBDA x : Op(x[1], x[2]), S)

(***************************************************************************)
(* The books of every counter are the sum of its permits at any time: what *)
(* open, unknown and invalid outcomes reserve, what settled ones retain,   *)
(* and for a bucket the live debt segments.  Settlements arrive in any     *)
(* order, after refills, rate cuts, window ends and deleted policies, and  *)
(* may be repeated.                                                        *)
(***************************************************************************)
CountersExact ==
    \A i \in DOMAIN counters :
        LET bs   == Bookings(i)
            rate == i \in DOMAIN segments
        IN  /\ counters[i].used =
                 SumOver(bs, LAMBDA r, b : IF ~rate THEN Kept(r, b)
                                           ELSE IF Open(r) THEN b.amount ELSE 0)
            /\ counters[i].reserved =
                 SumOver(bs, LAMBDA r, b : IF (IF rate THEN Open(r) ELSE Unresolved(r, b))
                                           THEN b.amount ELSE 0)
            /\ rate => counters[i].debt = Owed(segments[i])

(***************************************************************************)
(* Shared permits and node grants together account for every account row:  *)
(* a hard booking encumbers what it keeps, a soft one consumes it and is   *)
(* pending only while it has no terminal outcome (shared_finish.go).       *)
(***************************************************************************)
AccountsExact ==
    \A i \in DOMAIN accounts :
        LET hard == {x \in Bookings(i) : x[2].hard}
            soft == {x \in Bookings(i) : ~x[2].hard}
            own  == IF grant # NoGrant /\ grant.acct = i THEN Contribution(grant) ELSE 0
        IN  /\ accounts[i].hardEncumbered = SumOver(hard, Kept) + own
            /\ accounts[i].hardConsumed =
                 SumOver(hard, LAMBDA r, b : IF Open(r) THEN 0 ELSE Kept(r, b))
                 + (IF own = 0 THEN 0 ELSE grant.consumed)
            /\ accounts[i].softConsumed = SumOver(soft, Kept)
            /\ accounts[i].softPending =
                 SumOver(soft, LAMBDA r, b : IF permits[r].terminal = "" THEN b.amount ELSE 0)

(***************************************************************************)
(* The books are exact, and a settlement never meets the "inconsistent     *)
(* shared accounting" errors of settleSharedBooking and returnSharedRate,  *)
(* which would leave the permit open for ever: every open permit accepts   *)
(* every outcome.                                                          *)
(***************************************************************************)
BooksExact ==
    /\ CountersExact /\ AccountsExact
    /\ \A r \in {q \in Permits : permits[q].terminal = ""} :
         \A b \in permits[r].bookings :
            /\ Settleable(r, b, "cancel", NoSettlement)
            /\ \A s \in Settlements : Invalid(s) \/ Settleable(r, b, "finish", s)

(***************************************************************************)
(* A reservation and a node's grant race for the same policy money: no     *)
(* step raises what is committed of a hard budget past the limit stored    *)
(* when the step commits.  A permit is booked against exactly the limits   *)
(* stored at its commit, in the windows the commit lies in, although both  *)
(* were read before it waited for its row locks.  And a limit on which an  *)
(* outcome was invalid stays closed to every writer: no later permit books *)
(* on a row of that permit and no node grant draws on its account.         *)
(***************************************************************************)
CommitsWithinLimits ==
    [][LET closed == UNION {Ids(permits[q]) : q \in {p \in Permits : permits[p].invalid}}
           fresh  == NewSharedAccount(FALSE)
       IN  /\ \A d \in {e \in Current : e.money /\ e.hard} :
                LET i == Id(d, now)
                IN  Encumbered(Row(accounts, i, fresh)) < Encumbered(Row(accounts', i, fresh))
                      => Encumbered(accounts'[i]) <= d.limit
           /\ \A r \in Attempts : permits[r] = NoPermit /\ permits'[r] # NoPermit =>
                /\ permits'[r].bookings = {Booking(d, Id(d, now)) : d \in Current}
                /\ Ids(permits'[r]) \cap closed = {}
           /\ grant = NoGrant /\ grant' # NoGrant => grant'.acct \notin closed]_vars

(***************************************************************************)
(* A bucket is a rate limit over every interval that ends now: what the    *)
(* attempts booked since t keep is at most the largest limit it ever had   *)
(* plus its refill since t, however refunds and refills alternate.         *)
(***************************************************************************)
RateHeld ==
    \A i \in DOMAIN segments :
        LET limits == {d.limit : d \in {e \in UNION Range(world.policies) \cup
                                          UNION Range(world.limits) : e.key = i[1]}}
        IN  \A t \in 0..now :
              Scale * SumOver({x \in Bookings(i) : permits[x[1]].at >= t}, Kept)
                <= Max(limits) * (Scale + now - t)

=============================================================================
