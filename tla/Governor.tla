------------------------------ MODULE Governor ------------------------------
(***************************************************************************)
(* Local governance of one gateway: internal/governance (PreCheck, Settle) *)
(* over the in-memory stores internal/limiter and internal/budget, and the *)
(* alert notifier that Settle feeds (internal/alert, ADR-017).             *)
(*                                                                         *)
(* Every call of a store takes the store's own mutex, so a request is a    *)
(* sequence of store calls and requests interleave between them.  The two  *)
(* budget windows that PreCheck tests for one scope are different counters *)
(* and are tested in one step.  The amortized sweep is due at any call,    *)
(* because the calls of other keys advance its counter too.                *)
(*                                                                         *)
(* A store key is <<kind, scope, id>>.  A policy is [rpm, tpm, quota,      *)
(* month, day, quotaWarn, monthWarn, dayWarn] with 0 for no limit; the     *)
(* resolved team and user policies change between calls (policyOf,         *)
(* userLookup), a key's limits come with the request.  Rates are even and  *)
(* two ticks are a minute.                                                 *)
(***************************************************************************)
EXTENDS Integers, Sequences, FiniteSets, FiniteSetsExt, Functions, TLC

CONSTANTS Worlds,      \* scenarios: [policies, subject, estimate,
                       \* outcomes, thresholds, leaseGate, capacity, horizon]
          Requests,    \* request numbers
          Counters,    \* budget store keys
          MaxCost,     \* largest cost of an answer
          DayLength,   \* ticks of a budget day and of the quota window
          MonthLength  \* ticks of a budget month

VARIABLES world,       \* the scenario, fixed at the start
          now,         \* the clock of both stores
          version,     \* the policies in force, of the sequence world.policies
          buckets, quotas,   \* limiter.Memory
          counters,    \* budget.Memory
          fired,       \* alert.Notifier: highest threshold fired per scope
          fires,       \* the alerts sent: <<key, window, threshold>> in order
          req          \* the requests

limiter == <<buckets, quotas>>
alerts  == <<fired, fires>>
vars    == <<world, now, version, limiter, counters, alerts, req>>

Smallest(a, b) == IF a <= b THEN a ELSE b

Largest(a, b) == IF a >= b THEN a ELSE b

Without(f, S) == Restrict(f, DOMAIN f \ S)

-----------------------------------------------------------------------------
(* internal/limiter.  l is [buckets, quotas]. *)

Limiter == [buckets |-> buckets, quotas |-> quotas]

Projected(b) == b.tokens + ((now - b.last) * b.rate) \div 2

Entries(l) == Cardinality(DOMAIN l.buckets) + Cardinality(DOMAIN l.quotas)

\* sweepReclaimable: full buckets and ended windows.
SweepReclaimable(l) ==
    [buckets |-> Without(l.buckets, {k \in DOMAIN l.buckets :
                                       Projected(l.buckets[k]) >= l.buckets[k].burst}),
     quotas  |-> Without(l.quotas, {k \in DOMAIN l.quotas : now >= l.quotas[k].end})]

\* tick: the amortized sweep is due or not.
Ticked(l) == {l, SweepReclaimable(l)}

\* admit: the stores a new entry may be added to; none at capacity.
Admit(l) ==
    IF Entries(l) < world.capacity THEN {l}
    ELSE {s \in {SweepReclaimable(l)} : Entries(s) < world.capacity}

Charged(b, cost, rate, burst) ==
    LET level == Smallest(b.tokens + ((now - b.last) * rate) \div 2, burst)
    IN  [tokens |-> IF level >= cost THEN level - cost ELSE level,
         last |-> now, rate |-> rate, burst |-> burst]

Affords(b, cost, rate, burst) ==
    Smallest(b.tokens + ((now - b.last) * rate) \div 2, burst) >= cost

\* AllowRate: the outcomes [ok, l].
AllowRate(k, cost, rate, burst) ==
    UNION {
        IF k \in DOMAIN t.buckets
        THEN {[ok |-> Affords(t.buckets[k], cost, rate, burst),
               l  |-> [t EXCEPT !.buckets[k] = Charged(@, cost, rate, burst)]]}
        ELSE IF Admit(t) = {} THEN {[ok |-> FALSE, l |-> SweepReclaimable(t)]}
        ELSE {[ok |-> burst >= cost,
               l  |-> [a EXCEPT !.buckets =
                         (k :> Charged([tokens |-> burst, last |-> now, rate |-> rate, burst |-> burst],
                                       cost, rate, burst)) @@ @]] : a \in Admit(t)}
      : t \in Ticked(Limiter)}

\* AdjustRate: a correction of a charged bucket, with no refill and no floor.
AdjustRate(k, delta, burst) ==
    IF k \notin DOMAIN buckets THEN buckets
    ELSE [buckets EXCEPT ![k].tokens = Smallest(@ + delta, burst)]

\* curWindow: the outcomes [ok, l]; looked up before the sweep, so that a
\* rollover is never refused.
CurWindow(k) ==
    UNION {
        IF k \in DOMAIN quotas /\ now < quotas[k].end THEN {[ok |-> TRUE, l |-> t]}
        ELSE IF k \notin DOMAIN quotas /\ Admit(t) = {}
        THEN {[ok |-> FALSE, l |-> SweepReclaimable(t)]}
        ELSE {[ok |-> TRUE,
               l  |-> [a EXCEPT !.quotas = (k :> [used |-> 0, end |-> now + DayLength]) @@ @]]
              : a \in IF k \in DOMAIN quotas THEN {t} ELSE Admit(t)}
      : t \in Ticked(Limiter)}

SetLimiter(l) == buckets' = l.buckets /\ quotas' = l.quotas

-----------------------------------------------------------------------------
(* internal/budget.  m is the map of counters. *)

Period(kind) == IF kind = "day" THEN DayLength ELSE MonthLength

\* windowEnd of a calendar window.
WindowEnd(kind) == (now \div Period(kind) + 1) * Period(kind)

\* Mutant: the window that ends next is swept too.
SweepSoon(m) == Without(m, {k \in DOMAIN m : now + 1 >= m[k].end})

SweepExpired(m) == Without(m, {k \in DOMAIN m : now >= m[k].end})

\* cur: the outcomes [ok, m]; a new counter is refused at capacity.
Cur(m, k) ==
    LET fresh == k :> [spent |-> 0, end |-> WindowEnd(k[1])]
    IN  {IF k \in DOMAIN t /\ now < t[k].end THEN [ok |-> TRUE, m |-> t]
         ELSE IF k \in DOMAIN t \/ Cardinality(DOMAIN t) < world.capacity
         THEN [ok |-> TRUE, m |-> fresh @@ t]
         ELSE IF Cardinality(DOMAIN SweepExpired(t)) < world.capacity
         THEN [ok |-> TRUE, m |-> fresh @@ SweepExpired(t)]
         ELSE [ok |-> FALSE, m |-> SweepExpired(t)]
           : t \in {m, SweepExpired(m)}}

\* Check with estimate 0: a limit that is just reached still admits.
Check(m, k, limit) ==
    IF limit = 0 THEN {[dec |-> "allow", m |-> m]}
    ELSE {[dec |-> IF ~c.ok THEN "capacity"
                   ELSE IF c.m[k].spent > limit THEN "block" ELSE "allow",
           m   |-> c.m] : c \in Cur(m, k)}

\* Debit and its loss at capacity.
Debit(m, k, cost) ==
    {IF c.ok THEN [ok |-> TRUE, m |-> [c.m EXCEPT ![k].spent = @ + cost]]
     ELSE [ok |-> FALSE, m |-> c.m] : c \in Cur(m, k)}

Spent(k) == IF k \in DOMAIN counters /\ now < counters[k].end THEN counters[k].spent ELSE 0

-----------------------------------------------------------------------------
(* The policy of a scope, and the requests. *)

NoLimits == [rpm |-> 0, tpm |-> 0, quota |-> 0, month |-> 0, day |-> 0,
             quotaWarn |-> FALSE, monthWarn |-> FALSE, dayWarn |-> FALSE]

Id(r, scope) == world.subject[r][scope]

PolicyIn(v, r, scope) ==
    LET x == <<scope, Id(r, scope)>>
    IN  IF x \in DOMAIN world.policies[v] THEN world.policies[v][x] ELSE NoLimits

\* A key's limits are those it was authenticated with; the team's were
\* resolved when PreCheck or Settle began; the user's are looked up now.
PolicyOf(r, scope) ==
    PolicyIn(CASE scope = "key" -> req[r].auth
               [] scope = "team" -> req[r].ver
               [] scope = "user" -> version, r, scope)

Key(kind, r, scope) == <<kind, scope, Id(r, scope)>>

Checks == << <<"rate", "team">>, <<"tpm", "team">>, <<"quota", "team">>, <<"budget", "team">>,
             <<"rate", "key">>, <<"tpm", "key">>, <<"budget", "key">>, <<"budget", "user">> >>

Settles == << <<"quota", "team">>, <<"tpm", "team">>, <<"tpm", "key">>,
              <<"month", "team">>, <<"spent", "team">>, <<"observe", "team">>, <<"day", "team">>,
              <<"month", "key">>, <<"spent", "key">>, <<"observe", "key">>, <<"day", "key">>,
              <<"month", "user">>, <<"day", "user">> >>

\* The call is made: its scope has such a limit.
Applies(r, call) ==
    LET p == PolicyOf(r, call[2])
    IN  CASE call[1] = "rate" -> p.rpm > 0
          [] call[1] = "tpm" -> p.tpm > 0
          [] call[1] = "quota" -> p.quota > 0
          [] call[1] = "budget" -> p.month > 0 \/ p.day > 0
          [] call[1] = "day" -> p.day > 0
          [] call[1] \in {"month", "spent", "observe"} -> p.month > 0

\* Call j of the list is the next one request r makes.
IsNext(r, calls, j) ==
    /\ j \in req[r].i..Len(calls) /\ Applies(r, calls[j])
    /\ \A n \in req[r].i..(j - 1) : ~Applies(r, calls[n])

Exhausted(calls, r) == \A n \in req[r].i..Len(calls) : ~Applies(r, calls[n])

NewRequest == [pc |-> "idle", i |-> 1, ver |-> 1, auth |-> 1, at |-> 0, shut |-> FALSE,
               tokens |-> 0, cost |-> 0, read |-> 0, passed |-> {}, lost |-> {}]

Goto(r, pc, i) == req' = [req EXCEPT ![r].pc = pc, ![r].i = i]

\* The request passed check j of the entries ks.
Pass(r, j, ks) == req' = [req EXCEPT ![r].i = j + 1, ![r].passed = @ \cup (ks \X {now})]

\* A denied or settled request; only its passes of request rates are kept.
End(r, pc) ==
    req' = [req EXCEPT ![r] = [NewRequest EXCEPT !.pc = pc,
              !.passed = {p \in req[r].passed : p[1][1] = "rate"}]]

\* A budget scope of r refuses whatever else happens in this window.
Shut(r, scope) ==
    LET p == PolicyIn(version, r, scope)
    IN  \/ p.month > 0 /\ ~p.monthWarn /\ Spent(Key("month", r, scope)) > p.month
        \/ p.day > 0 /\ ~p.dayWarn /\ Spent(Key("day", r, scope)) > p.day

-----------------------------------------------------------------------------
(* PreCheck. *)

\* The policy is resolved; an expired lease denies at once.  Requests of one
\* subject are numbered in the order in which they begin.
PreCheck(r) ==
    /\ req[r].pc = "idle"
    /\ \A q \in 1..(r - 1) : world.subject[q] = world.subject[r] => req[q].pc # "idle"
    /\ \E blocked \in world.leaseGate :
         IF blocked THEN End(r, "denied")
         ELSE req' = [req EXCEPT ![r] = [@ EXCEPT
                        !.pc = "check", !.ver = version, !.auth = version, !.at = now,
                        !.shut = \E s \in {"team", "key", "user"} : Shut(r, s)]]
    /\ UNCHANGED <<world, now, version, limiter, counters, alerts>>

CheckRate(r, j) ==
    /\ req[r].pc = "check" /\ IsNext(r, Checks, j) /\ Checks[j][1] \in {"rate", "tpm"}
    /\ \E limit \in {IF Checks[j][1] = "rate" THEN PolicyOf(r, Checks[j][2]).rpm
                     ELSE PolicyOf(r, Checks[j][2]).tpm} :
       \E o \in AllowRate(Key(Checks[j][1], r, Checks[j][2]),
                          IF Checks[j][1] = "rate" THEN 1 ELSE world.estimate, limit, limit) :
         /\ SetLimiter(o.l)
         /\ IF o.ok THEN Pass(r, j, {Key(Checks[j][1], r, Checks[j][2])})
            ELSE End(r, "denied")
    /\ UNCHANGED <<world, now, version, counters, alerts>>

\* CheckQuota: a warn quota lets a breach and a full store pass.
CheckQuota(r, j) ==
    /\ req[r].pc = "check" /\ IsNext(r, Checks, j) /\ Checks[j][1] = "quota"
    /\ \E p \in {PolicyOf(r, "team")}, k \in {Key("quota", r, "team")} : \E o \in CurWindow(k) :
         /\ SetLimiter(o.l)
         /\ IF \/ p.quotaWarn
               \/ o.ok /\ o.l.quotas[k].used + world.estimate <= p.quota
            THEN Goto(r, "check", j + 1) ELSE End(r, "denied")
    /\ UNCHANGED <<world, now, version, counters, alerts>>

\* Mutant: warn also downgrades the refusal of a full store.
DenyUnlessWarn(dec, warn) == dec # "allow" /\ ~warn

MustDenyBudget(dec, warn) == dec = "capacity" \/ (dec = "block" /\ ~warn)

\* The month and day windows of a scope; both are tested before a denial.
CheckBudget(r, j) ==
    /\ req[r].pc = "check" /\ IsNext(r, Checks, j) /\ Checks[j][1] = "budget"
    /\ \E scope \in {Checks[j][2]} : \E p \in {PolicyOf(r, scope)} :
       \E m \in Check(counters, Key("month", r, scope), p.month) :
       \E d \in Check(m.m, Key("day", r, scope), p.day) :
         /\ counters' = d.m
         /\ IF MustDenyBudget(m.dec, p.monthWarn) \/ MustDenyBudget(d.dec, p.dayWarn)
            THEN End(r, "denied")
            ELSE Pass(r, j, {Key(w, r, scope) : w \in {x \in {"month", "day"} : p[x] > 0}})
    /\ UNCHANGED <<world, now, version, limiter, alerts>>

\* Every check passed: the request goes upstream.
Allowed(r) ==
    /\ req[r].pc = "check" /\ Exhausted(Checks, r) /\ Goto(r, "flight", 1)
    /\ UNCHANGED <<world, now, version, limiter, counters, alerts>>

-----------------------------------------------------------------------------
(* Settle. *)

\* The answer is complete: Settle resolves the team's policy again.
Settle(r) ==
    /\ req[r].pc = "flight"
    /\ \E o \in world.outcomes :
         req' = [req EXCEPT ![r] = [@ EXCEPT !.pc = "settle", !.i = 1, !.ver = version,
                                             !.at = 0, !.shut = FALSE,
                                             !.tokens = o.tokens, !.cost = o.cost]]
    /\ UNCHANGED <<world, now, version, limiter, counters, alerts>>

\* The attempt fails with no usage: nothing is settled or given back.
Unanswered(r) ==
    /\ req[r].pc = "flight" /\ End(r, "done")
    /\ UNCHANGED <<world, now, version, limiter, counters, alerts>>

Settling(r, j) == req[r].pc = "settle" /\ IsNext(r, Settles, j)

DebitQuota(r, j) ==
    /\ Settling(r, j) /\ Settles[j][1] = "quota"
    /\ \E k \in {Key("quota", r, "team")} : \E o \in CurWindow(k) :
         SetLimiter(IF o.ok THEN [o.l EXCEPT !.quotas[k].used = @ + req[r].tokens] ELSE o.l)
    /\ Goto(r, "settle", j + 1)
    /\ UNCHANGED <<world, now, version, counters, alerts>>

TrueUp(r, j) ==
    /\ Settling(r, j) /\ Settles[j][1] = "tpm"
    /\ buckets' = AdjustRate(Key("tpm", r, Settles[j][2]), world.estimate - req[r].tokens,
                             PolicyOf(r, Settles[j][2]).tpm)
    /\ Goto(r, "settle", j + 1)
    /\ UNCHANGED <<world, now, version, quotas, counters, alerts>>

DebitBudget(r, j) ==
    /\ Settling(r, j) /\ Settles[j][1] \in {"month", "day"}
    /\ \E k \in {Key(Settles[j][1], r, Settles[j][2])} : \E o \in Debit(counters, k, req[r].cost) :
         /\ counters' = o.m
         /\ req' = [req EXCEPT ![r].i = j + 1,
                               ![r].lost = IF o.ok THEN @ ELSE @ \cup {<<k, now>>}]
    /\ UNCHANGED <<world, now, version, limiter, alerts>>

\* Spent is read back after the debit, under the store's mutex once more.
ReadSpent(r, j) ==
    /\ Settling(r, j) /\ Settles[j][1] = "spent"
    /\ \E o \in Cur(counters, Key("month", r, Settles[j][2])) :
         /\ counters' = o.m
         /\ req' = [req EXCEPT ![r].i = j + 1,
                      ![r].read = IF o.ok THEN o.m[Key("month", r, Settles[j][2])].spent ELSE 0]
    /\ UNCHANGED <<world, now, version, limiter, alerts>>

Reached(spent, limit, t) == spent * 100 >= t * limit

\* Observe and ObserveKey: the highest newly crossed threshold fires; a ratio
\* below the last one fired counts as a new window.
Observe(r, j) ==
    /\ Settling(r, j) /\ Settles[j][1] = "observe"
    /\ \E k \in {Key("month", r, Settles[j][2])},
          limit \in {PolicyOf(r, Settles[j][2]).month} :
       \E prev \in {IF k \in DOMAIN fired /\ Reached(req[r].read, limit, fired[k])
                    THEN fired[k] ELSE 0} :
       \E crossed \in {{t \in world.thresholds : Reached(req[r].read, limit, t) /\ t > prev}} :
         /\ fired' = IF crossed # {} THEN (k :> Max(crossed)) @@ fired
                     ELSE IF prev = 0 THEN Without(fired, {k}) ELSE fired
         /\ fires' = IF crossed = {} THEN fires
                     ELSE Append(fires, [key |-> k, window |-> now \div MonthLength,
                                         version |-> version, threshold |-> Max(crossed)])
    /\ Goto(r, "settle", j + 1)
    /\ UNCHANGED <<world, now, version, limiter, counters>>

Settled(r) ==
    /\ req[r].pc = "settle" /\ Exhausted(Settles, r) /\ End(r, "done")
    /\ UNCHANGED <<world, now, version, limiter, counters, alerts>>

-----------------------------------------------------------------------------
(* Policies and time. *)

\* A reload, a console edit or a policy sync changes what policyOf returns.
EditPolicy ==
    /\ version < Len(world.policies) /\ version' = version + 1
    /\ UNCHANGED <<world, now, limiter, counters, alerts, req>>

Tick ==
    /\ now < world.horizon /\ now' = now + 1
    /\ UNCHANGED <<world, version, limiter, counters, alerts, req>>

Init ==
    /\ world \in Worlds /\ now = 0 /\ version = 1
    /\ buckets = <<>> /\ quotas = <<>> /\ counters = <<>> /\ fired = <<>> /\ fires = <<>>
    /\ req = [r \in Requests |-> NewRequest]

Next ==
    \/ \E r \in DOMAIN world.subject :
         \/ PreCheck(r) \/ Allowed(r) \/ Settle(r) \/ Unanswered(r) \/ Settled(r)
         \/ \E j \in DOMAIN Checks : CheckRate(r, j) \/ CheckQuota(r, j) \/ CheckBudget(r, j)
         \/ \E j \in DOMAIN Settles :
              DebitQuota(r, j) \/ TrueUp(r, j) \/ DebitBudget(r, j) \/ ReadSpent(r, j) \/ Observe(r, j)
    \/ EditPolicy \/ Tick

Spec == Init /\ [][Next]_vars

-----------------------------------------------------------------------------
(* Properties. *)

(***************************************************************************)
(* A request that begins when a blocking budget of its team, key or user   *)
(* is overspent never goes upstream in that window, whatever sweeps, other *)
(* keys, capacity refusals and settlements do between its checks, unless   *)
(* the policies or the day change before it is through.                    *)
(***************************************************************************)
OverspentStaysShut ==
    \A r \in Requests :
        req[r].shut /\ req[r].pc = "flight" =>
            req[r].auth # version \/ req[r].at \div DayLength # now \div DayLength

\* The passes of the RPM bucket k, as <<request, time>>.
Passes(k) ==
    UNION {{r} \X {p[2] : p \in {q \in req[r].passed : q[1] = k}} : r \in Requests}

(***************************************************************************)
(* Local limits bind.  What a served request costs is never dropped at     *)
(* capacity: no debit of a counter is lost in the window in which the      *)
(* request was checked against it (a warn policy included).  A request     *)
(* that begins when a blocking budget of its team, key or user is          *)
(* overspent never goes upstream in that window, whatever sweeps, other    *)
(* keys, capacity refusals and settlements do between its checks, unless   *)
(* the policies or the day change before it is through.  And the request   *)
(* rate holds over every interval: the passes of a scope since time t are  *)
(* at most one burst plus the refill since t, although full buckets are    *)
(* swept away and made anew with a full burst.                             *)
(***************************************************************************)
LimitsBind ==
    /\ \A r \in Requests :
         /\ req[r].shut /\ req[r].pc = "flight" =>
               req[r].auth # version \/ req[r].at \div DayLength # now \div DayLength
         /\ \A x \in req[r].lost, y \in req[r].passed :
               x[1] = y[1] => x[2] \div Period(x[1][1]) # y[2] \div Period(x[1][1])
    /\ \A k \in DOMAIN buckets : \A t \in 0..now :
         k[1] = "rate" =>
            2 * Cardinality({p \in Passes(k) : p[2] >= t}) <= buckets[k].rate * (2 + now - t)

(***************************************************************************)
(* Sweeps, capacity refusals and lazily made entries are invisible: seen   *)
(* through Spent, the counters of internal/budget only ever grow by debits *)
(* and restart at calendar boundaries (Allowance).                         *)
(***************************************************************************)
KeyPeriod(k) == Period(k[1])

Promise == INSTANCE Allowance WITH
    Keys <- Counters, Costs <- 1..MaxCost, Period <- KeyPeriod,
    clock <- now, spent <- [k \in Counters |-> Spent(k)]

BudgetPromise == Promise!Spec

=============================================================================
