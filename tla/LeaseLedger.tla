---------------------------- MODULE LeaseLedger ----------------------------
(***************************************************************************)
(* Budget leases of a control plane that keeps its ledger in memory        *)
(* (internal/controlplane handleSync and applyWire, ADR-034), the lease    *)
(* and tier tables a gateway builds from the answers (internal/proxy/      *)
(* sync.go, internal/tier, ADR-041) and the spending they allow.           *)
(*                                                                         *)
(* One team.  A budget rule is [limit, grant, hard, period, routingOnly,   *)
(* ladder, strict]; the ladder of the routing rule that refers to it is    *)
(* kept with it, a sequence of [at, sub].  Rules are numbered in the order *)
(* of their names.  Time is in ticks of the renewal interval.  A request   *)
(* costs one unit.  A gateway has one heartbeat at a time; its request or  *)
(* its answer may be lost.  A gateway that stops just takes no more steps; *)
(* its next process has another id.                                        *)
(***************************************************************************)
EXTENDS Integers, FiniteSets, Sequences, SequencesExt, FiniteSetsExt, TLC

CONSTANTS Scenes,     \* [rules, edits, ids, roll, time]: rules at the start and
                      \* after edits, gateways, sets of windows that may end,
                      \* bound on the clock
          Lasts,      \* ticks a lease lasts: three renewals
          PruneAfter, \* ticks after which a silent gateway is forgotten
          MaxSpend

VARIABLES scene,      \* the scenario, fixed at the start
          rules,      \* the policy in force at the control plane
          now,
          window,     \* number of the window of each period
          book,       \* rule -> [spent, allowance], each a function of gateways
          seen,       \* gateway -> time of its last heartbeat
          latch,      \* rule -> [window, index], index 0 for no tier
          gw,         \* a gateway's counters, tables and call
          lapsed,     \* history: gateways that held a lease the ledger released
          forgot      \* history: gateways the ledger has pruned

vars == <<scene, rules, now, window, book, seen, latch, gw, lapsed, forgot>>

Periods == {"day", "month"}
NoRow   == [spent |-> << >>, allowance |-> << >>]
NoAnswer == [leases |-> {}, tiers |-> {}, rules |-> << >>]
At(f, x) == IF x \in DOMAIN f THEN f[x] ELSE 0
Total(f) == FoldFunction(LAMBDA a, b : a + b, 0, f)

Init ==
    /\ scene \in Scenes
    /\ rules = scene.rules /\ now = 0 /\ window = [d \in Periods |-> 0]
    /\ book = [k \in DOMAIN rules |-> NoRow] /\ seen = << >>
    /\ latch = << >> /\ lapsed = {} /\ forgot = {}
    /\ gw = [p \in scene.ids |->
               [spent |-> [d \in Periods |-> 0], rules |-> << >>, lease |-> {},
                tiers |-> {}, call |-> "idle", report |-> << >>,
                answer |-> NoAnswer]]

-----------------------------------------------------------------------------
(* The control plane. *)

Beyond(row, qs) ==
    FoldFunction(LAMBDA a, b : a + b, 0,
                 [q \in qs |-> Max({0, At(row.allowance, q) - At(row.spent, q)})])

\* Mutant: only gateways that have reported count.
TotalsReported(row, live) ==
    [spent |-> Total(row.spent),
     outstanding |-> Beyond(row, DOMAIN row.allowance \cap DOMAIN row.spent \cap live)]

\* totals: the spend reported, and what gateways with a lease that may still
\* be valid have been granted beyond it.
totals(row, live) ==
    [spent |-> Total(row.spent), outstanding |-> Beyond(row, DOMAIN row.allowance \cap live)]

\* The report of a gateway about one rule.  A decrease is a new window or a
\* restart, and ends the allowance; a report about another period is skipped.
Absorb(k, row, p, report) ==
    IF k \notin DOMAIN report \/ report[k].period # rules[k].period THEN row
    ELSE [spent |-> p :> report[k].spent @@ row.spent,
          allowance |-> IF report[k].spent < At(row.spent, p)
                        THEN p :> 0 @@ row.allowance ELSE row.allowance]

Without(row, ps) ==
    [spent |-> [q \in DOMAIN row.spent \ ps |-> row.spent[q]],
     allowance |-> [q \in DOMAIN row.allowance \ ps |-> row.allowance[q]]]

\* A lease: what is spent and a slice of what remains globally.
Grant(k, row, live, p) ==
    LET t    == totals(row, live \ {p})
        rest == Max({0, rules[k].limit - t.spent - t.outstanding})
    IN  At(row.spent, p) + Min({rules[k].grant, rest})

UtilizedPercent(spent, outstanding, limit) ==
    IF spent + outstanding >= limit THEN 100 ELSE ((spent + outstanding) * 100) \div limit

\* Mutant: the tier follows utilization down again.
EvaluateLoose(old, w, ladder, percent) ==
    [window |-> w, index |-> Max({0} \cup {i \in DOMAIN ladder : percent >= ladder[i].at})]

\* Latch.Evaluate.
Evaluate(old, w, ladder, percent) ==
    LET kept    == IF \E e \in old : e.window = w THEN Max({e.index : e \in old}) ELSE 0
        crossed == Max({0} \cup {i \in DOMAIN ladder : percent >= ladder[i].at})
    IN  [window |-> w, index |-> Min({Max({kept, crossed}), Len(ladder)})]

Latched(k) == IF k \in DOMAIN latch THEN {latch[k]} ELSE {}

\* The active tiers, from the latch.
ActiveTiers(l) ==
    {[rule |-> k, at |-> rules[k].ladder[l[k].index].at, sub |-> rules[k].ladder[l[k].index].sub,
      strict |-> rules[k].strict] : k \in {j \in DOMAIN l : l[j].index \in DOMAIN rules[j].ladder}}

\* handleSync: register, absorb, prune, grant, judge the tiers, answer.
HandleSync(p) ==
    /\ gw[p].call = "sent"
    /\ seen' = [q \in {x \in DOMAIN seen : x # p /\ now - seen[x] <= PruneAfter} \cup {p} |->
                  IF q = p THEN now ELSE seen[q]]
    /\ \E live \in {{q \in DOMAIN seen' : now - seen'[q] <= Lasts}} :
       \E rows \in {[k \in DOMAIN rules |->
                       Without(Absorb(k, book[k], p, gw[p].report), DOMAIN seen \ DOMAIN seen')]} :
       \E leases \in {[k \in {j \in DOMAIN rules : ~rules[j].routingOnly} |->
                         Grant(k, rows[k], live, p)]} :
          /\ book' = [k \in DOMAIN rules |->
                        IF k \in DOMAIN leases
                        THEN [rows[k] EXCEPT !.allowance = p :> leases[k] @@ @] ELSE rows[k]]
          /\ latch' = [k \in {j \in DOMAIN rules : rules[j].ladder # << >>} |->
                         LET t == totals(book'[k], live) IN
                         Evaluate(Latched(k), window[rules[k].period], rules[k].ladder,
                                  UtilizedPercent(t.spent, t.outstanding, rules[k].limit))]
          /\ gw' = [gw EXCEPT ![p].call = "answered", ![p].report = << >>, ![p].answer =
                      [leases |-> {[rule |-> k, allowance |-> leases[k], expires |-> now + Lasts,
                                    hard |-> rules[k].hard, period |-> rules[k].period]
                                   : k \in DOMAIN leases},
                       tiers |-> ActiveTiers(latch'), rules |-> rules]]
          /\ lapsed' = lapsed \cup (DOMAIN seen \ live)
          /\ forgot' = forgot \cup (DOMAIN seen \ DOMAIN seen')
    /\ UNCHANGED <<scene, rules, now, window>>

\* applyWire, one rule: spend is carried over within one period, an allowance
\* unless the rule now only switches tiers.
Carry(k, new) ==
    IF k \notin DOMAIN rules \/ rules[k].period # new.period THEN NoRow
    ELSE [book[k] EXCEPT !.allowance = IF new.routingOnly THEN << >> ELSE @]

\* applyWire: other documents.  A latch outlives the edit unless its rule is
\* gone or has just become one that only switches tiers.
Edit ==
    \E new \in scene.edits \ {rules} :
      /\ rules' = new
      /\ book' = [k \in DOMAIN new |-> Carry(k, new[k])]
      /\ latch' = [k \in {j \in DOMAIN latch \cap DOMAIN new :
                            /\ new[j].ladder # << >>
                            /\ ~(new[j].routingOnly /\ ~rules[j].routingOnly)} |-> latch[k]]
      /\ UNCHANGED <<scene, now, window, seen, gw, lapsed, forgot>>

-----------------------------------------------------------------------------
(* Gateways. *)

\* LeaseTable.set, the leases of one period: the most restrictive.
Merged(leases) ==
    {[allowance |-> Min({l.allowance : l \in leases}), expires |-> Min({l.expires : l \in leases}),
      hard |-> \E l \in leases : l.hard] : x \in {y \in {1} : leases # {}}}

LeaseOf(p, period) == Merged({l \in gw[p].lease : l.period = period})

\* LeaseTable.Blocked.
Blocked(p) ==
    \E d \in Periods : \E l \in LeaseOf(p, d) : l.hard /\ (now > l.expires \/ l.allowance <= 0)

\* The team's cap in a window: the smallest of its rules, clamped to the lease
\* (SetTeamLookup); nothing where there is no rule.
Cap(p, d) ==
    LET caps  == {r \in Range(gw[p].rules) : r.period = d /\ ~r.routingOnly}
        least == Min({r.limit : r \in caps})
        hard  == \E r \in caps : r.limit = least /\ r.hard
    IN  IF caps = {} THEN {}
        ELSE {IF \A l \in LeaseOf(p, d) : Max({1, l.allowance}) >= least
              THEN [limit |-> least, block |-> hard]
              ELSE [limit |-> Max({1} \cup {l.allowance : l \in LeaseOf(p, d)}),
                    block |-> hard \/ \E l \in LeaseOf(p, d) : l.hard]}

\* A request of the team: refused before the first heartbeat (require_sync),
\* by the lease gate and by a cap that blocks; else it is charged.
Spend(p) ==
    /\ gw[p].rules # << >>
    /\ ~Blocked(p) /\ gw[p].spent["month"] < MaxSpend
    /\ \A d \in Periods : \A c \in Cap(p, d) : c.block => gw[p].spent[d] < c.limit
    /\ gw' = [gw EXCEPT ![p].spent = [d \in Periods |-> @[d] + 1]]
    /\ UNCHANGED <<scene, rules, now, window, book, seen, latch, lapsed, forgot>>

\* syncOnce reports the spend in the window of each rule it enforces.
Report(p) ==
    /\ gw[p].call = "idle"
    /\ gw' = [gw EXCEPT ![p].call = "sent", ![p].report =
                 [k \in DOMAIN gw[p].rules |->
                    [period |-> gw[p].rules[k].period,
                     spent |-> gw[p].spent[gw[p].rules[k].period]]]]
    /\ UNCHANGED <<scene, rules, now, window, book, seen, latch, lapsed, forgot>>

\* higherPressure: the higher threshold, then the name of the rule.
higherPressure(a, b) == a.at > b.at \/ (a.at = b.at /\ a.rule < b.rule)

\* mergeConstraints: two targets for one model deny it.
mergeConstraints(out, restrictions) ==
    [m \in DOMAIN out \cup DOMAIN restrictions |->
       IF m \notin DOMAIN out THEN restrictions[m]
       ELSE IF m \notin DOMAIN restrictions \/ out[m] = restrictions[m] THEN out[m] ELSE ""]

\* Table.Set from a list of active tiers.
SetTable(active) ==
    FoldLeft(LAMBDA t, a :
               [sub |-> [m \in {x \in DOMAIN a.sub : \A c \in {t.sub[y] : y \in {x} \cap DOMAIN t.sub} :
                                                     higherPressure(a, c)} |-> a] @@ t.sub,
                strict |-> IF a.strict THEN mergeConstraints(t.strict, a.sub) ELSE t.strict],
             [sub |-> << >>, strict |-> << >>], active)

\* The answer is applied, or is lost.
Receive(p) ==
    /\ gw[p].call = "answered"
    /\ \/ gw' = [gw EXCEPT ![p].call = "idle", ![p].rules = gw[p].answer.rules,
                           ![p].lease = gw[p].answer.leases, ![p].tiers = gw[p].answer.tiers,
                           ![p].answer = NoAnswer]
       \/ gw' = [gw EXCEPT ![p].call = "idle", ![p].answer = NoAnswer]
    /\ UNCHANGED <<scene, rules, now, window, book, seen, latch, lapsed, forgot>>

\* The request is lost.
LoseRequest(p) ==
    /\ gw[p].call = "sent" /\ gw' = [gw EXCEPT ![p].call = "idle", ![p].report = << >>]
    /\ UNCHANGED <<scene, rules, now, window, book, seen, latch, lapsed, forgot>>

Tick ==
    /\ now < scene.time /\ now' = now + 1
    /\ UNCHANGED <<scene, rules, window, book, seen, latch, gw, lapsed, forgot>>

\* A day or a month ends; the counters of the gateways start again.
Roll ==
    /\ \E ends \in scene.roll :
          /\ \A d \in ends : window[d] = 0
          /\ window' = [d \in Periods |-> IF d \in ends THEN 1 ELSE window[d]]
          /\ gw' = [p \in DOMAIN gw |->
                      [gw[p] EXCEPT !.spent = [d \in Periods |-> IF d \in ends THEN 0 ELSE @[d]]]]
    /\ UNCHANGED <<scene, rules, now, book, seen, latch, lapsed, forgot>>

Next ==
    \/ \E p \in scene.ids :
          Spend(p) \/ Report(p) \/ HandleSync(p) \/ Receive(p) \/ LoseRequest(p)
    \/ Edit \/ Tick \/ Roll

Spec == Init /\ [][Next]_vars

-----------------------------------------------------------------------------
(* Properties. *)

Versions(k) == {v[k] : v \in {w \in scene.edits \cup {scene.rules} : k \in DOMAIN w}}

\* In its first window a team spends no more than a hard limit, whatever
\* heartbeats are lost and however often gateways stop or the limit is edited
\* (then: the largest limit), except for one grant for each gateway whose
\* lease ran out before it reported.  A gateway forgotten after a day takes
\* its spend out of the sum (handleSync, applyWire, LeaseTable).
HardLimitKept ==
    \A k \in DOMAIN rules :
       (\A v \in Versions(k) : v.hard /\ v.period = rules[k].period)
       /\ window[rules[k].period] = 0
       => Total([p \in {q \in scene.ids : q \notin forgot}
                   |-> gw[p].spent[rules[k].period]])
          <= Max({v.limit : v \in Versions(k)})
             + Max({v.grant : v \in Versions(k)}) * Cardinality(lapsed)

\* Within a window a tier that has fired stays, though a silent gateway's
\* grant is given back or its spend forgotten; and the tier that an answer
\* names exists, also after an edit that made the ladder shorter while its
\* last tier was active (Latch.Evaluate).
TierMonotone ==
    [][/\ \A k \in DOMAIN latch \cap DOMAIN latch' :
            rules' = rules /\ latch'[k].window = latch[k].window /\ latch[k].index <= Len(rules[k].ladder)
               => latch'[k].index >= latch[k].index
       /\ (\E p \in scene.ids : gw[p].call = "sent" /\ gw'[p].call = "answered")
            => \A k \in DOMAIN latch' : latch'[k].index <= Len(rules[k].ladder)]_vars

=============================================================================
