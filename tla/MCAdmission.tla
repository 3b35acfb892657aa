---------------------------- MODULE MCAdmission ----------------------------
(***************************************************************************)
(* The two governance back ends in small worlds: the shared one of module  *)
(* SharedAdmission, which a gateway with a control plane database uses,    *)
(* and the local one of module Governor.  A behaviour is of one of them;   *)
(* the other stays in its initial state.                                   *)
(***************************************************************************)
EXTENDS SharedAdmission

CONSTANTS r1, r2

VARIABLES part,        \* the back end in use
          localWorld, localNow, version, buckets, quotas, localCounters, fired, fires, req

localVars ==
    <<localWorld, localNow, version, buckets, quotas, localCounters, fired, fires, req>>

-----------------------------------------------------------------------------
(* Worlds of shared governance. *)

Lim(key, kind, limit, hard, period, money) ==
    [key |-> key, kind |-> kind, limit |-> limit, hard |-> hard, period |-> period,
     money |-> money]

Usage(in, out, read, creation, split) ==
    [input |-> in, output |-> out, read |-> read, creation |-> creation, split |-> split,
     uncertain |-> FALSE]

\* A plain answer, one that uses every price category, one beyond the context
\* window, and one whose cache writes have no known lifetime.
Exact  == Usage({1}, {1}, {}, {}, {})
Full   == Usage({1}, {1}, {1}, {}, {[m5 |-> {1}, h1 |-> {1}]})
Broken == Usage({2}, {1}, {}, {}, {})
Untold == Usage({1}, {0}, {}, {1}, {})

\* A token rate that is cut and raised while attempts are open.
Rates ==
    [policies |-> <<{}>>,
     limits |-> <<{Lim("t", "tpm", 7, TRUE, 0, FALSE)}, {Lim("t", "tpm", 5, TRUE, 0, FALSE)}>>,
     expires |-> 9, horizon |-> 3, usages |-> {Exact}, wants |-> {}]

\* Policy money that a node's grant draws on too, hard and soft.
Money ==
    [policies |-> <<{Lim("m", "microUSD", 9, TRUE, 2, TRUE)},
                    {Lim("m", "microUSD", 9, FALSE, 2, TRUE)}>>,
     limits |-> <<{}>>, expires |-> 9, horizon |-> 2,
     usages |-> {Exact, Broken}, wants |-> {4}]

\* A token quota that ends, a request rate and a soft key budget, on a key
\* that expires.
Quotas ==
    [policies |-> <<{Lim("q", "tokens", 8, TRUE, 1, FALSE)}, {}>>,
     limits |-> <<{Lim("r", "rpm", 2, TRUE, 0, FALSE),
                   Lim("b", "microUSD", 6, FALSE, 2, FALSE)}>>,
     expires |-> 3, horizon |-> 3, usages |-> {Full, Untold, Broken}, wants |-> {}]

MCWorlds == {Rates, Money, Quotas}
MCAttempts == {r1, r2}
Symmetry == Permutations(MCAttempts)

-----------------------------------------------------------------------------
(* Worlds of local governance. *)

LocalCounters ==
    {<<"month", "team", "a">>, <<"day", "team", "a">>, <<"day", "user", "u">>,
     <<"month", "key", "l">>, <<"month", "team", "b">>, <<"month", "key", "k">>}

Alice == [team |-> "a", key |-> "k", user |-> "u"]
Bob   == [team |-> "b", key |-> "l", user |-> "v"]

Policy(f) ==
    f @@ [rpm |-> 0, tpm |-> 0, quota |-> 0, month |-> 0, day |-> 0,
          quotaWarn |-> FALSE, monthWarn |-> FALSE, dayWarn |-> FALSE]

LocalBase ==
    [policies |-> <<>>, subject |-> <<Alice, Alice, Bob>>, estimate |-> 2,
     outcomes |-> {[tokens |-> 1, cost |-> 2]}, thresholds |-> {}, leaseGate |-> {FALSE},
     capacity |-> 1, horizon |-> 2]

\* Request rates of two teams in a store for one entry.
RequestRates ==
    [LocalBase EXCEPT
       !.policies = <<(<<"team", "a">> :> Policy([rpm |-> 2])) @@
                      (<<"team", "b">> :> Policy([rpm |-> 2]))>>,
       !.subject = <<Alice, Alice, Alice, Bob>>]

\* Token rates, with answers above and below the estimate.
TokenRates ==
    [LocalBase EXCEPT
       !.policies = <<(<<"key", "k">> :> Policy([tpm |-> 4])) @@
                      (<<"team", "b">> :> Policy([tpm |-> 2]))>>,
       !.outcomes = {[tokens |-> 1, cost |-> 1], [tokens |-> 4, cost |-> 1]}]

\* Month and day budgets of three scopes in a store for two counters.
Budgets ==
    [LocalBase EXCEPT
       !.policies = <<(<<"team", "a">> :> Policy([month |-> 2])) @@
                      (<<"user", "u">> :> Policy([day |-> 1])) @@
                      (<<"key", "l">> :> Policy([month |-> 1]))>>,
       !.capacity = 2, !.horizon = 1]

\* Budgets that are edited while requests are in flight.
Edited ==
    [LocalBase EXCEPT
       !.policies = <<(<<"team", "a">> :> Policy([month |-> 2])) @@
                      (<<"user", "u">> :> Policy([day |-> 1])),
                      <<"team", "a">> :> Policy([month |-> 2, day |-> 1, dayWarn |-> TRUE])>>,
       !.subject = <<Alice, Alice>>]

\* Quotas that block and that warn, with leases that may lapse.
Leased ==
    [LocalBase EXCEPT
       !.policies = <<(<<"team", "a">> :> Policy([quota |-> 3])) @@
                      (<<"team", "b">> :> Policy([quota |-> 3, quotaWarn |-> TRUE,
                                                  month |-> 3, monthWarn |-> TRUE]))>>,
       !.leaseGate = BOOLEAN]

\* Alert thresholds crossed by settlements that interleave.
Alerts ==
    [LocalBase EXCEPT
       !.policies = <<(<<"team", "a">> :> Policy([month |-> 4])) @@
                      (<<"key", "k">> :> Policy([month |-> 8]))>>,
       !.subject = <<Alice, Alice, Alice>>, !.thresholds = {50, 100}, !.capacity = 9,
       !.horizon = 0]

LocalWorlds == {RequestRates, TokenRates, Budgets, Edited, Leased, Alerts}

Local == INSTANCE Governor WITH
    Worlds <- LocalWorlds, Requests <- 1..4, Counters <- LocalCounters, MaxCost <- 2,
    DayLength <- 1, MonthLength <- 2,
    world <- localWorld, now <- localNow, counters <- localCounters

-----------------------------------------------------------------------------

MCInit ==
    /\ Init /\ Local!Init /\ part \in {"shared", "local"}
    /\ part = "shared" => localWorld = Edited
    /\ part = "local" => world = Quotas

MCNext ==
    \/ part = "shared" /\ Next /\ UNCHANGED <<part, localVars>>
    \/ part = "local" /\ Local!Next /\ UNCHANGED <<part, vars>>

MCSpec == MCInit /\ [][MCNext]_<<part, vars, localVars>>

-----------------------------------------------------------------------------
(* The properties of Governor, for the runs. *)

\* Local budgets and request rates bind despite races, sweeps and capacity
\* (PreCheck, Settle, Limiter).
LimitsBind == Local!LimitsBind

\* The counters of internal/budget implement Allowance.
BudgetPromise == Local!BudgetPromise
=============================================================================
