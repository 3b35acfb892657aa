------------------------------ MODULE Handlers ------------------------------
(***************************************************************************)
(* What the four inference ingresses of the mayu gateway have in common:   *)
(* the circuit breakers and session pins they share (internal/router), the *)
(* budget permits of an attempt (internal/server/requestpolicy), and the   *)
(* steps of a handler, one per place where the code reads something other  *)
(* requests or a reload may change.  Modules MessagesAPI, ChatAPI,         *)
(* InvokeAPI and ResponsesAPI say in which order each ingress takes them.  *)
(*                                                                         *)
(* The admission verdicts of the local governor and of the budget          *)
(* authority are nondeterministic here (modules Governor and EscrowFleet   *)
(* model them), and so are the answers of the providers.                   *)
(*                                                                         *)
(* A behaviour happens in one world, a record that says which topologies,  *)
(* policies and tiers follow each other, which requests arrive, and what   *)
(* the providers may answer.                                               *)
(***************************************************************************)
EXTENDS Routing, TLC

CONSTANTS
    Requests,          \* the requests, one handler goroutine each
    Worlds,            \* the scenarios
    Threshold,         \* consecutive failures that open a circuit
    BaseBackoff,       \* first opening time, in clock units
    MaxBackoff,        \* longest opening time
    MaxAffinityEntries,\* capacity of the affinity store
    MaxPinCount        \* the cap on a pin's request count (10000)

ASSUME GatewayAssumption ==
    {Threshold, BaseBackoff, MaxBackoff, MaxAffinityEntries, MaxPinCount} \subseteq Nat \ {0}

VARIABLES
    world,     \* the scenario, fixed
    gen,       \* live.Holder: index of the published topology
    pruned,    \* the reload that published it has run RetainBreakers
    pol,       \* policy.Store: index of the policy snapshot
    tier,      \* tier.Table: index of the active tiers and cost ceilings
    clock,
    breaker,   \* identity -> [fails, until, backoff], as far as present
    pins,      \* affinityStore.entries: session key -> entry
    revision,  \* affinityStore.revision
    req,       \* request -> the state of its handler
    wins       \* history: the successes recorded against pins

env == <<gen, pruned, pol, tier, clock>>
shared == <<breaker, pins, revision>>
vars == <<world, gen, pruned, pol, tier, clock, breaker, pins, revision, req, wins>>

Topology == world.topologies[gen]
Policy == world.policies[pol]
Tier == world.tiers[tier]
Key == world.principal

\* The topology a request has resolved on, and keeps.
State(r) == world.topologies[req[r].gen]

Target(r) == req[r].chain[req[r].at]
IsLast(r) == req[r].at = Len(req[r].chain)

-----------------------------------------------------------------------------
(* Circuit breakers (router/breaker.go)                                    *)

Closed == [fails |-> 0, until |-> 0, backoff |-> 0]

Circuit(id) == IF id \in DOMAIN breaker THEN breaker[id] ELSE Closed

\* breaker.Allow is false for these identities.
OpenCircuits == {id \in DOMAIN breaker : clock < breaker[id].until}

Least(a, b) == IF a < b THEN a ELSE b

Failed(c) ==
    LET n == c.fails + 1
        back == IF c.backoff = 0 THEN BaseBackoff ELSE Least(2 * c.backoff, MaxBackoff)
    IN  IF n < Threshold THEN [c EXCEPT !.fails = n]
        ELSE [fails |-> n, until |-> clock + back, backoff |-> back]

RecordFailure(id) == breaker' = id :> Failed(Circuit(id)) @@ breaker

RecordSuccess(id) ==
    breaker' = IF id \in DOMAIN breaker THEN [breaker EXCEPT ![id] = Closed] ELSE breaker

Retained(identities) == [id \in DOMAIN breaker \cap identities |-> breaker[id]]

-----------------------------------------------------------------------------
(* Session pins (router/affinity.go)                                       *)

Without(m, keys) == [k \in DOMAIN m \ keys |-> m[k]]

Expired(keys) == {k \in keys : clock >= pins[k].expires}

\* Mutant: a success pins whatever happened to the entry since routing.
AgreesAlways(entries, t) == TRUE

\* The entry is the one the token was issued against, or still absent.
Agrees(entries, t) ==
    IF t.key \in DOMAIN entries THEN entries[t.key].revision = t.expected ELSE t.expected = 0

\* The success extends the entry: same target, same policies.
Continues(entries, t, target) ==
    t.key \in DOMAIN entries /\ entries[t.key].target = target /\ entries[t.key].policy = t.policy

Revised == revision' = revision + 1

Pin(entries, t, target) ==
    LET same == Continues(entries, t, target)
    IN  [target |-> target, policy |-> t.policy,
         since |-> IF same THEN entries[t.key].since ELSE clock,
         expires |-> clock + t.ttl,
         requests |-> IF same THEN Least(entries[t.key].requests + 1, MaxPinCount) ELSE 1,
         revision |-> revision + 1]

\* RecordAffinitySuccess, called only while the request is not cancelled; a
\* request calls it at most once, so the token's used flag is left out.
RecordAffinitySuccess(r) ==
    LET target == AffinityTarget(State(r), Target(r))
        usable == {t \in req[r].token : /\ target \in t.allowed
                                        /\ ~req[r].cancelled
                                        /\ clock < t.issued + t.ttl}
        own(t) == Without(pins, Expired(DOMAIN pins \cap {t.key}))
        full(t) == t.key \notin DOMAIN own(t) /\ Cardinality(DOMAIN own(t)) >= MaxAffinityEntries
        room(t) == IF full(t) THEN Without(pins, Expired(DOMAIN pins)) ELSE own(t)
    IN  \/ usable = {} /\ UNCHANGED <<pins, revision, wins>>
        \/ \E t \in usable :
            IF ~Agrees(own(t), t) THEN pins' = own(t) /\ UNCHANGED <<revision, wins>>
            ELSE IF Cardinality(DOMAIN room(t) \ {t.key}) >= MaxAffinityEntries
            THEN pins' = room(t) /\ UNCHANGED <<revision, wins>>
            ELSE /\ pins' = t.key :> Pin(own(t), t, target) @@ room(t)
                 /\ Revised
                 /\ wins' = wins \cup {[by |-> r, key |-> t.key, target |-> target, policy |-> t.policy]}

-----------------------------------------------------------------------------
(* A request's handler: q is its record                                    *)

Idle == [pc |-> "idle", body |-> [ingress |-> None, count |-> FALSE], model |-> None, requested |-> None,
         gen |-> 1, chain |-> <<>>, rules |-> {}, masked |-> FALSE, token |-> {},
         seen |-> 0, at |-> 1, tries |-> <<>>, cancelled |-> FALSE, refused |-> FALSE,
         replies |-> 0, started |-> 0, outcomes |-> 0, routed |-> [pol |-> 1, tier |-> 1, rev |-> 0]]

Become(r, q) == req' = [req EXCEPT ![r] = q]

Ingress(r) == req[r].body.ingress

\* An error reply with its audit record (a started record with an outcome).
Refused(q) == [q EXCEPT !.pc = "done", !.refused = TRUE, !.replies = @ + 1, !.outcomes = @ + 1]

\* A token count that stays local: always a reply, never an upstream call.
Estimated(q) == [q EXCEPT !.pc = "done", !.replies = @ + 1]

\* A count is answered by an estimate where a generation is refused.
Turned(q) == IF q.body.count THEN Estimated(q) ELSE Refused(q)

Move(r, q) == Become(r, q) /\ UNCHANGED <<world, env, shared, wins>>

At(r, pc, ingress) == req[r].pc = pc /\ req[r].body.ingress = ingress

\* One more request of the world's load may arrive on this ingress.
Arrivals(r, ingress) ==
    IF req[r].pc = "idle" /\ Cardinality({x \in Requests : req[x].pc # "idle"}) < world.load
    THEN {b \in world.bodies : b.ingress = ingress} ELSE {}

\* The model is resolved; an unreadable body is refused without a record.
Arrive(r, body, m, next) ==
    LET q == [req[r] EXCEPT !.body = body, !.model = m, !.requested = m]
    IN  IF ~body.readable THEN Move(r, Estimated(q))
        ELSE Move(r, IF m = None THEN Turned(q) ELSE [q EXCEPT !.pc = next])

\* Router.SubstituteTier on what is live now.
Substituted(r) == SubstituteTier(Key, Policy, Topology, Tier.tiers, req[r].model)

\* Router.Allows on what is live now.
CheckAllowed(r, next) ==
    Move(r, IF Allows(Key, Policy, Topology, req[r].model) THEN [req[r] EXCEPT !.pc = next]
            ELSE Turned(req[r]))

\* Router.ResolveChain: the topology read here is the request's from now on.
Resolve(r) ==
    LET chain == ResolveChain(Topology, OpenCircuits, req[r].model)
    IN  Move(r, IF chain = <<>> THEN Turned(req[r])
                ELSE [req[r] EXCEPT !.chain = chain, !.gen = gen, !.pc = "filter"])

\* FilterModelAllowed, with the live topology and policies.
Permitted(r) == FilterModelAllowed(Key, Policy, Topology, req[r].chain)

\* The team's region lock on the permitted targets that the ingress can serve.
Narrow(r, servable) ==
    Move(r, [req[r] EXCEPT !.pc = "lookup", !.chain = FilterRegions(Key, State(r), servable)])

\* RouteRequest reads the routing rules, or refuses while the store has
\* rejected a policy.
LookupRules(r) ==
    /\ req[r].pc = "lookup"
    /\ Move(r, IF Policy.ok THEN [req[r] EXCEPT !.rules = Policy.rules, !.pc = "route"]
               ELSE IF req[r].body.count
               THEN [Estimated(req[r]) EXCEPT !.started = 1, !.outcomes = 1]
               ELSE Refused(req[r]))

SessionKey(r) ==
    <<Ingress(r), Canonical(State(r), req[r].requested), req[r].body.session>>

RoutingInput(r) ==
    LET q == req[r]
    IN  [ingress |-> q.body.ingress, count |-> q.body.count, p |-> Key, pol |-> Policy,
         rules |-> q.rules, st |-> State(r), open |-> OpenCircuits, requested |-> q.requested,
         model |-> q.model, chain |-> q.chain, body |-> q.body, ceilings |-> Tier.ceilings,
         now |-> clock,
         entry |-> IF SessionKey(r) \in DOMAIN pins THEN {pins[SessionKey(r)]} ELSE {}]

\* The rest of RouteRequest; then, per ingress, the refusal.
Route(r, denied, next) ==
    \E out \in {RouteRequest(RoutingInput(r))} :
        LET at == [pol |-> pol, tier |-> tier, rev |-> revision]
        IN  /\ Become(r, IF ~out.ok THEN [denied EXCEPT !.routed = at]
                         ELSE [req[r] EXCEPT !.model = out.model, !.chain = out.chain,
                                    !.masked = out.masked, !.token = out.token, !.routed = at,
                                    !.seen = IF out.recheck THEN pins[SessionKey(r)].revision ELSE 0,
                                    !.pc = IF out.recheck THEN "unpin" ELSE next])
            /\ pins' = IF out.drop THEN Without(pins, {SessionKey(r)}) ELSE pins
            /\ UNCHANGED <<world, env, breaker, revision, wins>>

\* The second critical section of prepareAffinity: drop the unusable pin that
\* was read, unless it has been replaced since.
Unpin(r) ==
    LET q == req[r]
        still == SessionKey(r) \in DOMAIN pins /\ pins[SessionKey(r)].revision = q.seen
    IN  /\ q.pc = "unpin"
        /\ pins' = IF still THEN Without(pins, {SessionKey(r)}) ELSE pins
        /\ Become(r, [q EXCEPT !.pc = "admit",
                               !.token = IF still THEN {[t EXCEPT !.expected = 0] : t \in @} ELSE @])
        /\ UNCHANGED <<world, env, breaker, revision, wins>>

-----------------------------------------------------------------------------
(* Admission and attempts                                                  *)

\* The estimate is within the model's window, and every target has a price if
\* prices are required (ContextWindow, PricingGuard).
Affordable(r) ==
    LET st == State(r)
        q == req[r]
        window == st.models[q.model].window
    IN  /\ window > 0 => q.body.input <= window
        /\ st.block => \A i \in DOMAIN q.chain : <<q.chain[i].provider, q.chain[i].upstream>> \in st.rates

\* The pre-checks of an ingress hold and PreCheck admits; or not.
Admit(r, checks, masked, started) ==
    \/ /\ checks /\ Affordable(r)
       /\ Move(r, [req[r] EXCEPT !.pc = "attempt", !.masked = masked, !.started = started])
    \/ Move(r, Refused(req[r]))

\* ReserveBudget can bound the cost of the attempt.
Boundable(r) ==
    LET t == Target(r)
    IN  /\ req[r].body.single
        /\ State(r).models[t.model].window > 0
        /\ <<t.provider, t.upstream>> \in State(r).rates

Try(r) ==
    [target |-> Target(r), clean |-> req[r].masked \/ ~req[r].body.detected, tier |-> tier,
     held |-> world.durable, done |-> FALSE, finishes |-> 0, proved |-> FALSE]

\* One turn of the loop over the chain up to the provider's call.
Attempt(r, started) ==
    /\ world.durable => Boundable(r)
    /\ Move(r, [req[r] EXCEPT !.pc = "call", !.tries = Append(@, Try(r)), !.started = started])

\* There is no escrow for the attempt.
Unreserved(r) == world.durable /\ Move(r, Refused(req[r]))

\* Mutant: the done flag is not consulted.
FinishAgain(t, proof) ==
    IF ~t.held THEN t ELSE [t EXCEPT !.done = TRUE, !.finishes = @ + 1, !.proved = proof]

\* budgetAttempt.finish: only the first call reaches the journal.
Finish(t, proof) ==
    IF ~t.held \/ t.done THEN t
    ELSE [t EXCEPT !.done = TRUE, !.finishes = @ + 1, !.proved = proof]

\* SettleBudget with what was observed, then finishBudget of the loop.
Settled(q, proof) == [q EXCEPT !.tries[q.at] = Finish(Finish(@, proof), FALSE)]

\* The deferred finishBudget calls.
Unwound(q) == [q EXCEPT !.tries = [i \in DOMAIN q.tries |-> Finish(q.tries[i], FALSE)]]

CrossModelNext(r) == ~IsLast(r) /\ req[r].chain[req[r].at + 1].model # Target(r).model

\* The loop's tail: the permit is kept as uncertain, the circuit told.
Retry(r, outcomes) ==
    /\ Become(r, [Settled(req[r], FALSE) EXCEPT !.pc = "attempt", !.at = @ + 1, !.outcomes = outcomes])
    /\ RecordFailure(Identity(State(r), Target(r)))
    /\ UNCHANGED <<world, env, pins, revision, wins>>

\* The end of a handler: reply n more times, one completed record.
Ended(q, proof, n) ==
    Unwound([Settled(q, proof) EXCEPT !.pc = "done", !.replies = @ + n, !.outcomes = @ + 1])

\* A reply after which the target counts as healthy, or not, and its session is
\* pinned to it, or not.
End(r, proof, n, healthy, pinned) ==
    /\ Become(r, Ended(req[r], proof, n))
    /\ IF healthy THEN RecordSuccess(Identity(State(r), Target(r))) ELSE UNCHANGED breaker
    /\ IF pinned THEN RecordAffinitySuccess(r) ELSE UNCHANGED <<pins, revision, wins>>
    /\ UNCHANGED <<world, env>>

\* Stream has returned: the circuit is told and the reply committed.
Commit(r) ==
    /\ Become(r, [req[r] EXCEPT !.pc = "stream", !.replies = @ + 1])
    /\ RecordSuccess(Identity(State(r), Target(r)))
    /\ UNCHANGED <<world, env, pins, revision, wins>>

\* What Complete may answer: an error without or with a client's status, a
\* response 5xx or 429, 404, another 4xx, one with usage, one without.
Answers == world.answers

\* Whether the team's own masking, where an ingress has one, succeeds.
MaskBody(r) == Key.masked => req[r].masked \/ req[r].body.maskable

\* Whether the usage of a good answer is exact, which a refund needs.
Exact == IF world.durable THEN BOOLEAN ELSE {TRUE}

\* The target of a count is asked, masked if need be; else an estimate.
CountUpstream(r, counts) ==
    LET q == req[r]
        told == [Estimated(q) EXCEPT !.started = 1, !.outcomes = 1]
        clean == q.masked \/ Key.masked \/ ~q.body.detected
        try == [Try(r) EXCEPT !.held = FALSE, !.clean = clean]
    IN  \/ MaskBody(r) /\ counts /\ Move(r, [told EXCEPT !.tries = <<try>>])
        \/ Move(r, told)
=============================================================================
