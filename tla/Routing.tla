------------------------------- MODULE Routing -------------------------------
(***************************************************************************)
(* The routing decision of the mayu gateway (internal/router, with the     *)
(* lookups of internal/live, internal/policy and internal/keystore): from  *)
(* one topology generation, one policy snapshot and the set of providers   *)
(* whose circuit is open, the sequence of targets a request may be sent    *)
(* to.  The operators are pure; module Gateway says when the code reads    *)
(* each of their arguments.                                                *)
(*                                                                         *)
(* A topology (live.State) is a record with fields                         *)
(*   alias     : alias -> model name                                       *)
(*   models    : model name -> [targets, window, caps]; a target is a      *)
(*               [provider, upstream, api, claude] record, claude meaning  *)
(*               that the upstream name is one of Claude's                 *)
(*   fallbacks : model name -> model name (model_fallbacks)                *)
(*   family    : whether the same-family default is on                     *)
(*   providers : provider name -> [kind, identity, region, boundary]       *)
(*   rates     : the <<provider, upstream>> pairs that have a price        *)
(* A principal is [allowed, regions, masked]; a policy snapshot is         *)
(* [ok, access, rules]; a body is what inspection says of the request.     *)
(***************************************************************************)
EXTENDS Naturals, Sequences, SequencesExt, FiniteSets

CONSTANTS
    Lineage,     \* familyOf: the versioned names -> [family, version]
    Order        \* the model names in alphabetical order

None == ""

Routed(st, m) == m \in DOMAIN st.models

Canonical(st, name) == IF name \in DOMAIN st.alias THEN st.alias[name] ELSE name

\* compareVersions: lexicographic, a missing component counts as 0.
Component(v, i) == IF i <= Len(v) THEN v[i] ELSE 0

Below(a, b) ==
    \E i \in 1 .. (Len(a) + Len(b)) :
        /\ Component(a, i) < Component(b, i)
        /\ \A j \in 1 .. (i - 1) : Component(a, j) = Component(b, j)

\* live.State.FallbackFor: the configured fallback, else the newest routed
\* model of the same family that is older than m.
FallbackFor(st, m) ==
    LET older == {n \in DOMAIN st.models \cap DOMAIN Lineage :
                    /\ Lineage[n].family = Lineage[m].family
                    /\ Below(Lineage[n].version, Lineage[m].version)}
    IN  IF m \in DOMAIN st.fallbacks THEN st.fallbacks[m]
        ELSE IF ~st.family \/ m \notin DOMAIN Lineage \/ older = {} THEN None
        ELSE CHOOSE n \in older :
                \A o \in older : ~Below(Lineage[n].version, Lineage[o].version)

ResolveModel(st, asked) ==
    LET c == Canonical(st, asked)
        fb == FallbackFor(st, c)
    IN  IF Routed(st, c) \/ fb = None THEN c ELSE fb

Names(st, list, m) == "*" \in list \/ m \in list \/ \E n \in list : Canonical(st, n) = m

\* policy.Store.ModelAllowed: every matching modelAccess rule must allow.
ModelAllowed(pol, st, m) == \A list \in pol.access : Names(st, list, m)

\* Router.Allows, and allowsInState: the same test on a given generation.
Allows(p, pol, st, m) == Names(st, p.allowed, m) /\ ModelAllowed(pol, st, m)

\* Router.SubstituteTier: the tier's target when both models are permitted.
SubstituteTier(p, pol, st, tiers, m) ==
    LET target == IF m \in DOMAIN tiers THEN Canonical(st, tiers[m]) ELSE m
    IN  IF Allows(p, pol, st, m) /\ Routed(st, target) /\ Allows(p, pol, st, target)
        THEN target ELSE m

-----------------------------------------------------------------------------
(* Chains                                                                  *)

Provider(st, t) == st.providers[t.provider]
Identity(st, t) == Provider(st, t).identity

\* The ChainTargets of one model, skipping targets of unknown providers.
Targets(st, m) ==
    LET ts == IF Routed(st, m) THEN st.models[m].targets ELSE <<>>
        ct(i) == [model |-> m, provider |-> ts[i].provider, upstream |-> ts[i].upstream]
    IN  SelectSeq([i \in DOMAIN ts |-> ct(i)], LAMBDA t : t.provider \in DOMAIN st.providers)

\* Skip the open circuits, unless that leaves nothing.
Healthy(st, open, chain) ==
    LET up == SelectSeq(chain, LAMBDA t : Identity(st, t) \notin open)
    IN  IF up = <<>> THEN chain ELSE up

\* Router.ResolveChain; the empty chain stands for its errors.
ResolveChain(st, open, m) ==
    IF ~Routed(st, m) \/ st.models[m].targets = <<>> THEN <<>>
    ELSE Healthy(st, open, Targets(st, m) \o Targets(st, FallbackFor(st, m)))

FilterModelAllowed(p, pol, st, chain) ==
    SelectSeq(chain, LAMBDA t : t.model = chain[1].model \/ Allows(p, pol, st, t.model))

InRegion(p, st, t) == p.regions = {} \/ Provider(st, t).region \in p.regions

FilterRegions(p, st, chain) == SelectSeq(chain, LAMBDA t : InRegion(p, st, t))

-----------------------------------------------------------------------------
(* What a provider's wire can carry                                        *)

\* requestAPIs: the API override of a provider's upstream, from every model.
Api(st, t) ==
    LET all == UNION {{st.models[m].targets[i] : i \in DOMAIN st.models[m].targets} :
                        m \in DOMAIN st.models}
        same == {x \in all : x.provider = t.provider /\ x.upstream = t.upstream}
        set == {x.api : x \in same} \ {None}
    IN  IF Cardinality(set) > 1 THEN "conflicting"
        ELSE IF set # {} THEN CHOOSE a \in set : TRUE
        ELSE IF \E x \in same : x.claude THEN "invoke_model" ELSE "converse"

Feature(body) ==
    ~body.complete \/ body.needs \cap {"vision", "reasoning", "structured_output"} # {}

RequestCompatible(ingress, st, t, body) ==
    LET kind == Provider(st, t).kind
    IN  IF ingress = "responses"
        THEN kind = "openai_responses" \/ (kind # "bedrock" /\ ~Feature(body))
        ELSE CASE kind = "openai_responses"  -> FALSE
               [] kind = "anthropic"         -> ingress = "anthropic"
               [] kind = "openai_compatible" -> ingress = "openai" \/ ~Feature(body)
               [] kind = "bedrock" ->
                    CASE Api(st, t) = "invoke_model" -> ingress # "openai"
                      [] Api(st, t) = "converse"     ->
                            /\ ~Feature(body)
                            /\ ~(ingress = "openai" /\ "tools" \in body.needs)
                            /\ body.converse
                      [] Api(st, t) = "mantle"       -> ~Feature(body)
                      [] OTHER                       -> FALSE

\* responsesapi.compatibleTarget, the Responses ingress's own condition.
CompatibleTarget(st, t, body) ==
    LET kind == Provider(st, t).kind
    IN  \/ kind = "openai_responses"
        \/ /\ body.portable
           /\ body.strict => /\ kind # "anthropic"
                             /\ "structured_output" \in st.models[t.model].caps
           /\ kind \in {"openai_compatible", "anthropic"}

Compatible(ingress, st, t, body) ==
    /\ RequestCompatible(ingress, st, t, body)
    /\ ingress = "responses" => CompatibleTarget(st, t, body)

Fits(st, m, body) ==
    LET mc == st.models[m]
    IN  mc.window > 0 /\ body.input + body.output <= mc.window /\ body.needs \subseteq mc.caps

-----------------------------------------------------------------------------
(* The request boundary (requestBoundary): in is the input of RouteRequest *)
(* (ingress, count, principal p, policy snapshot pol, rules, topology st,  *)
(* open circuits, requested, model, chain, body, ceilings, entry, now); to *)
(* it are added the models an InternalOnly rule leaves and the ceiling.    *)

\* Mutant: the key's permissions are taken for granted.
PassesUnasked(b, t, automatic) ==
    /\ b.budget # None => t.model = b.budget
    /\ InRegion(b.p, b.st, t)
    /\ b.internal => t.model \in b.models /\ Provider(b.st, t).boundary = "internal"
    /\ Compatible(b.ingress, b.st, t, b.body)
    /\ automatic => Fits(b.st, t.model, b.body) /\ <<t.provider, t.upstream>> \in b.st.rates

\* One target is within the boundary; what RouteRequest chose by itself must
\* also fit the request and have a price.
Passes(b, t, automatic) ==
    /\ b.budget # None => t.model = b.budget
    /\ Allows(b.p, b.pol, b.st, t.model)
    /\ InRegion(b.p, b.st, t)
    /\ b.internal => t.model \in b.models /\ Provider(b.st, t).boundary = "internal"
    /\ Compatible(b.ingress, b.st, t, b.body)
    /\ \/ automatic
       \/ t.model # b.model
       \/ b.budget # None
       \/ b.ingress = "responses" /\ Provider(b.st, t).kind # "openai_responses"
       => Fits(b.st, t.model, b.body) /\ <<t.provider, t.upstream>> \in b.st.rates

\* requestBoundary.filter: hosted tools leave an internal-only request nothing.
Filter(b, chain, automatic) ==
    IF b.internal /\ b.body.remote THEN <<>>
    ELSE SelectSeq(chain, LAMBDA t : Passes(b, t, automatic))

\* Router.requestChain: breakers are consulted after the filter.
RequestChain(b, m) ==
    LET fb == FallbackFor(b.st, m)
        other == IF fb = m THEN None ELSE Canonical(b.st, fb)
    IN  IF Targets(b.st, m) = <<>> THEN <<>>
        ELSE Healthy(b.st, b.open,
                     Filter(b, Targets(b.st, m) \o Targets(b.st, other), m # b.model))

\* legacyChain: the established RBAC and region tests only.
LegacyChain(in) ==
    SelectSeq(in.chain, LAMBDA t : Allows(in.p, in.pol, in.st, t.model) /\ InRegion(in.p, in.st, t))

\* Router.budgetConstraint: the mandatory targets named for the request; more
\* than one, or an empty one, is a conflict.
BudgetTargets(st, ceilings, requested) ==
    {Canonical(st, c.to) : c \in {x \in ceilings : Canonical(st, x.from) = requested}}

BudgetConflict(to) == None \in to \/ Cardinality(to) > 1

BudgetTargetAllowed(st, ceilings, requested, m) ==
    LET to == BudgetTargets(st, ceilings, requested)
    IN  to # {} => to = {m} /\ ~BudgetConflict(to)
-----------------------------------------------------------------------------
(* Context rules and affinity                                              *)

RequestRules(rules, st, m) ==
    {r \in rules : r.kind = "privacy" \/ \E f \in r.from : Canonical(st, f) = m}

\* One context rule's model for the request; a rule with a middle model or a
\* stability setting looks for its keywords in the latest user turn only.
Recommend(c, body) ==
    LET keyword == IF c.normal # None \/ c.stability # {} THEN body.keyword = "latest"
                   ELSE body.keyword # "none"
    IN  IF c.normal # None /\ keyword THEN c.complex
        ELSE IF body.input > c.maxSimple
             THEN IF c.normal # None /\ body.input <= c.maxNormal THEN c.normal ELSE c.complex
        ELSE IF keyword THEN c.complex ELSE c.simple

\* stabilityOf: every context rule must opt in; the empty set stands for nil.
StabilityOf(context) ==
    LET all == UNION {c.stability : c \in context}
        s == [minHold |-> Max({x.minHold : x \in all}),
              minRequests |-> Max({x.minRequests : x \in all}),
              ttl |-> Min({x.ttl : x \in all})]
    IN  IF (\E c \in context : c.stability = {}) \/ s.ttl < s.minHold THEN {} ELSE {s}

AffinityTarget(st, t) ==
    t @@ [identity |-> Identity(st, t), region |-> Provider(st, t).region,
          boundary |-> Provider(st, t).boundary]

AffinityPolicyDigest(b, rules, masked) ==
    [model |-> b.model, budget |-> b.budget, masked |-> masked,
     internal |-> b.internal, models |-> b.models, rules |-> rules]

\* A pinned entry e that is still valid, given the chain of its model: no
\* target of the chain is the pinned one, or it need not be held, or it leads.
Pinned(b, s, e, chain, none) ==
    LET hits == {i \in DOMAIN chain : /\ AffinityTarget(b.st, chain[i]) = e.target
                                      /\ Identity(b.st, chain[i]) \notin b.open}
        hold == b.now < e.since + s.minHold \/ e.requests < s.minRequests
    IN  IF hits = {} THEN [none EXCEPT !.recheck = TRUE]
        ELSE IF ~hold THEN none
        ELSE [none EXCEPT !.pinned = <<chain[Min(hits)]>> \o RemoveAt(chain, Min(hits))]

\* prepareAffinity up to its second critical section: the request's token, the
\* pinned chain, whether the entry found is dropped at once, and whether it
\* must be dropped unless somebody has replaced it (recheck).
PrepareAffinity(b, digest, settings) ==
    LET valid == {e \in b.entry : b.now < e.expires /\ e.policy = digest}
        token(s) == [key |-> <<b.ingress, Canonical(b.st, b.requested), b.body.session>>, policy |-> digest,
                     expected |-> Max({e.revision : e \in valid} \cup {0}),
                     issued |-> b.now, ttl |-> s.ttl, allowed |-> {}]
        none == [token |-> {token(s) : s \in settings}, drop |-> FALSE, pinned |-> <<>>, recheck |-> FALSE]
    IN  IF settings = {} \/ b.body.session = None THEN [none EXCEPT !.token = {}]
        ELSE IF valid = {} THEN [none EXCEPT !.drop = b.entry # {}]
        ELSE CHOOSE aff \in {Pinned(b, s, e, Filter(b, RequestChain(b, e.target.model), TRUE), none) :
                                s \in settings, e \in valid} : TRUE

\* finishAffinity: the token names the targets whose success may be pinned.
FinishAffinity(b, out, token) ==
    LET chain == Filter(b, out.chain, TRUE)
    IN  [out EXCEPT !.token = IF chain = <<>> THEN {}
                              ELSE {[t EXCEPT !.allowed = {AffinityTarget(b.st, x) : x \in ToSet(chain)}] :
                                        t \in token}]

\* The proposed model's first target can carry the request.
Leads(b, proposed) ==
    /\ Routed(b.st, proposed)
    /\ b.st.models[proposed].targets # <<>>
    /\ LET t == Head(b.st.models[proposed].targets)
       IN  /\ t.provider \in DOMAIN b.st.providers
           /\ Compatible(b.ingress, b.st, [model |-> proposed, provider |-> t.provider,
                                          upstream |-> t.upstream], b.body)

\* The pin decides, else the proposed model if it is eligible and has a chain.
Select(b, out, settings, proposed, candidate, aff) ==
    LET seen == [out EXCEPT !.drop = aff.drop, !.recheck = aff.recheck]
        eligible == /\ b.body.complete
                    /\ b.body.turns >= 1
                    /\ settings = {} => b.body.turns = 1 /\ ~b.body.history /\ b.body.needs = {}
        moves == /\ proposed # Canonical(b.st, out.model)
                 /\ Leads(b, proposed)
                 /\ candidate # <<>> /\ candidate[1].model = proposed
    IN  IF aff.pinned = <<>> /\ ~eligible THEN seen
        ELSE FinishAffinity(b, CASE aff.pinned # <<>> ->
                                        [seen EXCEPT !.model = aff.pinned[1].model, !.chain = aff.pinned]
                                 [] aff.pinned = <<>> /\ moves ->
                                        [seen EXCEPT !.model = proposed, !.chain = candidate]
                                 [] OTHER -> seen,
                            aff.token)

\* applyContext: all context rules must propose one model and be enforced.
Propose(b, out, context, settings, proposals) ==
    IF Cardinality(proposals) # 1 \/ \E c \in context : ~c.enforce THEN out
    ELSE LET digest == AffinityPolicyDigest(b, b.applied, out.masked)
         IN  CHOOSE o \in {Select(b, out, settings, m, RequestChain(b, m),
                                  PrepareAffinity(b, digest, settings)) : m \in proposals} : TRUE

ApplyContext(b, out) ==
    LET context == {r \in b.applied : r.kind = "context"}
    IN  Propose(b, out, context, StabilityOf(context),
                {Canonical(b.st, Recommend(c, b.body)) : c \in context})

-----------------------------------------------------------------------------
(* Router.RouteRequest after its policy lookup                             *)

\* What one privacy rule asks of the request.
Triggered(r, body) ==
    (IF body.detected THEN {<<"detected", r.onDetected>>} ELSE {})
      \cup (IF body.complete THEN {} ELSE {<<"opaque", r.onUninspectable>>})

Denied == [ok |-> FALSE, model |-> None, chain |-> <<>>, masked |-> FALSE,
           token |-> {}, drop |-> FALSE, recheck |-> FALSE]

Routable(model, chain, masked) ==
    [Denied EXCEPT !.ok = TRUE, !.model = model, !.chain = chain, !.masked = masked]

\* The first internal model, in alphabetical order, that has a safe chain.
InternalRecovery(b) ==
    LET usable == SelectSeq(Order, LAMBDA m : m \in b.models /\ RequestChain(b, m) # <<>>)
    IN  IF usable = <<>> THEN <<>> ELSE RequestChain(b, Head(usable))

\* The requestBoundary: the input, the rules that apply, what the privacy rules
\* ask for, the models an InternalOnly rule leaves, and the cost ceiling.
Boundary(in, applied, to) ==
    LET private == {r \in applied : r.kind = "privacy"}
        asks == UNION {Triggered(r, in.body) : r \in private}
        inside == {r \in private : \E a \in Triggered(r, in.body) : a[2] = "InternalOnly"}
        mask == <<"detected", "Mask">> \in asks
    IN  [model |-> Canonical(in.st, in.model), applied |-> applied, private |-> private # {},
         asks |-> asks, mask |-> mask, to |-> to,
         budget |-> IF to = {} THEN None ELSE CHOOSE m \in to : TRUE,
         internal |-> inside # {},
         models |-> {m \in DOMAIN in.st.models :
                        \A r \in inside : \E n \in r.internal : Canonical(in.st, n) = m},
         body |-> IF mask THEN [in.body EXCEPT !.detected = FALSE] ELSE in.body,
         asked |-> in.model] @@ in

\* The attempts that survive privacy rules and a cost ceiling.
SafeChain(b, kept) ==
    IF b.to # {} THEN RequestChain(b, b.budget)
    ELSE IF kept = <<>> /\ b.internal THEN InternalRecovery(b)
    ELSE kept

\* A count stops here; a generation goes on to its context rules.
Chosen(b, out) ==
    IF out.chain = <<>> THEN Denied
    ELSE IF b.count \/ b.applied = {} \/ ~b.body.ok THEN out
    ELSE ApplyContext(b, out)

Restricted(b, safe) ==
    IF \/ b.asks \cap {<<"detected", "Block">>, <<"opaque", "Block">>, <<"opaque", "Mask">>} # {}
       \/ b.mask /\ ~(b.body.maskable /\ b.body.complete)
       \/ safe = <<>>
    THEN Denied ELSE Routable(safe[1].model, safe, b.mask)

Decide(b) ==
    IF \/ ~Allows(b.p, b.pol, b.st, Canonical(b.st, b.requested))
       \/ ~Allows(b.p, b.pol, b.st, b.model)
       \/ BudgetConflict(b.to)
       \/ ~b.body.ok /\ (b.ingress = "responses" \/ b.private \/ b.to # {})
    THEN Denied
    ELSE Chosen(b, IF b.private \/ b.to # {}
                   THEN Restricted(b, SafeChain(b, Filter(b, b.chain, FALSE)))
                   ELSE Routable(b.asked, IF b.ingress = "responses" THEN Filter(b, b.chain, FALSE)
                                          ELSE LegacyChain(b), FALSE))

RouteRequest(in) ==
    Decide(Boundary(in, RequestRules(in.rules, in.st, Canonical(in.st, in.model)),
                    BudgetTargets(in.st, in.ceilings, Canonical(in.st, in.requested))))
=============================================================================
