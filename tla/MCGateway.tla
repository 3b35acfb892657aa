------------------------------ MODULE MCGateway ------------------------------
(***************************************************************************)
(* The gateway of module Gateway in small worlds: fallback across          *)
(* providers and models with reloads, privacy rules, session pins, cost    *)
(* ceilings, durable budgets with region locks and panics, and every kind  *)
(* of request alone.  Beside it, as a part of its own, where the topology  *)
(* it serves comes from (Topology): one part runs in a behaviour.          *)
(***************************************************************************)
EXTENDS Gateway

VARIABLES part,
          deployment, site, db, origin, phase, boot, live, breakers, mu, ops, hups, crashes

serveVars == <<world, gen, pruned, pol, tier, clock, breaker, pins, revision, req, wins>>
topoVars  == <<deployment, site, db, origin, phase, boot, live, breakers, mu, ops, hups, crashes>>

MCLineage == [opus3 |-> [family |-> "opus", version |-> <<3>>],
              opus4 |-> [family |-> "opus", version |-> <<4>>],
              opus5 |-> [family |-> "opus", version |-> <<5>>]]
MCOrder == <<"haiku", "opus3", "opus4">>

Prov(kind, identity, region, boundary) ==
    [kind |-> kind, identity |-> identity, region |-> region, boundary |-> boundary]

To(provider, upstream) ==
    [provider |-> provider, upstream |-> upstream, api |-> None, claude |-> TRUE]

Model(targets) == [targets |-> targets, window |-> 4, caps |-> {"tools"}]

\* Two providers; opus4 is on both, its older sibling and haiku on one.
Base ==
    [alias |-> [best |-> "opus4"],
     models |-> [opus4 |-> Model(<<To("a", "u4"), To("b", "u4")>>),
                 opus3 |-> Model(<<To("b", "u3")>>),
                 haiku |-> Model(<<To("b", "uh")>>)],
     fallbacks |-> <<>>, family |-> TRUE,
     providers |-> [a |-> Prov("anthropic", "ia", "eu", None),
                    b |-> Prov("bedrock", "ib", "us", "internal")],
     rates |-> {<<"a", "u4">>, <<"b", "u4">>, <<"b", "u3">>, <<"b", "uh">>},
     block |-> TRUE]

Anyone == [allowed |-> {"*"}, regions |-> {}, masked |-> FALSE]

NoRules == [ok |-> TRUE, access |-> {}, rules |-> {}]

NoTier == [tiers |-> <<>>, ceilings |-> {}]

Body ==
    [ingress |-> "anthropic", asks |-> "best", stream |-> FALSE, single |-> TRUE, ok |-> TRUE,
     complete |-> TRUE, detected |-> FALSE, remote |-> FALSE, needs |-> {}, input |-> 1,
     output |-> 1, turns |-> 1, history |-> FALSE, keyword |-> "none", converse |-> TRUE,
     portable |-> TRUE, strict |-> FALSE, maskable |-> TRUE, session |-> None,
     readable |-> TRUE, count |-> FALSE]

World ==
    [topologies |-> <<Base>>, policies |-> <<NoRules>>, tiers |-> <<NoTier>>,
     principal |-> Anyone, bodies |-> {Body}, load |-> 2, durable |-> FALSE,
     cancels |-> FALSE, panics |-> FALSE, end |-> 0,
     answers |-> {"error", "rejected", "busy", "notfound", "client", "ok", "silent"}]

\* A provider is re-pointed and a model withdrawn while requests fall back.
Reloads ==
    LET moved == [Base EXCEPT !.providers.a.identity = "ic",
                              !.models = [opus4 |-> Model(<<To("a", "u4")>>), haiku |-> Base.models.haiku]]
    IN  [World EXCEPT !.topologies = <<Base, moved>>, !.end = 1,
                      !.bodies = {Body, [Body EXCEPT !.stream = TRUE],
                                  [Body EXCEPT !.ingress = "bedrock", !.asks = "u3"]}]

Private(detected, opaque, internal) ==
    [ref |-> "p", kind |-> "privacy", onDetected |-> detected, onUninspectable |-> opaque,
     internal |-> internal]

\* Personal data, bodies that cannot be inspected, and a policy that turns from
\* masking to internal models only, by way of one the store rejects.
Privacy ==
    [World EXCEPT
        !.topologies = <<[Base EXCEPT !.providers = ("c" :> Prov("openai_compatible", "ic", "us", "internal")) @@ @,
                                      !.models.opus3.targets = Append(@, To("c", "u3")),
                                      !.rates = @ \cup {<<"c", "u3">>}]>>,
        !.policies = <<[NoRules EXCEPT !.rules = {Private("Mask", "Block", {})}],
                       [NoRules EXCEPT !.ok = FALSE],
                       [NoRules EXCEPT !.rules = {Private("InternalOnly", "InternalOnly", {"haiku", "opus3"})},
                                       !.access = {{"opus4", "opus3"}}]>>,
        !.principal = [Anyone EXCEPT !.masked = TRUE],
        !.bodies = {[Body EXCEPT !.ingress = i, !.detected = d, !.complete = c, !.maskable = m, !.remote = ~m] :
                        i \in {"anthropic", "openai"}, d \in BOOLEAN, c \in BOOLEAN, m \in BOOLEAN}]

Context(stability) ==
    [ref |-> "c", kind |-> "context", from |-> {"opus4"}, simple |-> "haiku", normal |-> None,
     complex |-> "opus4", maxSimple |-> 1, maxNormal |-> 0, enforce |-> TRUE, stability |-> stability]

\* One session whose requests are simple or complex, pinned for a while.
Sessions ==
    LET hold == {[minHold |-> 1, minRequests |-> 2, ttl |-> 2]}
    IN  [World EXCEPT
            !.topologies = <<[Base EXCEPT !.family = FALSE, !.models.opus4.targets = <<To("a", "u4")>>]>>,
            !.policies = <<[NoRules EXCEPT !.rules = {Context(hold)}],
                           [NoRules EXCEPT !.rules = {Context(hold)}, !.access = {{"opus4"}}]>>,
            !.bodies = {[Body EXCEPT !.session = "s"], [Body EXCEPT !.session = "s", !.input = 2]},
            !.answers = {"ok"}, !.load = 3, !.end = 2]

\* Two sessions for one place in the store.
Crowded ==
    [Sessions EXCEPT !.bodies = {[Body EXCEPT !.session = s, !.stream = x] : s \in {"s", "z"}, x \in BOOLEAN},
                     !.load = 2]

\* Every kind of request alone: each ingress, streams, counts, bodies that
\* cannot be read, names that are unknown or an upstream's.
Alone ==
    LET kinds == {[Body EXCEPT !.ingress = i, !.stream = s] :
                    i \in {"anthropic", "openai", "bedrock", "responses"}, s \in BOOLEAN}
                   \cup {[Body EXCEPT !.ingress = i, !.count = TRUE] : i \in {"anthropic", "bedrock"}}
    IN  [World EXCEPT
            !.load = 1, !.cancels = TRUE, !.panics = TRUE,
            !.bodies = {[b EXCEPT !.readable = x, !.asks = a, !.detected = d] :
                            b \in kinds, x \in BOOLEAN, d \in BOOLEAN,
                            a \in {"best", "u3", "opus5", "other"}}]

\* The same with budget permits.
AloneDurable == [Alone EXCEPT !.durable = TRUE]

\* A ceiling that moves while requests of the Responses ingress are retried.
Ceilings ==
    LET to(m) == [NoTier EXCEPT !.ceilings = {[from |-> "best", to |-> m]}]
        st == [Base EXCEPT !.providers.a.kind = "openai_compatible", !.providers.b.kind = "openai_responses"]
    IN  [World EXCEPT !.topologies = <<st>>, !.tiers = <<NoTier, to("opus4"), to("haiku")>>,
                      !.bodies = {[Body EXCEPT !.ingress = "responses", !.stream = x] : x \in BOOLEAN},
                      !.cancels = TRUE, !.answers = {"error", "busy", "client", "ok"}]

\* Permits of the budget authority, a team locked to one region, panics.
Durable ==
    [World EXCEPT !.principal = [Anyone EXCEPT !.regions = {"us"}], !.durable = TRUE, !.panics = TRUE,
                  !.tiers = <<NoTier, [NoTier EXCEPT !.tiers = [opus4 |-> "haiku"]]>>,
                  !.bodies = {[Body EXCEPT !.ingress = i, !.stream = x, !.single = y] :
                                i \in {"bedrock", "responses"}, x \in BOOLEAN, y \in BOOLEAN}]

MCWorlds == {Reloads, Privacy, Sessions, Crowded, Ceilings, Durable, Alone, AloneDurable}

-----------------------------------------------------------------------------
(* Deployments of one gateway and its provider store. *)

Row(type, url, ref) == [type |-> type, url |-> url, ref |-> ref]
ModelRow(targets, aliases, window) == [targets |-> targets, aliases |-> aliases, window |-> window]
Remote == Row("anthropic", "u1", "k1")
Broker == Row("broker", "", "none")
Single == ModelRow(<<<<"a", "x">>>>, {"s"}, 5)
Double == ModelRow(<<<<"b", "y">>, <<"a", "x">>>>, {}, 0)

File(providers, models) ==
    [parses |-> TRUE, providers |-> providers, models |-> models, fallbacks |-> <<>>,
     overrides |-> {}, block |-> FALSE, broker |-> FALSE, journal |-> ""]
Edition(file, secrets) == [file |-> file, env |-> secrets]
Ask(kind, name, row) == [kind |-> kind, name |-> name, row |-> row]
Deployment(sites, asked) ==
    [store |-> TRUE, sites |-> sites, ops |-> asked, hups |-> 1, crashes |-> 1]

Plain    == File(("a" :> Remote) @@ ("b" :> Row("anthropic", "u2", "none")),
                 ("m" :> Single) @@ ("n" :> Double))
Brokered == [File(("a" :> Remote) @@ ("b" :> Broker), "m" :> Single) EXCEPT !.broker = TRUE]
Metered  == [File("a" :> Remote, "m" :> Single)
               EXCEPT !.journal = "j", !.overrides = {<<"a", "x">>}]

\* Writes that need each other's rows while the file's fallbacks change.
Related ==
    Deployment(<<Edition(Plain, {"k1"}), Edition([Plain EXCEPT !.fallbacks = "old" :> "n"], {"k1"})>>,
               <<Ask("delProvider", "b", 0), Ask("putModel", "n", ModelRow(<<<<"a", "x">>>>, {}, 1)),
                 Ask("putModel", "q", Double), Ask("delModel", "n", 0)>>)

\* A secret that goes away, with prices required; rows the API refuses.
Secrets ==
    Deployment(<<Edition(Plain, {"k1"}),
                 Edition([Plain EXCEPT !.overrides = {<<"a", "x">>}, !.block = TRUE], {}), Edition(Plain, {"k1"})>>,
               <<Ask("putProvider", "a", Row("anthropic", "u3", "k1")),
                 Ask("putModel", "q", ModelRow(<<<<"a", "x">>>>, {"s"}, 1)),
                 Ask("delProvider", "c", 0), Ask("putProvider", "d", Row("", "u", "none"))>>)

\* Providers behind the credential broker, which lapses.
Brokers ==
    Deployment(<<Edition(Brokered, {"k1", "sts"}), Edition(Brokered, {"k1"})>>,
               <<Ask("delProvider", "b", 0), Ask("putProvider", "c", Broker)>>)

\* A durable journal, which a reload may not move and whose models need a window.
Journals ==
    Deployment(<<Edition(Metered, {"k1"}), Edition([Metered EXCEPT !.journal = "j2"], {"k1"})>>,
               <<Ask("putModel", "m", ModelRow(<<<<"a", "x">>>>, {}, 0)),
                 Ask("putModel", "m", ModelRow(<<<<"a", "x">>>>, {}, 9))>>)

\* No store: the file alone, one edition of which does not parse.
FileOnly ==
    [Deployment(<<Edition(Plain, {"k1"}), Edition([Plain EXCEPT !.parses = FALSE], {"k1"}),
                  Edition([Plain EXCEPT !.fallbacks = "old" :> "n"], {"k1"})>>,
                <<Ask("delModel", "n", 0)>>) EXCEPT !.store = FALSE, !.hups = 2]

\* A first file whose model names a provider it does not have.
Unbuildable ==
    [Deployment(<<Edition(File("a" :> Remote, "m" :> Double), {"k1"}), Edition(Plain, {"k1"})>>, <<>>)
       EXCEPT !.hups = 0, !.crashes = 2]

Deployments == {Related, Secrets, Brokers, Journals, FileOnly, Unbuildable}

Topo == INSTANCE Topology WITH TopoWorlds <- Deployments, world <- deployment

MCInit ==
    /\ part \in {"serve", "topology"}
    /\ Init /\ Topo!Init
    /\ part # "serve" => world = Sessions
    /\ part # "topology" => deployment = FileOnly

MCNext ==
    \/ part = "serve" /\ Next /\ UNCHANGED <<part, topoVars>>
    \/ part = "topology" /\ Topo!Next /\ UNCHANGED <<part, serveVars>>

MCSpec == MCInit /\ [][MCNext]_<<part, serveVars, topoVars>>

-----------------------------------------------------------------------------
\* What a gateway serves is what its provider store holds (writeMutation, reloadLocked).
ServedIsStored == part = "topology" => Topo!ServedIsStored

\* Focus: of three requests at most one is on its way to the routing decision;
\* these steps change nothing shared.
Focus ==
    world.load = 3 =>
        Cardinality({r \in Requests : req[r].pc \in {"tier", "allow", "chain", "filter", "lookup"}}) <= 1

Symmetry == Permutations(Requests)
=============================================================================
