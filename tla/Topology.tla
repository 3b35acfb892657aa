------------------------------ MODULE Topology ------------------------------
(***************************************************************************)
(* The reloadable topology of one gateway (cmd/mayu/gateway.go,            *)
(* internal/providerstore, internal/live, ADR-006 and ADR-008): providers  *)
(* and model routes come from the config file, or, once the provider store *)
(* is seeded, from its database.  The console writes single rows, SIGHUP   *)
(* reloads, and the process may die between any two steps.  A generation   *)
(* is built whole and published by one pointer swap.                       *)
(*                                                                         *)
(* A file is a record: parses (every check of LoadRaw that reads one block *)
(* alone), providers, models, fallbacks, overrides (the priced pairs),     *)
(* block (pricing.on_missing), broker (a control plane with a broker       *)
(* token) and journal (the durable journal's path, "" for none).           *)
(***************************************************************************)
EXTENDS Naturals, Sequences, FiniteSets, SequencesExt

CONSTANTS TopoWorlds    \* [store, sites, ops, hups, crashes]: the scenario

VARIABLES world,        \* the scenario, chosen once
          site,         \* which of world.sites the file and secrets are at
          db,           \* [seeded, providers, models]: the provider store
          origin,       \* the last change of the store: who made it, and where
          phase,        \* down | seeded | up
          boot,         \* [file, cred]: what the process started with
          live,         \* the published generation, NoGen before the first
          breakers,     \* provider identities with circuit breaker state
          mu,           \* reloadMu: 0 free, else the operation holding it
          ops,          \* per operation: [pc, cand, at, answer]; at is the site read
          hups, crashes \* reloads and deaths so far

topoVars == <<world, site, db, origin, phase, boot, live, breakers, mu, ops, hups, crashes>>

NoGen  == [providers |-> <<>>, models |-> <<>>, fallbacks |-> <<>>]
NoRows == [seeded |-> FALSE, providers |-> <<>>, models |-> <<>>]
Site   == world.sites[site]
Empty(f) == [x \in DOMAIN f \cap {} |-> f[x]]
With(f, k, v)  == [x \in DOMAIN f \cup {k} |-> IF x = k THEN v ELSE f[x]]
Minus(f, k)    == [x \in DOMAIN f \ {k} |-> f[x]]

----------------------------------------------------------------------------
(* internal/config                                                         *)

\* validateModelAliases, with ValidateModelMetadata
ValidateModelAliases(models) ==
  \A m \in DOMAIN models :
    /\ models[m].window >= 0
    /\ \A a \in models[m].aliases :
         /\ a \notin DOMAIN models
         /\ \A n \in DOMAIN models \ {m} : a \notin models[n].aliases

\* validateModelFallbacks: known, not itself, one hop
ValidateModelFallbacks(models, fallbacks) ==
  LET known == DOMAIN models \cup UNION {models[m].aliases : m \in DOMAIN models}
  IN  \A r \in DOMAIN fallbacks :
        /\ fallbacks[r] # r
        /\ fallbacks[r] \in known
        /\ fallbacks[r] \notin DOMAIN fallbacks

\* LoadRaw: provider secrets are not resolved here
LoadRaw(f) ==
  /\ f.parses
  /\ ValidateModelAliases(f.models)
  /\ ValidateModelFallbacks(f.models, f.fallbacks)

\* validateBrokerMode
ValidateBrokerMode(c) == c.broker

\* ResolveProviders, with ResolveSecretRef: every reference resolves now
ResolveProviders(c, env) ==
  \A p \in DOMAIN c.providers :
    /\ c.providers[p].ref \in env \cup {"none"}
    /\ c.providers[p].type = "broker" => ValidateBrokerMode(c)

----------------------------------------------------------------------------
(* internal/live                                                           *)

Targets(c) == UNION {Range(c.models[m].targets) : m \in DOMAIN c.models}

\* UnpricedTargets
UnpricedTargets(c) == Targets(c) \ c.overrides

\* validatePricingCoverage, with routesTo
ValidatePricingCoverage(c) ==
  /\ \A o \in c.overrides : o[1] \in DOMAIN c.providers /\ o \in Targets(c)
  /\ c.block => UnpricedTargets(c) = {}

\* providers.New as this code uses it: a known type; a broker-mode provider
\* fetches its first credentials while it is built.
NewProvider(row, env, cred) ==
  /\ row.type \in {"anthropic", "bedrock", "broker"}
  /\ row.type = "broker" => cred /\ "sts" \in env

\* BuildStateWith: whether the config makes a generation
BuildStateWith(c, env, cred) ==
  /\ ValidateModelAliases(c.models)
  /\ \A p \in DOMAIN c.providers : NewProvider(c.providers[p], env, cred)
  /\ \A t \in Targets(c) : t[1] \in DOMAIN c.providers
  /\ ValidatePricingCoverage(c)

\* NewState and the fields BuildStateWith adds
NewState(c) == [providers |-> c.providers, models |-> c.models, fallbacks |-> c.fallbacks]

\* identityOf: a re-pointed provider is another identity
IdentityOf(row) == <<row.type, row.url>>
Identities(g) == {IdentityOf(g.providers[p]) : p \in DOMAIN g.providers}

----------------------------------------------------------------------------
(* internal/providerstore                                                  *)

\* OverlayFrom: providers and models of the file are replaced
OverlayFrom(f, d) == [f EXCEPT !.providers = d.providers, !.models = d.models]

\* UpsertProvider, DeleteProvider, SetModel and DeleteModel, on the rows
UpsertProvider(d, n, row) == [d EXCEPT !.providers = With(@, n, row)]
DeleteProvider(d, n)      == [d EXCEPT !.providers = Minus(@, n)]
SetModel(d, n, route)     == [d EXCEPT !.models = With(@, n, route)]
DeleteModel(d, n)         == [d EXCEPT !.models = Minus(@, n)]

\* One console write applied to rows: mutate of writeMutation, and the row
\* change its persist makes (WriteProvider .. DeleteModel)
Mutate(d, op) ==
  CASE op.kind = "putProvider" -> UpsertProvider(d, op.name, op.row)
    [] op.kind = "delProvider" -> DeleteProvider(d, op.name)
    [] op.kind = "putModel"    -> SetModel(d, op.name, op.row)
    [] op.kind = "delModel"    -> DeleteModel(d, op.name)

\* ErrNotFound of the two deletes
NotFound(d, op) ==
  \/ op.kind = "delProvider" /\ op.name \notin DOMAIN d.providers
  \/ op.kind = "delModel" /\ op.name \notin DOMAIN d.models

\* Seed: the file's rows and the marker in one transaction, unless marked
Seed(d, f) ==
  IF d.seeded THEN d
  ELSE [seeded |-> TRUE, providers |-> f.providers, models |-> f.models]

\* SeedIfEmpty: what it refuses before it touches the database
SeedIfEmptyAccepts(f) == ValidateModelAliases(f.models)

----------------------------------------------------------------------------
(* cmd/mayu                                                                *)

\* buildEffective
BuildEffective(f) == IF world.store THEN OverlayFrom(f, db) ELSE f

\* validateDurableModels: a priced route needs a context window
ValidateDurableModels(c) ==
  c.journal = "" \/ \A m \in DOMAIN c.models : \A t \in Range(c.models[m].targets) :
                      t \in c.overrides => c.models[m].window > 0

\* validateAuthorityReload: the journal is bound to the running process
ValidateAuthorityReload(f) == f.journal = boot.file.journal

\* brokerAuthConfigured
BrokerAuthConfigured(c) == \E p \in DOMAIN c.providers : c.providers[p].type = "broker"

\* Whether a config boots or loads in the end
Builds(c, env, cred) ==
  /\ ResolveProviders(c, env)
  /\ BuildStateWith(c, env, cred)
  /\ ValidateDurableModels(c)

\* newGateway up to SeedIfEmpty: the seed commits before anything is built
BootSeed ==
  /\ phase = "down"
  /\ LoadRaw(Site.file)
  /\ world.store => SeedIfEmptyAccepts(Site.file)
  /\ db' = IF world.store THEN Seed(db, Site.file) ELSE db
  /\ origin' = IF db' # db THEN [by |-> "seed", file |-> Site.file, env |-> Site.env] ELSE origin
  /\ boot' = [file |-> Site.file, cred |-> FALSE]
  /\ phase' = "seeded"
  /\ UNCHANGED <<world, site, live, breakers, mu, ops, hups, crashes>>

\* newGateway from buildEffective on: publish the first generation, or exit.
\* The file is the one BootSeed read; secrets are resolved only here.
BootBuild ==
  LET c    == BuildEffective(boot.file)
      cred == BrokerAuthConfigured(c)
  IN  /\ phase = "seeded"
      /\ \/ /\ Builds(c, Site.env, cred)
            /\ phase' = "up"
            /\ live' = NewState(c)
            /\ boot' = [boot EXCEPT !.cred = cred]
            /\ crashes' = crashes
         \/ /\ ~ Builds(c, Site.env, cred)
            /\ crashes < world.crashes
            /\ crashes' = crashes + 1
            /\ phase' = "down"
            /\ UNCHANGED <<live, boot>>
      /\ breakers' = {}
      /\ UNCHANGED <<world, site, db, origin, mu, ops, hups>>

\* The operator edits the file or a secret comes or goes
EditSite ==
  /\ site < Len(world.sites)
  /\ site' = site + 1
  /\ UNCHANGED <<world, db, origin, phase, boot, live, breakers, mu, ops, hups, crashes>>

\* ParseProviderWrite and ParseModelWrite: the shape of the row alone
ParseProviderWrite(op) == op.row.type # ""
ParseModelWrite(op) == op.row.targets # <<>> /\ op.row.window >= 0
Parses(op) ==
  /\ op.kind = "putProvider" => ParseProviderWrite(op)
  /\ op.kind = "putModel" => ParseModelWrite(op)

Answered(i, code) == [ops EXCEPT ![i] = [pc |-> "done", cand |-> NoGen, at |-> 1, answer |-> code]]

\* WriteHandler: refused before the writer is called
WriteRefused(i) ==
  /\ phase = "up" /\ ops[i].pc = "new"
  /\ ~ world.store \/ ~ Parses(world.ops[i])
  /\ ops' = Answered(i, IF world.store THEN 400 ELSE 405)
  /\ UNCHANGED <<world, site, db, origin, phase, boot, live, breakers, mu, hups, crashes>>

\* The candidate of writeMutation, and every check it makes of it
Candidate(op) == OverlayFrom(Site.file, Mutate(db, op))
Validated(op) ==
  /\ LoadRaw(Site.file)
  /\ ValidateAuthorityReload(Site.file)
  /\ LET c == Candidate(op)
     IN  /\ ValidateModelFallbacks(c.models, c.fallbacks)
         /\ Builds(c, Site.env, boot.cred)

\* Mutant: the candidate is built before reloadMu is taken.
Unlocked == TRUE

\* reloadMu, held by a write or a reload from its first read to its swap
Locked == mu = 0

\* writeMutation up to its last check: list the rows, build the candidate
WriteBegin(i) ==
  /\ phase = "up" /\ Locked /\ ops[i].pc = "new"
  /\ world.store /\ Parses(world.ops[i])
  /\ \/ /\ Validated(world.ops[i])
        /\ mu' = i
        /\ ops' = [ops EXCEPT ![i] = [pc |-> "valid", cand |-> NewState(Candidate(world.ops[i])),
                                      at |-> site, answer |-> 0]]
     \/ /\ ~ Validated(world.ops[i])
        /\ ops' = Answered(i, 400)
        /\ mu' = mu
  /\ UNCHANGED <<world, site, db, origin, phase, boot, live, breakers, hups, crashes>>

\* persist: the row is committed, is not there, or the database fails
Persist(i) ==
  /\ phase = "up" /\ ops[i].pc = "valid"
  /\ \/ /\ ~ NotFound(db, world.ops[i])
        /\ db' = Mutate(db, world.ops[i])
        /\ LET s == world.sites[ops[i].at]
           IN  origin' = [by |-> "write", file |-> s.file, env |-> s.env]
        /\ ops' = [ops EXCEPT ![i].pc = "stored"]
        /\ mu' = mu
     \/ \E code \in {404, 500} :
          /\ code = 404 => NotFound(db, world.ops[i])
          /\ ops' = Answered(i, code)
          /\ mu' = 0
          /\ UNCHANGED <<db, origin>>
  /\ UNCHANGED <<world, site, phase, boot, live, breakers, hups, crashes>>

\* holder.Swap and RetainBreakers, then the 204 and its audit record
Publish(i) ==
  /\ phase = "up" /\ ops[i].pc = "stored"
  /\ live' = ops[i].cand
  /\ breakers' = breakers \cap Identities(ops[i].cand)
  /\ ops' = Answered(i, 204)
  /\ mu' = 0
  /\ UNCHANGED <<world, site, db, origin, phase, boot, hups, crashes>>

\* reloadWorker: SIGHUP rebuilds from the file and the store, or keeps the
\* generation it has
Reload ==
  LET c == BuildEffective(Site.file)
  IN  /\ phase = "up" /\ Locked /\ hups < world.hups
      /\ hups' = hups + 1
      /\ IF LoadRaw(Site.file) /\ ValidateAuthorityReload(Site.file) /\ Builds(c, Site.env, boot.cred)
         THEN live' = NewState(c) /\ breakers' = breakers \cap Identities(live')
         ELSE UNCHANGED <<live, breakers>>
      /\ UNCHANGED <<world, site, db, origin, phase, boot, mu, ops, crashes>>

\* A provider of the published generation fails a request
Trip(p) ==
  /\ phase = "up" /\ p \in DOMAIN live.providers
  /\ IdentityOf(live.providers[p]) \notin breakers
  /\ breakers' = breakers \cup {IdentityOf(live.providers[p])}
  /\ UNCHANGED <<world, site, db, origin, phase, boot, live, mu, ops, hups, crashes>>

\* The process dies; its clients never hear of the writes it was at
Crash ==
  /\ phase # "down" /\ crashes < world.crashes
  /\ crashes' = crashes + 1
  /\ phase' = "down" /\ mu' = 0 /\ live' = NoGen /\ breakers' = {}
  /\ ops' = [i \in DOMAIN ops |-> IF ops[i].pc \in {"valid", "stored"}
                                  THEN [ops[i] EXCEPT !.pc = "lost", !.cand = NoGen, !.at = 1] ELSE ops[i]]
  /\ UNCHANGED <<world, site, db, origin, boot, hups>>

Init ==
  /\ world \in TopoWorlds
  /\ site = 1
  /\ db = [NoRows EXCEPT !.providers = Empty(world.sites[1].file.providers),
                         !.models = Empty(world.sites[1].file.models)]
  /\ origin = [by |-> "none", file |-> world.sites[1].file, env |-> {}]
  /\ phase = "down"
  /\ boot = [file |-> world.sites[1].file, cred |-> FALSE]
  /\ live = NoGen /\ breakers = {} /\ mu = 0
  /\ ops = [i \in DOMAIN world.ops |-> [pc |-> "new", cand |-> NoGen, at |-> 1, answer |-> 0]]
  /\ hups = 0 /\ crashes = 0

Next ==
  \/ BootSeed \/ BootBuild \/ EditSite \/ Reload \/ Crash
  \/ \E i \in DOMAIN ops : WriteRefused(i) \/ WriteBegin(i) \/ Persist(i) \/ Publish(i)
  \/ \E p \in DOMAIN live.providers : Trip(p)

----------------------------------------------------------------------------
(* Properties                                                              *)

\* With a provider store, what is served is what is stored: whenever no write
\* is under way, the published generation is the store's rows, whatever
\* order console writes, reloads, file edits and deaths came in.  And the
\* rows a console write left always build with the file and the secrets they
\* were validated against, so a restart never finds rows that a write broke
\* (writeMutation, reloadLocked, reloadMu).
ServedIsStored ==
  world.store =>
    /\ phase = "up" /\ mu = 0 => live.providers = db.providers /\ live.models = db.models
    /\ origin.by = "write" =>
         LET c == OverlayFrom(origin.file, db)
         IN  \E cred \in BOOLEAN : Builds(c, origin.env, cred)
=============================================================================
