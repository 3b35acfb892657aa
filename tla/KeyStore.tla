------------------------------ MODULE KeyStore ------------------------------
(***************************************************************************)
(* Virtual keys and team records (internal/keystore, server/adminapi,      *)
(* server/authapi, cmd/mayu keys and login; ADR-016, 023, 028, 046).  Two  *)
(* gateways share one store, a SQLite file or Postgres.  Each boot         *)
(* declares the keys and teams of its configuration; administrators edit   *)
(* and revoke meanwhile; a laptop mints, renews and gives up its own key;  *)
(* an operator imports a drained SQLite file into Postgres.                *)
(*                                                                         *)
(* A key's secret, hash and id are one number.  Its row is [team, opts,    *)
(* expires, created, revoked], expires 0 for never; a team's row is [rec,  *)
(* created, updated], rec standing for all of its limits.                  *)
(***************************************************************************)
EXTENDS Naturals, Sequences, FiniteSets, SequencesExt

CONSTANTS KeyWorlds,    \* [backend, sites, source, teams, admins, team, edits, boots, mints, horizon]
          CliTTL,       \* cli_login's key lifetime, in ticks
          renewBefore   \* the margin of `mayu token`

VARIABLES world,        \* the scenario, chosen once
          db,           \* [keys, teams, prints]: the store and its seed fingerprints
          source,       \* [keys, teams]: the SQLite file of the legacy deployment
          gw,           \* per gateway [pc, site, next]
          admin,        \* per administrator: the request in flight
          cli, creds,   \* the laptop: a command in flight, credentials.json
          clock, edits, boots, minted,
          gone,         \* keys whose revocation was acknowledged
          wanted,       \* per team, what the last administrator made of it
          accepted,     \* the sites some boot has been served with
          balked        \* sites refused after that, their keys' teams at hand

keyVars == <<world, db, source, gw, admin, cli, creds, clock, edits, boots,
             minted, gone, wanted, accepted, balked>>

Gateways == {1, 2}
Admins   == DOMAIN world.admins
Shared   == world.backend = "postgres"
Idle     == [do |-> "idle"]
NoCreds  == [key |-> 0, expires |-> 0]
NoTeam   == [rec |-> 0, created |-> 0, updated |-> 0]
MintBase == 10

Put(f, k, v) == [x \in DOMAIN f \cup {k} |-> IF x = k THEN v ELSE f[x]]
Drop(f, k)   == [x \in DOMAIN f \ {k} |-> f[x]]
Join(f, g)   == [x \in DOMAIN f \cup DOMAIN g |-> IF x \in DOMAIN f THEN f[x] ELSE g[x]]

----------------------------------------------------------------------------
(* The store                                                               *)

NewRow(team, opts, expires) ==
  [team |-> team, opts |-> opts, expires |-> expires, created |-> clock, revoked |-> FALSE]

\* checkPostgresExpiry and SQLite's Resolve disagree on the very instant
Expired(row) ==
  row.expires # 0 /\ (IF Shared THEN clock >= row.expires ELSE clock > row.expires)

\* Resolve
Resolve(k) == k \in DOMAIN db.keys /\ ~db.keys[k].revoked /\ ~Expired(db.keys[k])

\* List
List == {k \in DOMAIN db.keys : ~db.keys[k].revoked}

\* scanPostgresSnapshot: the joined rows that SharedRevision digests
Snapshot(k) ==
  LET row == db.keys[k]
  IN  [key |-> row, team |-> IF row.team \in DOMAIN db.teams THEN db.teams[row.team] ELSE NoTeam]

\* CreateWithOptions, a fresh secret every time
CreateWithOptions(team, opts, expires) ==
  [db EXCEPT !.keys = Put(@, MintBase + minted, NewRow(team, opts, expires))]

\* Mutant: declaring a key again brings it back
EnsureReviving(d, k, team, opts) ==
  [d EXCEPT !.keys = Put(@, k, [NewRow(team, opts, 0) EXCEPT !.created =
                                  IF k \in DOMAIN d.keys THEN d.keys[k].created ELSE clock])]

\* EnsureKey: the upsert leaves created_at and revoked alone
EnsureKey(d, k, team, opts) ==
  [d EXCEPT !.keys = Put(@, k,
     IF k \in DOMAIN d.keys
     THEN [d.keys[k] EXCEPT !.team = team, !.opts = opts, !.expires = 0]
     ELSE NewRow(team, opts, 0))]

Revoked(d, k) == [d EXCEPT !.keys = [@ EXCEPT ![k].revoked = TRUE]]

\* Revoke finds the row by id, RevokeSnapshot a live row equal to the one seen
MayRevoke(k, seen) ==
  IF Shared THEN k \in List /\ Snapshot(k) = seen ELSE k \in DOMAIN db.keys

UpsertTeam(t, rec) ==
  [db EXCEPT !.teams = Put(@, t, [rec |-> rec, updated |-> clock,
     created |-> IF t \in DOMAIN @ THEN @[t].created ELSE clock])]

DeleteTeam(t) == [db EXCEPT !.teams = Drop(@, t)]

----------------------------------------------------------------------------
(* Seeding Postgres                                                        *)

\* keySeedFingerprint and teamSeedFingerprint: no id, time or revocation
Fingerprint(row) == [team |-> row.team, opts |-> row.opts, expires |-> row.expires]

Declared(s) ==
  Join([i \in {<<"team", t>> : t \in DOMAIN s.teams} |-> s.teams[i[2]]],
       [i \in {<<"key", e.key>> : e \in Range(s.keys)} |->
          LET e == CHOOSE x \in Range(s.keys) : x.key = i[2]
          IN  [team |-> e.team, opts |-> e.opts, expires |-> 0]])

Present(i) == IF i[1] = "team" THEN i[2] \in DOMAIN db.teams ELSE i[2] \in DOMAIN db.keys
Stored(i)  == IF i[1] = "team" THEN db.teams[i[2]].rec ELSE Fingerprint(db.keys[i[2]])

\* knownSeedFingerprint's error, else that of the first attachment
Refused(i, print) ==
  IF i \in DOMAIN db.prints THEN db.prints[i] # print
  ELSE Present(i) /\ Stored(i) # print

\* Seed: insert what no fingerprint and no row knows, all or nothing
Seed(s) ==
  LET d   == Declared(s)
      new == {i \in DOMAIN d : i \notin DOMAIN db.prints /\ ~Present(i)}
  IN  [keys   |-> Join(db.keys, [k \in {i[2] : i \in {x \in new : x[1] = "key"}} |->
                    d[<<"key", k>>] @@ [created |-> clock, revoked |-> FALSE]]),
       teams  |-> Join(db.teams, [t \in {i[2] : i \in {x \in new : x[1] = "team"}} |->
                    [rec |-> d[<<"team", t>>], created |-> clock, updated |-> clock]]),
       prints |-> Join(db.prints, d)]

\* ImportSQLite compares whole rows, tombstones included
ImportClashes ==
  \/ \E k \in DOMAIN source.keys \cap DOMAIN db.keys : source.keys[k] # db.keys[k]
  \/ \E t \in DOMAIN source.teams \cap DOMAIN db.teams : source.teams[t] # db.teams[t]
Import == [db EXCEPT !.keys = Join(@, source.keys), !.teams = Join(@, source.teams)]

----------------------------------------------------------------------------
(* Boots                                                                   *)

Site(g) == world.sites[gw[g].site]
KnownTeam(g, t) == t \in DOMAIN Site(g).teams \/ t \in DOMAIN db.teams

Boot(g) ==
  /\ gw[g].pc = "down" /\ boots < world.boots
  /\ boots' = boots + 1
  /\ \E s \in DOMAIN world.sites : gw' = [gw EXCEPT ![g] = [pc |-> "boot", site |-> s, next |-> 1]]
  /\ UNCHANGED <<world, db, source, admin, cli, creds, clock, edits, minted, gone, wanted, accepted, balked>>

\* newGateway's loop over virtual_keys, or the lookups of seedSharedKeys
BootKey(g) ==
  LET at == gw[g].next
      e  == Site(g).keys[at]
  IN  /\ gw[g].pc = "boot" /\ at <= Len(Site(g).keys)
      /\ IF KnownTeam(g, e.team)
         THEN /\ gw' = [gw EXCEPT ![g].next = at + 1]
              /\ db' = IF Shared THEN db ELSE EnsureKey(db, e.key, e.team, e.opts)
         ELSE /\ gw' = [gw EXCEPT ![g].pc = "down"]
              /\ UNCHANGED db
      /\ UNCHANGED <<world, source, admin, cli, creds, clock, edits, boots, minted, gone, wanted, accepted, balked>>

\* Seed in one transaction under both table locks; a SQLite gateway just serves
BootServe(g) ==
  LET s == gw[g].site
      d == Declared(Site(g))
      refused == Shared /\ \E i \in DOMAIN d : Refused(i, d[i])
  IN  /\ gw[g].pc = "boot" /\ gw[g].next > Len(Site(g).keys)
      /\ gw' = [gw EXCEPT ![g].pc = IF refused THEN "down" ELSE "up"]
      /\ db' = IF Shared /\ ~refused THEN Seed(Site(g)) ELSE db
      /\ accepted' = IF refused THEN accepted ELSE accepted \cup {s}
      /\ balked' = IF refused /\ s \in accepted THEN balked \cup {s} ELSE balked
      /\ UNCHANGED <<world, source, admin, cli, creds, clock, edits, boots, minted, gone, wanted>>

Stop(g) ==
  /\ gw[g].pc = "up"
  /\ gw' = [gw EXCEPT ![g].pc = "down"]
  /\ UNCHANGED <<world, db, source, admin, cli, creds, clock, edits, boots, minted, gone, wanted, accepted, balked>>

Serving == \E g \in Gateways : gw[g].pc = "up"

----------------------------------------------------------------------------
(* The admin API                                                           *)

Budgeted == edits < world.edits /\ edits' = edits + 1

\* AdminIdentity.Entitled; requireAdmin lets only full administrators write teams
Full(a) == world.admins[a].full
Entitled(a, t) == Full(a) \/ t \in world.admins[a].teams

\* KeysHandler.create
CreateKey(a) ==
  /\ Serving /\ admin[a] = Idle /\ minted < world.mints /\ Budgeted
  /\ \E t \in world.teams, x \in {0, clock + 1} :
       Entitled(a, t) /\ db' = CreateWithOptions(t, 1, x)
  /\ minted' = minted + 1
  /\ UNCHANGED <<world, source, gw, admin, cli, creds, clock, boots, gone, wanted, accepted, balked>>

\* KeysHandler.revoke: keyOf and the entitlement check come first...
RevokeLook(a) ==
  /\ Serving /\ admin[a] = Idle /\ Budgeted
  /\ \E k \in List :
       /\ Entitled(a, db.keys[k].team)
       /\ admin' = [admin EXCEPT ![a] = [do |-> "revoke", key |-> k, seen |-> Snapshot(k)]]
  /\ UNCHANGED <<world, db, source, gw, cli, creds, clock, boots, minted, gone, wanted, accepted, balked>>

\* ...and the store is asked afterwards
RevokeCommit(a) ==
  LET k  == admin[a].key
      ok == MayRevoke(k, admin[a].seen)
  IN  /\ admin[a].do = "revoke"
      /\ admin' = [admin EXCEPT ![a] = Idle]
      /\ db'   = IF ok THEN Revoked(db, k) ELSE db
      /\ gone' = IF ok THEN gone \cup {k} ELSE gone
      /\ UNCHANGED <<world, source, gw, cli, creds, clock, edits, boots, minted, wanted, accepted, balked>>

\* TeamsHandler.upsert, up to the read-back
WriteTeam(a) ==
  /\ Serving /\ Full(a) /\ admin[a] = Idle /\ Budgeted
  /\ \E t \in world.teams, rec \in {1, 2} :
       /\ db' = UpsertTeam(t, rec)
       /\ wanted' = Put(wanted, t, rec)
       /\ admin' = [admin EXCEPT ![a] = [do |-> "readback", team |-> t]]
  /\ UNCHANGED <<world, source, gw, cli, creds, clock, boots, minted, gone, accepted, balked>>

\* the read-back decides only whether the edit is audited
ReadBack(a) ==
  /\ admin[a].do = "readback"
  /\ admin' = [admin EXCEPT ![a] = Idle]
  /\ UNCHANGED <<world, db, source, gw, cli, creds, clock, edits, boots, minted, gone, wanted, accepted, balked>>

\* TeamsHandler.delete
RemoveTeam(a) ==
  /\ Serving /\ Full(a) /\ admin[a] = Idle /\ Budgeted
  /\ \E t \in DOMAIN db.teams :
       /\ db' = DeleteTeam(t)
       /\ wanted' = Put(wanted, t, 0)
  /\ UNCHANGED <<world, source, gw, admin, cli, creds, clock, boots, minted, gone, accepted, balked>>

----------------------------------------------------------------------------
(* `mayu keys` on the store itself                                         *)

\* keysRevoke
KeysRevoke ==
  /\ Budgeted
  /\ \E k \in DOMAIN db.keys : db' = Revoked(db, k) /\ gone' = gone \cup {k}
  /\ UNCHANGED <<world, source, gw, admin, cli, creds, clock, boots, minted, wanted, accepted, balked>>

\* keysRevoke --store on the legacy file
SourceRevoke ==
  /\ Budgeted
  /\ \E k \in DOMAIN source.keys : source' = Revoked(source, k)
  /\ UNCHANGED <<world, db, gw, admin, cli, creds, clock, boots, minted, gone, wanted, accepted, balked>>

\* keysImport: the whole file or nothing
KeysImport ==
  /\ Shared /\ source.keys # <<>> /\ Budgeted
  /\ ~ImportClashes
  /\ db' = Import
  /\ gone' = gone \cup {k \in DOMAIN source.keys : source.keys[k].revoked}
  /\ wanted' = Join([t \in DOMAIN source.teams |-> source.teams[t].rec], wanted)
  /\ UNCHANGED <<world, source, gw, admin, cli, creds, clock, boots, minted, accepted, balked>>

----------------------------------------------------------------------------
(* `mayu login`, `token` and `logout`                                      *)

\* needsRenewal
NeedsRenewal == creds.expires <= clock + renewBefore

\* MintHandler: a fresh key of the one team the identity is entitled to
MintHandler(c) ==
  /\ Serving /\ minted < world.mints
  /\ minted' = minted + 1
  /\ db' = CreateWithOptions(world.team, 0, clock + CliTTL)
  /\ cli' = [cli EXCEPT ![c] = [do |-> "save",
               creds |-> [key |-> MintBase + minted, expires |-> clock + CliTTL]]]
  /\ UNCHANGED <<world, source, gw, admin, creds, clock, edits, boots, gone, wanted, accepted, balked>>

\* loginRun mints whatever credentials there are
LoginRun(c) == cli[c] = Idle /\ MintHandler(c)

\* tokenRun mints when the key of the credentials it loaded is aging
TokenRun(c) == cli[c] = Idle /\ creds # NoCreds /\ NeedsRenewal /\ MintHandler(c)

\* credentials.save renames over whatever is there
Save(c) ==
  /\ cli[c].do = "save"
  /\ creds' = cli[c].creds
  /\ cli' = [cli EXCEPT ![c] = Idle]
  /\ UNCHANGED <<world, db, source, gw, admin, clock, edits, boots, minted, gone, wanted, accepted, balked>>

\* logoutRun loads the file; KeyAuth resolves the key it sends, or answers 401
LogoutSend(c) ==
  /\ cli[c] = Idle /\ creds # NoCreds
  /\ cli' = [cli EXCEPT ![c] =
       IF Serving /\ Resolve(creds.key)
       THEN [do |-> "giveup", key |-> creds.key, seen |-> Snapshot(creds.key)]
       ELSE [do |-> "forget"]]
  /\ UNCHANGED <<world, db, source, gw, admin, creds, clock, edits, boots, minted, gone, wanted, accepted, balked>>

\* RevokeHandler: the key revokes itself
GiveUp(c) ==
  LET k  == cli[c].key
      ok == MayRevoke(k, cli[c].seen)
  IN  /\ cli[c].do = "giveup"
      /\ cli'  = [cli EXCEPT ![c] = [do |-> "forget"]]
      /\ db'   = IF ok THEN Revoked(db, k) ELSE db
      /\ gone' = IF ok THEN gone \cup {k} ELSE gone
      /\ UNCHANGED <<world, source, gw, admin, creds, clock, edits, boots, minted, wanted, accepted, balked>>

\* the answer of a mint or a revoke is lost; logout goes on regardless
CliCut(c) ==
  /\ cli[c].do \in {"save", "giveup"}
  /\ cli' = [cli EXCEPT ![c] = IF @.do = "save" THEN Idle ELSE [do |-> "forget"]]
  /\ UNCHANGED <<world, db, source, gw, admin, creds, clock, edits, boots, minted, gone, wanted, accepted, balked>>

\* deleteCredentials, whatever the gateway answered
Forget(c) ==
  /\ cli[c].do = "forget"
  /\ creds' = NoCreds
  /\ cli' = [cli EXCEPT ![c] = Idle]
  /\ UNCHANGED <<world, db, source, gw, admin, clock, edits, boots, minted, gone, wanted, accepted, balked>>

KeyTick ==
  /\ clock < world.horizon
  /\ clock' = clock + 1
  /\ UNCHANGED <<world, db, source, gw, admin, cli, creds, edits, boots, minted, gone, wanted, accepted, balked>>

----------------------------------------------------------------------------
Init ==
  /\ world \in KeyWorlds
  /\ db = [keys |-> <<>>, teams |-> <<>>, prints |-> <<>>]
  /\ source = world.source
  /\ gw = [g \in Gateways |-> [pc |-> "down", site |-> 1, next |-> 1]]
  /\ admin = [a \in Admins |-> Idle]
  /\ cli = [c \in {1, 2} |-> Idle] /\ creds = NoCreds
  /\ clock = 1 /\ edits = 0 /\ boots = 0 /\ minted = 0
  /\ gone = {} /\ wanted = <<>> /\ accepted = {} /\ balked = {}

Next ==
  \/ \E g \in Gateways : Boot(g) \/ BootKey(g) \/ BootServe(g) \/ Stop(g)
  \/ \E a \in Admins : CreateKey(a) \/ RevokeLook(a) \/ RevokeCommit(a)
                         \/ WriteTeam(a) \/ ReadBack(a) \/ RemoveTeam(a)
  \/ KeysRevoke \/ SourceRevoke \/ KeysImport
  \/ \E c \in {1, 2} : LoginRun(c) \/ TokenRun(c) \/ Save(c) \/ CliCut(c)
                          \/ LogoutSend(c) \/ GiveUp(c) \/ Forget(c)
  \/ KeyTick

Spec == Init /\ [][Next]_keyVars

----------------------------------------------------------------------------
(* Properties                                                              *)

Agree(s, u) ==
  \A i \in DOMAIN Declared(s) \cap DOMAIN Declared(u) : Declared(s)[i] = Declared(u)[i]

\* What an administrator decides outlives every restart (gateway.go, the
\* EnsureKey loop; keystore.Seed; keystore.ImportSQLite).  A key whose
\* revocation was acknowledged, or that was imported revoked, never
\* authenticates again, whatever is declared, seeded or imported later.  A
\* team an administrator edited or deleted stays as they left it.  On
\* Postgres a configuration once served is accepted by every later boot that
\* gets as far as seeding, and two gateways never serve at once from
\* declarations that contradict each other.
IdentityKept ==
  /\ \A k \in gone : ~Resolve(k)
  /\ \A t \in DOMAIN wanted :
       wanted[t] = IF t \in DOMAIN db.teams THEN db.teams[t].rec ELSE 0
  /\ balked = {}
  /\ Shared => \A s, u \in accepted : Agree(world.sites[s], world.sites[u])
=============================================================================
