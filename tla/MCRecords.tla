------------------------------ MODULE MCRecords ------------------------------
(***************************************************************************)
(* What a deployment keeps beside its budgets, one part per behaviour: the *)
(* audit trail (AuditChain, in the instance of MCAudit), the usage pushed  *)
(* to the control plane (UsageTelemetry), the analytics index              *)
(* (UsageIndex), captured bodies (BodyStore), keys and teams (KeyStore),   *)
(* and the shutdown that has to flush all of it (Shutdown).                *)
(***************************************************************************)
EXTENDS MCAudit

VARIABLES part,
          billing, usageClock, lead, settled, collector, buf, pusher, pg, mem, delayed,
          acked, lost, usageBoots,
          indexing, written, torn, spoiled, events, indexQueue, missed, indexBoots, rollup,
          checkpoints, lease, agg, indexClock, rebuilds,
          life, stage, expired, step, closed, pc, refs, bodyQ, auditQ, sinkQ, bodies,
          failed, auditFile, index, alerts, anchored,
          vault, puts, rows, fleet, purge, rewrap,
          tenancy, keyRows, source, gw, admin, cli, creds, keyClock, edits, boots, minted,
          gone, wanted, accepted, balked

auditVars == <<trouble, boot, phase, queue, made, prevHash, pending, head, busy, wal, file,
               stored, anchorLast, sending, witnessed, latest, late, reading, verdict>>
usageVars == <<billing, usageClock, lead, settled, collector, buf, pusher, pg, mem, delayed,
               acked, lost, usageBoots>>
indexVars == <<indexing, written, torn, spoiled, events, indexQueue, missed, indexBoots,
               rollup, checkpoints, lease, agg, indexClock, rebuilds>>
lifeVars  == <<life, stage, expired, step, closed, pc, refs, bodyQ, auditQ, sinkQ, bodies,
               failed, auditFile, index, alerts, anchored>>
bodyVars  == <<vault, puts, rows, fleet, purge, rewrap>>
keyVars   == <<tenancy, keyRows, source, gw, admin, cli, creds, keyClock, edits, boots,
               minted, gone, wanted, accepted, balked>>

-----------------------------------------------------------------------------
(* Deployments that push usage. *)

Used(team, model, cost) == [team |-> team, model |-> model, cost |-> cost, sane |-> TRUE]

\* Three settlements, a durable aggregator and a gateway that is restarted.
Pushing == [reqs |-> <<Used("a", "m", 1), Used("a", "n", 2), Used("b", "m", 4)>>,
            durable |-> TRUE, skew |-> 0, steps |-> FALSE, boots |-> 2, until |-> 3]

\* The memory aggregator, a gateway ahead of it whose clock is set back, and a
\* cost it refuses.
Skewed == [Pushing EXCEPT !.reqs[2].sane = FALSE, !.durable = FALSE, !.skew = 2,
                          !.steps = TRUE, !.boots = 1]

\* The same against Postgres, and a gateway too far ahead.
SetBack  == [Skewed EXCEPT !.reqs = <<Used("a", "m", 1), Used("b", "m", 4)>>, !.durable = TRUE,
                           !.until = 2]
FarAhead == [Pushing EXCEPT !.reqs = <<Used("a", "m", 1)>>, !.skew = 3, !.boots = 1, !.until = 2]

UsageParts == {Pushing, Skewed, SetBack, FarAhead}

-----------------------------------------------------------------------------
(* Deployments that index their records. *)

Line(id, day, team, cost, billable) ==
    [id |-> id, day |-> day, team |-> team, model |-> "m", cost |-> cost, billable |-> billable]

\* Mode A: one gateway, its file and its SQLite index.
ModeA == [mode |-> "A", replicas |-> {}, rebuilds |-> 0, until |-> 0, boots |-> 3,
          segs |-> <<<<Line(1, 1, "a", 1, TRUE), Line(2, 1, "a", 2, FALSE),
                       Line(3, 1, "b", 4, TRUE), Line(4, 2, "a", 8, TRUE)>>>>]

\* Mode B: two replicas over two segments that share a record.
ModeB == [mode |-> "B", replicas |-> {"p", "q"}, rebuilds |-> 1, until |-> 1, boots |-> 1,
          segs |-> <<<<Line(1, 1, "a", 1, TRUE), Line(3, 1, "b", 4, TRUE)>>,
                     <<Line(3, 1, "b", 4, TRUE)>>>>]

IndexParts == {ModeA, ModeB}

-----------------------------------------------------------------------------
(* Processes that stop, and body stores whose key is rotated. *)

Stopping(joined) == [handlers |-> {1, 2}, joined |-> joined, alerts |-> joined]
LifeParts == {Stopping(joined) : joined \in BOOLEAN}

Rotation(from, to) == [old |-> from, new |-> to]

\* The first rotation twice at once, then another one.
Twice == [sizes |-> <<1>>, replicas |-> {}, maxBytes |-> 2,
          rotations |-> <<Rotation("k1", "k2"), Rotation("k1", "k2"), Rotation("k2", "k3")>>]

\* One rotation while two replicas purge.
Purged == [sizes |-> <<1, 2>>, replicas |-> {"p", "q"}, maxBytes |-> 2,
           rotations |-> <<Rotation("k1", "k2")>>]

BodyParts == {Twice, Purged}

-----------------------------------------------------------------------------
(* Key stores that two gateways share. *)

Declare(key, team, opts) == [key |-> key, team |-> team, opts |-> opts]
Red(opts) == [teams |-> "red" :> opts, keys |-> <<Declare(1, "red", opts)>>]
Blue      == [teams |-> "red" :> 1, keys |-> <<Declare(1, "blue", 1)>>]

NoSource == [keys |-> <<>>, teams |-> <<>>]
Legacy   ==
    [keys |-> [k \in {1, 2} |-> [team |-> "red", opts |-> 1, expires |-> 0, created |-> 0,
                                 revoked |-> FALSE]],
     teams |-> "red" :> [rec |-> 1, created |-> 0, updated |-> 0]]

Full == [full |-> TRUE, teams |-> {}]
Lead == [full |-> FALSE, teams |-> {"red"}]

Tenancy(backend, sites, limit) ==
    [backend |-> backend, sites |-> sites, source |-> NoSource, teams |-> {"red", "blue"},
     admins |-> <<Full>>, team |-> "red", edits |-> 2, boots |-> limit, mints |-> 0, horizon |-> 1]

\* A key declared for one team and then for another, by gateways that overlap.
Redeclared == [Tenancy("sqlite", <<Red(1), Blue>>, 3) EXCEPT !.admins = <<Full, Lead>>]

\* Two editions of one declaration, of which the store takes the first.
Contested == Tenancy("postgres", <<Red(1), Red(2)>>, 3)

\* A drained SQLite file, imported before or after the first boots.
Imported == [Tenancy("postgres", <<Red(1), Blue>>, 2) EXCEPT !.source = Legacy, !.edits = 3]

\* Laptops that log in, renew and log out while a key is revoked or a team edited.
Laptops ==
    {[Tenancy("sqlite", <<Red(1)>>, 1) EXCEPT !.edits = 1, !.mints = 1, !.horizon = 3],
     [Tenancy("postgres", <<Red(1)>>, 1) EXCEPT !.edits = 1, !.mints = 2, !.horizon = 2]}

Tenancies == {Redeclared, Contested, Imported} \cup Laptops

-----------------------------------------------------------------------------
Usage == INSTANCE UsageTelemetry WITH UsageWorlds <- UsageParts, Res <- 2, Hour <- 2,
            Retention <- 1, usageBufferCap <- 1, world <- billing, clock <- usageClock,
            phase <- pusher, late <- delayed, boots <- usageBoots
Index == INSTANCE UsageIndex WITH IndexWorlds <- IndexParts, LeaseTTL <- 0,
            MaxLinesPerTick <- 2, sinkQueueCap <- 1, world <- indexing,
            queue <- indexQueue, boots <- indexBoots, clock <- indexClock
Life == INSTANCE Shutdown WITH LifeWorlds <- LifeParts, recorderQueueCap <- 1,
            auditQueueCap <- 1, sinkQueueCap <- 2, world <- life, phase <- stage,
            file <- auditFile
Body == INSTANCE BodyStore WITH BodyWorlds <- BodyParts, Masters <- <<"k1", "k2", "k3">>,
            world <- vault
Keys == INSTANCE KeyStore WITH KeyWorlds <- Tenancies, CliTTL <- 2, renewBefore <- 1,
            world <- tenancy, db <- keyRows, clock <- keyClock

\* A part that does not run stays in one of its initial states.
MCInit ==
    /\ part \in {"audit", "usage", "index", "life", "body", "keys"}
    /\ Init /\ Usage!Init /\ Index!Init /\ Life!Init /\ Body!Init /\ Keys!Init
    /\ part # "audit" => trouble = BadDisks
    /\ part # "usage" => billing = FarAhead
    /\ part # "index" => indexing = ModeA
    /\ part # "life" => life = Stopping(TRUE)
    /\ part # "body" => vault = Twice
    /\ part # "keys" => tenancy = Redeclared

MCNext ==
    \/ /\ part = "audit" /\ Next
       /\ UNCHANGED <<part, usageVars, indexVars, lifeVars, bodyVars, keyVars>>
    \/ /\ part = "usage" /\ Usage!Next
       /\ UNCHANGED <<part, auditVars, indexVars, lifeVars, bodyVars, keyVars>>
    \/ /\ part = "index" /\ Index!Next
       /\ UNCHANGED <<part, auditVars, usageVars, lifeVars, bodyVars, keyVars>>
    \/ /\ part = "life" /\ Life!Next
       /\ UNCHANGED <<part, auditVars, usageVars, indexVars, bodyVars, keyVars>>
    \/ /\ part = "body" /\ Body!Next
       /\ UNCHANGED <<part, auditVars, usageVars, indexVars, lifeVars, keyVars>>
    \/ /\ part = "keys" /\ Keys!Next
       /\ UNCHANGED <<part, auditVars, usageVars, indexVars, lifeVars, bodyVars>>

MCSpec ==
    /\ MCInit
    /\ [][MCNext]_<<part, auditVars, usageVars, indexVars, lifeVars, bodyVars, keyVars>>
    /\ Fairness

-----------------------------------------------------------------------------
(* Properties of the instances. *)

\* Usage is billed once, however often it is pushed (Aggregator.Upsert, UsagePusher).
UsageCountedOnce == part = "usage" => Usage!UsageCountedOnce

\* The index says what the records say (ingestBatch, Replay, fenceIngest).
IndexFaithful == part = "index" => Index!IndexFaithful

\* A shutdown loses no record that a handler produced (serve's deferred closers).
StopKeepsRecords == part = "life" => Life!StopKeepsRecords

\* A rotation that reports success leaves nothing under the old key (rewrap-key).
RotationFinished == part = "body" => Body!RotationFinished

\* Restarts, seeds and imports undo no revocation and no edit (EnsureKey, Seed).
IdentityKept == part = "keys" => Keys!IdentityKept
=============================================================================
