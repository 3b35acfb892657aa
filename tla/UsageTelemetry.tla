--------------------------- MODULE UsageTelemetry ---------------------------
(***************************************************************************)
(* Usage telemetry (ADR-036): internal/telemetry, internal/proxy/usagepush *)
(* and internal/controlplane/usage.                                        *)
(*                                                                         *)
(* A gateway folds every settled request into the open window of its       *)
(* Collector; a pusher closes the window on each tick, keeps the batch in  *)
(* a bounded FIFO and posts the FIFO oldest first; the control plane       *)
(* replaces the window (dataplane, window_start) in Postgres and in memory *)
(* and only then acknowledges.  A post may be lost, answered by a proxy,   *)
(* served after the pusher gave up, or served with its answer lost; either *)
(* side may restart, and the gateway's clock may be ahead or step back.    *)
(*                                                                         *)
(* A request is its index in world.reqs, [team, model, cost, sane]; a      *)
(* window keeps the set of requests folded into it, whose sums by (team,   *)
(* model) are the entries of the wire batch.  Times are in nanoseconds; a  *)
(* unit of the clocks is one microsecond, Res nanoseconds.                 *)
(***************************************************************************)
EXTENDS Naturals, Sequences, SequencesExt, FiniteSets, FiniteSetsExt, Functions

CONSTANTS UsageWorlds,     \* the deployments: [reqs, durable, skew, steps, boots, until]
          Res,             \* nanoseconds in a unit of the clocks (postgres stores units)
          Hour,            \* tolerated lead of a window, in clock units
          Retention,       \* retention of the memory aggregator, in clock units
          usageBufferCap   \* windows the pusher keeps

VARIABLES world,      \* the deployment, chosen once
          clock,      \* the control plane's wall clock
          lead,       \* how far the gateway's clock is ahead of it
          settled,    \* requests settled so far
          collector,  \* the open window: [start, ids]
          buf,        \* the pusher's FIFO of closed windows
          phase,      \* off, run, flush (in a Tick), stop, last (in the final Tick)
          pg,         \* the windows of usage_windows
          mem,        \* the windows of the memory aggregator
          late,       \* posts the pusher gave up that the server may still serve
          acked,      \* windows the pusher was told are stored
          lost,       \* requests dropped with a count, or gone with a process
          boots       \* starts of the gateway

vars == <<world, clock, lead, settled, collector, buf, phase, pg, mem, late,
          acked, lost, boots>>

Ids(W) == UNION {w.ids : w \in W}
Spent(ids) == MapThenSumSet(LAMBDA i : world.reqs[i].cost, ids)
Backlog == Range(buf)

\* NewCollector: the first window of a process starts at its boot.
NewCollector == [start |-> (clock + lead) * Res, ids |-> {}]

Init ==
  /\ world \in UsageWorlds
  /\ clock = 0 /\ lead = world.skew /\ settled = 0 /\ boots = 1
  /\ collector = NewCollector
  /\ buf = <<>> /\ phase = "run"
  /\ pg = {} /\ mem = {} /\ late = {} /\ acked = {} /\ lost = {}

----------------------------------------------------------------------------
(* The gateway                                                             *)

\* Collector.Record: a settled request joins the open window; handlers that
\* outlive the drain grace may still settle while the pusher stops.
Record ==
  /\ phase # "off" /\ settled < Len(world.reqs)
  /\ settled' = settled + 1
  /\ collector' = [collector EXCEPT !.ids = @ \cup {settled'}]
  /\ UNCHANGED <<world, clock, lead, buf, phase, pg, mem, late, acked, lost, boots>>

\* Collector.Drain: the window is closed at now, nudged past its start if
\* the clock did not advance; an empty window is moved, not sent.
Drain(now) ==
  LET end == IF now > collector.start THEN now ELSE collector.start + 1
  IN [batch |-> IF collector.ids = {} THEN <<>>
                ELSE <<[start |-> collector.start, end |-> end, ids |-> collector.ids]>>,
      next  |-> [start |-> end, ids |-> {}]]

\* The first half of UsagePusher.Tick: drain into the FIFO; a full FIFO gives
\* up its oldest window, counted.  Ticks are an interval apart, so the clock
\* has passed the window's start unless it was stepped back.
Tick ==
  /\ phase \in {"run", "stop"}
  /\ (clock + lead) * Res > collector.start \/ (collector.ids # {} /\ lead # world.skew)
  /\ \E d \in {Drain((clock + lead) * Res)} :
       LET full == d.batch # <<>> /\ Len(buf) >= usageBufferCap
       IN /\ collector' = d.next
          /\ buf' = (IF full THEN Tail(buf) ELSE buf) \o d.batch
          /\ lost' = lost \cup (IF full THEN Head(buf).ids ELSE {})
  /\ phase' = IF phase = "run" THEN "flush" ELSE "last"
  /\ UNCHANGED <<world, clock, lead, settled, pg, mem, late, acked, boots>>

\* The FIFO is empty: the tick ends, and after the final one the process.
TickDone ==
  /\ phase \in {"flush", "last"} /\ buf = <<>>
  /\ phase' = IF phase = "flush" THEN "run" ELSE "off"
  /\ lost' = lost \cup (IF phase = "last" THEN collector.ids ELSE {})
  /\ collector' = IF phase = "last" THEN [collector EXCEPT !.ids = {}] ELSE collector
  /\ UNCHANGED <<world, clock, lead, settled, buf, pg, mem, late, acked, boots>>

----------------------------------------------------------------------------
(* The control plane                                                       *)

\* UsageBatch.Validate: bounds in order and every entry storable (names
\* present and without NUL, counts in range, no key twice).
Validate(b) == b.start < b.end /\ \A i \in b.ids : world.reqs[i].sane

\* MemoryAggregator.Upsert, the eviction: windows older than the horizon of
\* the wall clock go.
Evict(W) == {w \in W : w.start + Retention * Res >= clock * Res}

\* MemoryAggregator.Upsert: the window of that start is replaced.
MemoryUpsert(W, b) == Evict({w \in W : w.start # b.start} \cup {b})

\* PostgresAggregator.Upsert: one transaction deletes the window and inserts
\* its rows; TIMESTAMPTZ keeps whole microseconds of the start.
PgUpsert(W, b) == {w \in W : w.start \div Res # b.start \div Res} \cup {b}

\* Mutant: the batch is kept in memory and acknowledged while postgres is down.
AckFromMemory(b, up) ==
  CASE b.start > (clock + Hour) * Res -> 400
    [] ~ Validate(b) -> 400
    [] OTHER -> 200

\* handleIngest's answer: a window from the future or an invalid one can
\* never be stored; a failing store is retryable.
IngestStatus(b, up) ==
  CASE b.start > (clock + Hour) * Res -> 400
    [] ~ Validate(b) -> 400
    [] world.durable /\ ~ up -> 503
    [] OTHER -> 200

\* DurableAggregator.Upsert: postgres commits first, then memory; without a
\* durable store the memory aggregator is the store.
Upsert(b, up) ==
  IF IngestStatus(b, up) # 200 THEN UNCHANGED <<pg, mem>>
  ELSE /\ pg' = IF world.durable /\ up THEN PgUpsert(pg, b) ELSE pg
       /\ mem' = MemoryUpsert(mem, b)

\* post's verdict on an answer; 0 is no answer at all.
PostVerdict(status) ==
  CASE status = 200 -> "sent"
    [] status \in {0, 429, 503} -> "retry"
    [] OTHER -> "reject"

\* UsagePusher.Tick after post: a stored window leaves the FIFO, a rejected
\* one is dropped with a count, any other failure ends the tick.
AfterPost(status) ==
  LET verdict == PostVerdict(status)
      over    == verdict = "retry" /\ phase = "last"
  IN /\ buf' = IF verdict = "retry" THEN IF over THEN <<>> ELSE buf ELSE Tail(buf)
     /\ acked' = IF verdict = "sent" THEN acked \cup {Head(buf)} ELSE acked
     /\ lost' = lost \cup (IF verdict = "reject" THEN Head(buf).ids ELSE {})
                     \cup (IF over THEN Ids(Backlog) \cup collector.ids ELSE {})
     /\ collector' = IF over THEN [collector EXCEPT !.ids = {}] ELSE collector
     /\ phase' = CASE verdict # "retry" -> phase
                   [] phase = "flush" -> "run"
                   [] OTHER -> "off"

\* The oldest window is posted and served; its answer may be lost.
PostServed ==
  /\ phase \in {"flush", "last"} /\ buf # <<>>
  /\ \E up \in BOOLEAN, heard \in BOOLEAN :
       /\ Upsert(Head(buf), up)
       /\ AfterPost(IF heard THEN IngestStatus(Head(buf), up) ELSE 0)
  /\ UNCHANGED <<world, clock, lead, settled, late, boots>>

\* The post does not reach the control plane in time: the network loses or
\* delays it, or a proxy answers (429 throttled, 302 or 404 misrouted).
PostUnserved ==
  /\ phase \in {"flush", "last"} /\ buf # <<>>
  /\ \E status \in {0, 429, 404} :
       /\ late' = IF status = 0 THEN late \cup {Head(buf)} ELSE late
       /\ AfterPost(status)
  /\ UNCHANGED <<world, clock, lead, settled, pg, mem, boots>>

\* handleIngest of a post whose sender is no longer listening.
ServeLate ==
  \E b \in late, up \in BOOLEAN :
    /\ late' = late \ {b}
    /\ Upsert(b, up)
    /\ UNCHANGED <<world, clock, lead, settled, collector, buf, phase, acked, lost, boots>>

----------------------------------------------------------------------------
(* Time and restarts                                                       *)

Advance ==
  /\ clock < world.until
  /\ clock' = clock + 1
  /\ UNCHANGED <<world, lead, settled, collector, buf, phase, pg, mem, late, acked, lost, boots>>

\* The gateway's clock is corrected backwards.
StepBack ==
  /\ world.steps /\ lead > 0
  /\ lead' = 0
  /\ UNCHANGED <<world, clock, settled, collector, buf, phase, pg, mem, late, acked, lost, boots>>

\* UsagePusher.Run sees its context done: one final Tick.
Shutdown ==
  /\ phase = "run"
  /\ phase' = "stop"
  /\ UNCHANGED <<world, clock, lead, settled, collector, buf, pg, mem, late, acked, lost, boots>>

\* The gateway process dies with its open window and its FIFO.
Crash ==
  /\ phase # "off" /\ boots < world.boots
  /\ phase' = "off" /\ buf' = <<>>
  /\ lost' = lost \cup Ids(Backlog) \cup collector.ids
  /\ collector' = [collector EXCEPT !.ids = {}]
  /\ UNCHANGED <<world, clock, lead, settled, pg, mem, late, acked, boots>>

\* A new process, after the clock has passed every window of the old one.
Boot ==
  /\ phase = "off" /\ boots < world.boots
  /\ (clock + lead) * Res > collector.start
  /\ boots' = boots + 1 /\ phase' = "run"
  /\ collector' = NewCollector
  /\ UNCHANGED <<world, clock, lead, settled, buf, pg, mem, late, acked, lost>>

\* inferplaned restarts: memory is gone; without a durable store so are the
\* windows it had acknowledged.
PlaneRestart ==
  /\ mem # {} /\ boots < world.boots
  /\ mem' = {}
  /\ acked' = IF world.durable THEN acked ELSE acked \ mem
  /\ lost' = IF world.durable THEN lost ELSE lost \cup Ids(acked \cap mem)
  /\ UNCHANGED <<world, clock, lead, settled, collector, buf, phase, pg, late, boots>>

Next ==
  \/ Record \/ Tick \/ TickDone \/ PostServed \/ PostUnserved \/ ServeLate
  \/ Advance \/ StepBack \/ Shutdown \/ Crash \/ Boot \/ PlaneRestart

----------------------------------------------------------------------------
(* Reading                                                                 *)

\* The rows a filter [since, until, team] selects; team {} is every team.
Selected(W, f) ==
  {i \in Ids({w \in W : f.since <= w.start /\ w.start < f.until}) :
     f.team = {} \/ world.reqs[i].team \in f.team}

\* Query: a total and one row for every value of the group_by dimension.
QueryWindows(W, f) ==
  LET ids == Selected(W, f)
      Key(i) == IF f.by = "team" THEN world.reqs[i].team ELSE world.reqs[i].model
  IN [total |-> Spent(ids),
      rows  |-> [k \in {Key(i) : i \in ids} |-> Spent({i \in ids : Key(i) = k})]]

\* DurableAggregator.Query: postgres, or memory flagged as degraded.
Query(f, up) ==
  [degraded |-> world.durable /\ ~ up,
   res |-> QueryWindows(IF world.durable /\ up THEN pg ELSE mem, f)]

\* handleExport over Rows, the store failing after n windows: a failure
\* before the first row is a 503, a later one an aborted stream; the durable
\* store is never replaced by memory.
Export(f, up, n) ==
  LET rows == {w \in IF world.durable THEN pg ELSE mem : f.since <= w.start /\ w.start < f.until}
      sent == {w \in rows : Cardinality({v \in rows : v.start < w.start}) < n}
  IN CASE ~ world.durable \/ up -> [status |-> "complete", ids |-> Ids(rows)]
       [] sent = {} -> [status |-> "unavailable", ids |-> {}]
       [] OTHER -> [status |-> "aborted", ids |-> Ids(sent)]

----------------------------------------------------------------------------
(* Properties                                                              *)

Filters ==
  [since : {0, Res}, until : {(world.until + Hour + 2) * Res}, by : {"team", "model"},
   team : {{}} \cup {{t} : t \in {world.reqs[i].team : i \in DOMAIN world.reqs}}]

\* While windows of one gateway start in different microseconds, the store
\* holds every window the pusher was told is stored; a memory-only store, the
\* ones inside its retention.
Distinct == world.steps /\ world.durable => lead = world.skew
Stored == IF world.durable THEN pg ELSE mem
Due == IF world.durable THEN acked ELSE Evict(acked)

\* Every settled request is in exactly one place: the open window, one window
\* of the FIFO, an acknowledged window, or the ones counted as dropped or gone
\* with a process; no two windows of the stores share a request.  Whatever a
\* query that is not flagged degraded, or an export presented as complete,
\* answers, it counts each acknowledged request once and no other request
\* than settled ones, in the total and summed over its rows: resent, late and
\* duplicated posts replace (telemetry Upsert), and handleIngest never
\* acknowledges what was not stored.
UsageCountedOnce ==
  /\ 1 .. settled = collector.ids \cup Ids(Backlog) \cup Ids(acked) \cup lost
  /\ collector.ids \cap Ids(Backlog \cup acked \cup pg \cup mem) = {}
  /\ \A v, w \in Backlog \cup acked \cup pg \cup mem : v # w => v.ids \cap w.ids = {}
  /\ Distinct =>
       /\ Due \subseteq Stored
       /\ \A f \in Filters, up \in BOOLEAN :
            LET q == Query(f, up)
                x == Export([f EXCEPT !.team = {}], up, 1)
            IN /\ ~ q.degraded =>
                    /\ q.res.total >= Spent(Selected(Due, f))
                    /\ q.res.total = SumFunction(q.res.rows)
                    /\ q.res.total <= Spent({i \in 1 .. settled :
                                              f.team = {} \/ world.reqs[i].team \in f.team})
               /\ x.status = "complete" =>
                    Selected(Due, [f EXCEPT !.team = {}]) \subseteq x.ids
=============================================================================
