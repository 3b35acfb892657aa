----------------------------- MODULE UsageIndex -----------------------------
(***************************************************************************)
(* The analytics read models derived from the audit log (ADR-015):         *)
(* internal/analytics (Mode A, one replica, SQLite) and                    *)
(* internal/analytics/pgstore (Mode B, replicas tailing a directory of     *)
(* segments into Postgres under a fenced lease).                           *)
(*                                                                         *)
(* A log line is a record [id, day, team, model, cost, billable]; the      *)
(* lines each segment will hold are fixed by the world, and written[s] of  *)
(* them are complete.  In Mode A the only segment is the file sink, whose  *)
(* writer also feeds the index through a bounded queue.  In Mode B a tick  *)
(* of a replica is three steps, because other replicas, the writers of the *)
(* segments and an operator's Rebuild run between them: acquire the lease, *)
(* read from the checkpoints, commit the batch.                            *)
(***************************************************************************)
EXTENDS Naturals, Sequences, SequencesExt, FiniteSets, FiniteSetsExt, Functions

CONSTANTS IndexWorlds,      \* [mode, segs, replicas, rebuilds, until, boots]
          LeaseTTL,         \* lease of an aggregator, in ticks of the database clock
          MaxLinesPerTick,  \* lines a tick may read
          sinkQueueCap      \* records the Mode A sink may hold

VARIABLES world,        \* the deployment, chosen once
          written,      \* complete lines of each segment
          torn,         \* Mode A: the file ends in an unterminated line
          spoiled,      \* Mode A: lines joined to such a remainder, which no reader parses
          events,       \* the events table: a set of records
          queue,        \* Mode A: records between the writer and the index
          missed,       \* Mode A: records the index was not given, or failed on, since a replay
          boots,        \* Mode A: starts of the process
          rollup,       \* Mode B: rollup_day, (day, team, model) -> [requests, cost]
          checkpoints,  \* Mode B: lines of each segment already ingested
          lease,        \* Mode B: {} or {[holder, epoch, expires]}
          agg,          \* Mode B: [pc, epoch, seg, left, recs, marks] of each replica
          clock,        \* Mode B: the database clock
          rebuilds      \* Mode B: rebuilds so far

vars == <<world, written, torn, spoiled, events, queue, missed, boots, rollup, checkpoints,
          lease, agg, clock, rebuilds>>
varsB == <<rollup, checkpoints, lease, agg, clock, rebuilds>>

Billable(r) == r.billable
Lines(s, from, to) == {world.segs[s][i] : i \in from + 1 .. to}
Key(r) == <<r.day, r.team, r.model>>
Segs == DOMAIN world.segs
Idle == [pc |-> "idle", epoch |-> 0, seg |-> 1, left |-> 0, recs |-> {}, marks |-> <<>>]

Init ==
  /\ world \in IndexWorlds
  /\ written = [s \in Segs |-> 0] /\ torn = FALSE /\ spoiled = {}
  /\ events = {} /\ queue = <<>> /\ missed = {} /\ boots = 1
  /\ rollup = <<>> /\ checkpoints = [s \in Segs |-> 0] /\ lease = {}
  /\ agg = [r \in world.replicas |-> Idle]
  /\ clock = 0 /\ rebuilds = 0

----------------------------------------------------------------------------
(* Mode A                                                                  *)

\* sink.Write: billable records are enqueued; a full queue drops.
SinkWrite(r) ==
  IF ~ Billable(r) THEN UNCHANGED <<queue, missed>>
  ELSE IF Len(queue) < sinkQueueCap THEN queue' = Append(queue, r) /\ UNCHANGED missed
  ELSE missed' = missed \cup {r} /\ UNCHANGED queue

\* The writer puts the next record into the file and hands it to the sink.
WriteRecord ==
  /\ world.mode = "A" /\ written[1] < Len(world.segs[1])
  /\ written' = [written EXCEPT ![1] = @ + 1] /\ torn' = FALSE
  /\ spoiled' = IF torn THEN spoiled \cup {world.segs[1][written'[1]]} ELSE spoiled
  /\ SinkWrite(world.segs[1][written'[1]])
  /\ UNCHANGED <<world, events, boots>> /\ UNCHANGED varsB

\* Index.Ingest in the sink's worker: INSERT OR IGNORE; an error is swallowed.
SinkWorker ==
  /\ queue # <<>>
  /\ queue' = Tail(queue)
  /\ \/ events' = events \cup {Head(queue)} /\ UNCHANGED missed
     \/ missed' = missed \cup {Head(queue)} /\ UNCHANGED events
  /\ UNCHANGED <<world, written, torn, spoiled, boots>> /\ UNCHANGED varsB

\* Index.Replay reads the billable records of the complete lines.
Replay(s) == {r \in Lines(s, 0, written[s]) \ spoiled : Billable(r)}

\* The process dies, perhaps in the middle of a line, and starts again; the
\* boot replays the file in one transaction, which may fail as a whole.
RestartA ==
  /\ world.mode = "A" /\ boots < world.boots
  /\ boots' = boots + 1 /\ queue' = <<>>
  /\ torn' \in {torn, TRUE}
  /\ \/ events' = events \cup Replay(1) /\ missed' = {}
     \/ missed' = missed \cup Range(queue) /\ UNCHANGED events
  /\ UNCHANGED <<world, written, spoiled>> /\ UNCHANGED varsB

----------------------------------------------------------------------------
(* Mode B                                                                  *)

varsA == <<torn, spoiled, queue, missed, boots>>

\* A segment grows by a line; readCompleteLines does not see it before its
\* newline.
SegmentWrite ==
  /\ world.mode = "B"
  /\ \E s \in Segs :
       /\ written[s] < Len(world.segs[s])
       /\ written' = [written EXCEPT ![s] = @ + 1]
  /\ UNCHANGED <<world, events>> /\ UNCHANGED varsA /\ UNCHANGED varsB

\* tryAcquireLease, the UPDATE: the epoch moves only with the holder.
EpochFor(l, r) == IF l.holder = r THEN l.epoch ELSE l.epoch + 1

\* Aggregator.tick, tryAcquireLease: create, renew or take over an expired
\* lease; any other answer ends the tick.
AcquireLease(r) ==
  /\ agg[r].pc = "idle"
  /\ \A l \in lease : l.holder = r \/ l.expires < clock
  /\ LET e == IF lease = {} THEN 1 ELSE EpochFor(CHOOSE l \in lease : TRUE, r)
     IN /\ lease' = {[holder |-> r, epoch |-> e, expires |-> clock + LeaseTTL]}
        /\ agg' = [agg EXCEPT ![r] = [Idle EXCEPT !.pc = "read", !.epoch = e,
                                                  !.left = MaxLinesPerTick]]
  /\ UNCHANGED <<world, written, events, rollup, checkpoints, clock, rebuilds>>
  /\ UNCHANGED varsA

\* Aggregator.tick, one segment: its checkpoint, then readCompleteLines from
\* there, as many lines as the tick still may read.
ReadSegment(r) ==
  /\ agg[r].pc = "read" /\ agg[r].seg <= Len(world.segs) /\ agg[r].left > 0
  /\ LET a  == agg[r]
         at == checkpoints[a.seg]
         to == Min({written[a.seg], at + a.left})
     IN agg' = [agg EXCEPT ![r] =
          IF to <= at THEN [a EXCEPT !.seg = @ + 1]
          ELSE [a EXCEPT !.seg = @ + 1, !.left = @ - (to - at),
                         !.recs = @ \cup Lines(a.seg, at, to),
                         !.marks = [s \in DOMAIN @ \cup {a.seg} |->
                                      IF s = a.seg THEN to ELSE @[s]]]]
  /\ UNCHANGED <<world, written, events, rollup, checkpoints, lease, clock, rebuilds>>
  /\ UNCHANGED varsA

\* Mutant: the fence only asks who holds the lease.
FenceHolder(r) == \E l \in lease : l.holder = r

\* fenceIngest: the lease row still names this holder and this epoch.
fenceIngest(r) == \E l \in lease : l.holder = r /\ l.epoch = agg[r].epoch

\* recomputeRollup: a touched key is summed again from the events.
recomputeRollup(E, k) ==
  LET S == {e \in E : Key(e) = k}
  IN [requests |-> Cardinality(S), cost |-> MapThenSumSet(LAMBDA e : e.cost, S)]

\* Store.ingestBatch: fence, events, touched rollups and checkpoints in one
\* transaction.  A fenced batch, an empty one and a failed one change nothing.
ingestBatch(r) ==
  /\ agg[r].pc = "read" /\ (agg[r].seg > Len(world.segs) \/ agg[r].left = 0)
  /\ agg' = [agg EXCEPT ![r] = Idle]
  /\ \/ /\ fenceIngest(r) /\ agg[r].marks # <<>>
        /\ LET new     == {x \in agg[r].recs : Billable(x)}
               touched == {Key(x) : x \in new}
           IN /\ events' = events \cup new
              /\ rollup' = [k \in DOMAIN rollup \cup touched |->
                              IF k \in touched THEN recomputeRollup(events', k) ELSE rollup[k]]
              /\ checkpoints' = [s \in Segs |-> IF s \in DOMAIN agg[r].marks
                                                THEN agg[r].marks[s] ELSE checkpoints[s]]
     \/ UNCHANGED <<events, rollup, checkpoints>>
  /\ UNCHANGED <<world, written, lease, clock, rebuilds>> /\ UNCHANGED varsA

\* A tick ends early: an unreadable segment, a database error, a crash.
TickFails(r) ==
  /\ agg[r].pc = "read"
  /\ agg' = [agg EXCEPT ![r] = Idle]
  /\ UNCHANGED <<world, written, events, rollup, checkpoints, lease, clock, rebuilds>>
  /\ UNCHANGED varsA

\* Store.Rebuild: one transaction bumps the epoch and truncates the tables.
Rebuild ==
  /\ world.mode = "B" /\ rebuilds < world.rebuilds
  /\ rebuilds' = rebuilds + 1
  /\ lease' = {[l EXCEPT !.epoch = @ + 1] : l \in lease}
  /\ events' = {} /\ rollup' = <<>> /\ checkpoints' = [s \in Segs |-> 0]
  /\ UNCHANGED <<world, written, agg, clock>> /\ UNCHANGED varsA

DatabaseClock ==
  /\ world.mode = "B" /\ clock < world.until
  /\ clock' = clock + 1
  /\ UNCHANGED <<world, written, events, rollup, checkpoints, lease, agg, rebuilds>>
  /\ UNCHANGED varsA

Next ==
  \/ WriteRecord \/ SinkWorker \/ RestartA
  \/ SegmentWrite \/ Rebuild \/ DatabaseClock
  \/ \E r \in world.replicas :
       AcquireLease(r) \/ ReadSegment(r) \/ ingestBatch(r) \/ TickFails(r)

----------------------------------------------------------------------------
(* Queries                                                                 *)

\* Index.Summary: the events of a range of days, in all and by team.
SummaryOfEvents(since, until) ==
  LET E == {e \in events : since <= e.day /\ e.day <= until}
      Sum(S) == [requests |-> Cardinality(S), cost |-> MapThenSumSet(LAMBDA e : e.cost, S)]
  IN [totals |-> Sum(E),
      byTeam |-> [t \in {e.team : e \in E} |-> Sum({e \in E : e.team = t})],
      byModel |-> [m \in {e.model : e \in E} |-> Sum({e \in E : e.model = m})]]

\* Store.Summary: the same from rollup_day.
SummaryOfRollup(since, until) ==
  LET K == {k \in DOMAIN rollup : since <= k[1] /\ k[1] <= until}
      Sum(S) == [requests |-> MapThenSumSet(LAMBDA k : rollup[k].requests, S),
                 cost |-> MapThenSumSet(LAMBDA k : rollup[k].cost, S)]
  IN [totals |-> Sum(K),
      byTeam |-> [t \in {k[2] : k \in K} |-> Sum({k \in K : k[2] = t})],
      byModel |-> [m \in {k[3] : k \in K} |-> Sum({k \in K : k[3] = m})]]

\* Index.TimeSeries: one point for each of the last days that has events.
SeriesOfEvents(today, days) ==
  [d \in {e.day : e \in {x \in events : x.day + days >= today}} |->
     MapThenSumSet(LAMBDA e : e.cost, {x \in events : x.day = d})]

\* Store.TimeSeries: the same from rollup_day.
SeriesOfRollup(today, days) ==
  [d \in {k[1] : k \in {x \in DOMAIN rollup : x[1] + days >= today}} |->
     MapThenSumSet(LAMBDA k : rollup[k].cost, {x \in DOMAIN rollup : x[1] = d})]

----------------------------------------------------------------------------
(* Properties                                                              *)

BillableLines(s, n) == {r \in Lines(s, 0, n) : Billable(r)}
Days == 0 .. 3

\* The read model loses and doubles nothing.  Mode A: every billable record
\* of the file that is a line of its own is in the index, on its way, or
\* among the ones dropped or failed since the last replay, and the index
\* holds no other record.  Mode B: a billable record before a segment's checkpoint is in the events table
\* even when a lease is taken over or the tables are rebuilt between a tick's
\* reads and its commit (fenceIngest, Store.Rebuild); the table holds no
\* record that is not a complete line; and the summaries and series computed
\* from rollup_day are the ones Mode A computes from the events.
IndexFaithful ==
  /\ events \subseteq UNION {BillableLines(s, written[s]) : s \in Segs}
  /\ world.mode = "A" => BillableLines(1, written[1]) \ spoiled \subseteq events \cup Range(queue) \cup missed
  /\ world.mode = "B" =>
       /\ \A s \in Segs : BillableLines(s, checkpoints[s]) \subseteq events
       /\ \A since, until \in Days :
            SummaryOfRollup(since, until) = SummaryOfEvents(since, until)
       /\ \A today, days \in Days : SeriesOfRollup(today, days) = SeriesOfEvents(today, days)
=============================================================================
