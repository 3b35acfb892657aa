------------------------------ MODULE Shutdown ------------------------------
(***************************************************************************)
(* gateway.serve (cmd/mayu/gateway.go): how the gateway stops.             *)
(*                                                                         *)
(* A signal, or the failure of one of the two listeners, starts a drain;   *)
(* it ends when every handler has returned or its grace is over.  Then the *)
(* deferred closers run last-registered first, each one waiting for its    *)
(* own queue, while handlers that outlived the grace may still run.  With  *)
(* a budget authority or shared governance a closer first joins them.      *)
(*                                                                         *)
(* A handler's last steps are the ones of every ingress: settle the        *)
(* permit, hand the body to the recorder, append the audit record.  The    *)
(* audit writer writes the record to the file and offers it to the         *)
(* analytics sink.  A send on a closed queue panics; net/http ends that    *)
(* handler and its record is lost.                                         *)
(***************************************************************************)
EXTENDS Naturals, Sequences, SequencesExt, FiniteSets, FiniteSetsExt

CONSTANTS LifeWorlds,        \* [handlers, joined, alerts]
          recorderQueueCap,  \* bodies the recorder may hold
          auditQueueCap,     \* records the audit writer may hold
          sinkQueueCap       \* records the analytics sink may hold

VARIABLES world,    \* the deployment, chosen once
          phase,    \* serving, draining, closing, exited
          expired,  \* the drain grace ended before the handlers did
          step,     \* the closer that runs
          closed,   \* components whose Close has begun
          pc,       \* where each handler is
          refs,     \* handlers whose record carries a body_ref
          bodyQ, auditQ, sinkQ,   \* the three queues, of handlers
          bodies,   \* bodies in the store
          failed,   \* bodies whose write failed
          file,     \* records in the audit file
          index,    \* records in the analytics index
          alerts,   \* alert deliveries in flight
          anchored  \* records the last WORM anchor witnesses

vars == <<world, phase, expired, step, closed, pc, refs, bodyQ, auditQ, sinkQ,
          bodies, failed, file, index, alerts, anchored>>

\* Mutant: the audit writer is registered after its sink, so it closes later.
SinkFirst ==
  <<"workers", "authority", "bodyRec", "bodyStore", "sink", "aud", "index", "notifier",
    "store", "anchor">>

\* The deferred calls of serve in the order they run.
Closers ==
  <<"workers", "authority", "bodyRec", "bodyStore", "aud", "sink", "index", "notifier",
    "store", "anchor">>

InFlight == {h \in world.handlers : pc[h] \in {"serving", "settled", "captured"}}

Init ==
  /\ world \in LifeWorlds
  /\ phase = "serving" /\ expired = FALSE /\ step = 1 /\ closed = {}
  /\ pc = [h \in world.handlers |-> "idle"] /\ refs = {}
  /\ bodyQ = <<>> /\ auditQ = <<>> /\ sinkQ = <<>>
  /\ bodies = {} /\ failed = {} /\ file = <<>> /\ index = {}
  /\ alerts = {} /\ anchored = 0

----------------------------------------------------------------------------
(* Handlers                                                                *)

Begin(h) ==
  /\ phase = "serving" /\ pc[h] = "idle"
  /\ pc' = [pc EXCEPT ![h] = "serving"]
  /\ UNCHANGED <<world, phase, expired, step, closed, refs, bodyQ, auditQ, sinkQ, bodies,
                 failed, file, index, alerts, anchored>>

\* The permit is settled; a crossed threshold starts an alert delivery.
Settle(h) ==
  /\ phase # "exited" /\ pc[h] = "serving"
  /\ pc' = [pc EXCEPT ![h] = IF world.joined /\ "authority" \in closed THEN "lost" ELSE "settled"]
  /\ alerts' \in {alerts, IF world.alerts THEN alerts \cup {h} ELSE alerts}
  /\ UNCHANGED <<world, phase, expired, step, closed, refs, bodyQ, auditQ, sinkQ, bodies,
                 failed, file, index, anchored>>

\* Recorder.Capture: an oversize body or a full queue gives no reference.
Capture(h) ==
  /\ phase # "exited" /\ pc[h] = "settled"
  /\ \/ /\ "bodyRec" \in closed
        /\ pc' = [pc EXCEPT ![h] = "lost"] /\ UNCHANGED <<bodyQ, refs>>
     \/ /\ "bodyRec" \notin closed
        /\ pc' = [pc EXCEPT ![h] = "captured"]
        /\ \/ Len(bodyQ) < recorderQueueCap /\ bodyQ' = Append(bodyQ, h) /\ refs' = refs \cup {h}
           \/ UNCHANGED <<bodyQ, refs>>
  /\ UNCHANGED <<world, phase, expired, step, closed, auditQ, sinkQ, bodies, failed, file,
                 index, alerts, anchored>>

\* Writer.Append: waits while the queue is full; the handler then returns.
AppendRecord(h) ==
  /\ phase # "exited" /\ pc[h] = "captured"
  /\ \/ /\ "aud" \in closed
        /\ pc' = [pc EXCEPT ![h] = "lost"] /\ UNCHANGED auditQ
     \/ /\ "aud" \notin closed /\ Len(auditQ) < auditQueueCap
        /\ pc' = [pc EXCEPT ![h] = "done"] /\ auditQ' = Append(auditQ, h)
  /\ UNCHANGED <<world, phase, expired, step, closed, refs, bodyQ, sinkQ, bodies, failed,
                 file, index, alerts, anchored>>

----------------------------------------------------------------------------
(* The queues' workers                                                     *)

\* Recorder.worker: seal and Put; a failure, and a closed store, drop the body.
BodyWorker ==
  /\ phase # "exited" /\ bodyQ # <<>>
  /\ bodyQ' = Tail(bodyQ)
  /\ \/ /\ "bodyStore" \notin closed
        /\ bodies' = bodies \cup {Head(bodyQ)} /\ UNCHANGED failed
     \/ failed' = failed \cup {Head(bodyQ)} /\ UNCHANGED bodies
  /\ UNCHANGED <<world, phase, expired, step, closed, pc, refs, auditQ, sinkQ, file, index,
                 alerts, anchored>>

\* Writer.loop: the record goes to the file, then to the sink, which drops
\* when its queue is full; a closed sink would end the process.
AuditLoop ==
  /\ phase # "exited" /\ auditQ # <<>>
  /\ auditQ' = Tail(auditQ)
  /\ file' = Append(file, Head(auditQ))
  /\ sinkQ' = IF Len(sinkQ) < sinkQueueCap /\ "sink" \notin closed
              THEN Append(sinkQ, Head(auditQ)) ELSE sinkQ
  /\ phase' = IF "sink" \in closed THEN "exited" ELSE phase
  /\ UNCHANGED <<world, expired, step, closed, pc, refs, bodyQ, bodies, failed, index, alerts,
                 anchored>>

\* The sink's worker: a closed index refuses, which is swallowed.
SinkWorker ==
  /\ phase # "exited" /\ sinkQ # <<>>
  /\ sinkQ' = Tail(sinkQ)
  /\ index' = IF "index" \in closed THEN index ELSE index \cup {Head(sinkQ)}
  /\ UNCHANGED <<world, phase, expired, step, closed, pc, refs, bodyQ, auditQ, bodies, failed,
                 file, alerts, anchored>>

\* Notifier.deliver ends.
AlertSent ==
  /\ phase # "exited"
  /\ \E h \in alerts : alerts' = alerts \ {h}
  /\ UNCHANGED <<world, phase, expired, step, closed, pc, refs, bodyQ, auditQ, sinkQ, bodies,
                 failed, file, index, anchored>>

\* anchorWorker's tick: the head is witnessed when it advanced.
AnchorTick ==
  /\ phase # "exited" /\ "workers" \notin closed /\ anchored < Len(file)
  /\ anchored' = Len(file)
  /\ UNCHANGED <<world, phase, expired, step, closed, pc, refs, bodyQ, auditQ, sinkQ, bodies,
                 failed, file, index, alerts>>

----------------------------------------------------------------------------
(* Stopping                                                                *)

\* ctx is done, or a listener failed: no new request, the drain begins.
Stop ==
  /\ phase = "serving"
  /\ phase' = "draining"
  /\ UNCHANGED <<world, expired, step, closed, pc, refs, bodyQ, auditQ, sinkQ, bodies, failed,
                 file, index, alerts, anchored>>

\* Server.Shutdown returns: every handler returned, or the grace is over.
DrainEnds ==
  /\ phase = "draining"
  /\ expired' = (InFlight # {})
  /\ phase' = "closing"
  /\ UNCHANGED <<world, step, closed, pc, refs, bodyQ, auditQ, sinkQ, bodies, failed, file,
                 index, alerts, anchored>>

\* A closer begins; the one of the authority waits for the handlers.
CloseBegin ==
  /\ phase = "closing" /\ step <= Len(Closers)
  /\ Closers[step] \notin closed
  /\ Closers[step] = "authority" /\ world.joined => InFlight = {}
  /\ closed' = closed \cup {Closers[step]}
  /\ UNCHANGED <<world, phase, expired, step, pc, refs, bodyQ, auditQ, sinkQ, bodies, failed,
                 file, index, alerts, anchored>>

\* What a closer waits for before it returns.
Drained(c) ==
  CASE c = "bodyRec"  -> bodyQ = <<>>
    [] c = "aud"      -> auditQ = <<>>
    [] c = "sink"     -> sinkQ = <<>>
    [] c = "notifier" -> alerts = {}
    [] OTHER          -> TRUE

\* The closer returns; the last one is finalAnchor (AuditChain has puts that
\* fail), after which the process ends with whatever still runs.
CloseEnd ==
  /\ phase = "closing" /\ step <= Len(Closers)
  /\ Closers[step] \in closed /\ Drained(Closers[step])
  /\ step' = step + 1
  /\ anchored' = IF Closers[step] = "anchor" THEN Len(file) ELSE anchored
  /\ phase' = IF step = Len(Closers) THEN "exited" ELSE phase
  /\ pc' = IF step = Len(Closers)
           THEN [h \in world.handlers |-> IF h \in InFlight THEN "lost" ELSE pc[h]] ELSE pc
  /\ UNCHANGED <<world, expired, closed, refs, bodyQ, auditQ, sinkQ, bodies, failed, file,
                 index, alerts>>

Next ==
  \/ \E h \in world.handlers : Begin(h) \/ Settle(h) \/ Capture(h) \/ AppendRecord(h)
  \/ BodyWorker \/ AuditLoop \/ SinkWorker \/ AlertSent \/ AnchorTick
  \/ Stop \/ DrainEnds \/ CloseBegin \/ CloseEnd

----------------------------------------------------------------------------
(* Properties                                                              *)

Began == {h \in world.handlers : pc[h] # "idle"}

\* Stopping loses nothing that was promised.  A gateway whose handlers are
\* joined, or all returned within the grace, never sends on a closed queue:
\* when it has exited, every request it began has its record in the audit
\* file, the final anchor covers all of them, no alert is in flight, the index
\* has the last record, and a body_ref in a record names a body that reached
\* the store unless its write failed.  While any handler runs, a joined gateway
\* has closed neither its journal nor a resource behind it (serve,
\* authorityUse).  Without a join, only handlers that outlived the grace lose
\* their records, and the ones in the file are still anchored.
StopKeepsRecords ==
  /\ world.joined /\ InFlight # {} => closed \subseteq {"workers"}
  /\ (world.joined \/ ~ expired) => \A h \in world.handlers : pc[h] # "lost"
  /\ phase = "exited" =>
       /\ anchored = Len(file) /\ step > Len(Closers)
       /\ ToSet(file) = {h \in world.handlers : pc[h] = "done"}
       /\ (world.joined \/ ~ expired) =>
            /\ ToSet(file) = Began /\ alerts = {}
            /\ refs \subseteq bodies \cup failed
            /\ file # <<>> /\ sinkQueueCap >= Len(file) => Last(file) \in index
=============================================================================
