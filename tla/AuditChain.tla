----------------------------- MODULE AuditChain -----------------------------
(***************************************************************************)
(* The audit trail of one gateway (internal/audit, ADR-012): handlers      *)
(* queue records, a single writer chains them, stores them in the WAL and  *)
(* delivers them to the required file sink, a worker anchors the head of   *)
(* the chain in a WORM store, and the admin API verifies the file against  *)
(* the latest anchor.  Processes crash and are restarted on the same files.*)
(*                                                                         *)
(* A hash is the sequence of the records it covers, which is SHA-256       *)
(* without collisions.  An instance is a boot.                             *)
(***************************************************************************)
EXTENDS Naturals, Sequences, SequencesExt, FiniteSets

CONSTANTS MaxRecord,    \* records that handlers produce
          QueueLimit,   \* capacity of the writer's queue
          MaxBoot,
          Troubles,     \* what may go wrong: one of these is in force
          None

\* How a write fails.
Faults == {"lost", "torn", "unsynced"}

\* Write faults of the WAL and the sink, the number of boots, and whether puts
\* to the WORM store fail.
Trouble == [wal : SUBSET Faults, sink : SUBSET Faults, boots : 1..MaxBoot, puts : BOOLEAN]

ASSUME AuditAssumption ==
    /\ MaxRecord \in Nat /\ QueueLimit \in Nat /\ MaxBoot \in Nat
    /\ Troubles \subseteq Trouble

VARIABLES trouble,
          boot, phase,            \* the process: its instance and its life
          queue, made,            \* records queued, and produced so far
          prevHash, pending, head, busy,   \* the writer
          wal, file,              \* the files
          stored,                 \* lines whose WAL append succeeded
          anchorLast, sending,    \* the anchor worker
          witnessed, latest, late,   \* the WORM store, and puts that may yet land
          reading, verdict        \* the verify handler

process == <<trouble, boot, phase>>
writer == <<prevHash, pending, head, busy>>
files == <<wal, file, stored>>
worker == <<anchorLast, sending>>
store == <<witnessed, latest, late>>
verify == <<reading, verdict>>
vars == <<process, queue, made, writer, files, worker, store, verify>>

Boots == 1..MaxBoot
Records == 1..MaxRecord
genesisHash == <<>>

NoHead == [hash |-> genesisHash, count |-> 0]

Hash(line) == Append(line.prev, line.id)

\* A file: its complete lines, and whether an incomplete one follows them.
EmptyFile == [lines |-> <<>>, partial |-> FALSE]

\* A line that is written behind an incomplete one makes garbage with it.
Extend(f, line) ==
    [lines |-> Append(f.lines, IF f.partial THEN None ELSE line), partial |-> FALSE]

Torn(f) == [f EXCEPT !.partial = TRUE]

\* Write, a newline, Sync: how the file ends up and whether there was an error.
Write(f, line, faults) ==
    {[file |-> Extend(f, line), err |-> FALSE]}
    \cup {[file |-> CASE x = "lost" -> f [] x = "torn" -> Torn(f)
                      [] x = "unsynced" -> Extend(f, line),
           err |-> TRUE] : x \in faults}

IdsIn(f) == {line.id : line \in ToSet(f.lines) \ {None}}

Init ==
    /\ trouble \in Troubles
    /\ boot = 0 /\ phase = "down"
    /\ queue = <<>> /\ made = 0
    /\ prevHash = genesisHash /\ pending = 0 /\ head = NoHead /\ busy = None
    /\ wal = EmptyFile /\ file = EmptyFile /\ stored = {}
    /\ anchorLast = 0 /\ sending = None
    /\ witnessed = [b \in Boots |-> {}] /\ latest = [b \in Boots |-> None] /\ late = {}
    /\ reading = None /\ verdict = "ok"

-----------------------------------------------------------------------------
(* The writer. *)

\* newGateway, NewWriter: a fresh chain on the files that are there.
Start ==
    /\ phase = "down" /\ boot < trouble.boots
    /\ boot' = boot + 1 /\ phase' = "serving"
    /\ prevHash' = genesisHash /\ pending' = 0 /\ head' = NoHead /\ busy' = None
    /\ anchorLast' = 0 /\ sending' = None
    /\ UNCHANGED <<trouble, queue, made, files, store, verify>>

\* Append: a handler queues a record, unless the queue is full.
Enqueue ==
    /\ phase = "serving" /\ made < MaxRecord /\ Len(queue) < QueueLimit
    /\ made' = made + 1
    /\ queue' = Append(queue, made + 1)
    /\ UNCHANGED <<process, writer, files, worker, store, verify>>

\* The head follows a record that is in the WAL.
Publish(err, hash) ==
    IF err THEN head ELSE [hash |-> hash, count |-> head.count + 1]

\* loop, first half: chain the record, store it, publish the head.
Persist ==
    /\ phase \in {"serving", "closing"} /\ busy = None /\ queue # <<>>
    /\ queue' = Tail(queue)
    /\ LET line == [inst |-> boot, prev |-> prevHash, id |-> Head(queue)]
       IN  /\ busy' = line
           /\ prevHash' = Hash(line)
           /\ pending' = pending + 1
           /\ \E w \in Write(wal, line, trouble.wal) :
                /\ wal' = w.file
                /\ head' = Publish(w.err, Hash(line))
                /\ stored' = IF w.err THEN stored ELSE stored \cup {line}
    /\ UNCHANGED <<process, made, file, worker, store, verify>>

\* Mutant: any record that is delivered empties the WAL.
TruncatesAlways(err) == ~err

\* Nothing but the record that was just delivered is in the WAL.
Truncates(err) == ~err /\ pending = 1

\* loop, second half: deliver the record, empty the WAL if nothing else is in it.
Deliver ==
    /\ busy # None
    /\ \E w \in Write(file, busy, trouble.sink) :
         /\ file' = w.file
         /\ IF Truncates(w.err) THEN wal' = EmptyFile /\ pending' = 0
            ELSE UNCHANGED <<wal, pending>>
    /\ busy' = None
    /\ UNCHANGED <<process, queue, made, prevHash, head, stored, worker, store, verify>>

-----------------------------------------------------------------------------
(* The anchor worker. *)

\* anchorOnce: the head, if it moved since the last anchor that succeeded.
AnchorRead ==
    /\ phase \in {"serving", "final"} /\ sending = None
    /\ head.count > anchorLast
    /\ sending' = head
    /\ UNCHANGED <<process, queue, made, writer, files, anchorLast, store, verify>>

Witness(b, point) ==
    /\ witnessed' = [witnessed EXCEPT ![b] = @ \cup {point}]
    /\ latest' = [latest EXCEPT ![b] = point]

\* The anchor is written.
AnchorDone ==
    /\ sending # None
    /\ Witness(boot, sending)
    /\ anchorLast' = sending.count /\ sending' = None
    /\ phase' = IF phase = "final" THEN "down" ELSE phase
    /\ UNCHANGED <<trouble, boot, queue, made, writer, files, late, verify>>

\* Mutant: what could not be anchored counts as anchored.
AnchorLastFailed == sending.count

\* A put that fails leaves it to the next one.
AnchorLastKept == anchorLast

\* The put fails, is cut off by the shutdown or times out; it may still land.
AnchorFailed ==
    /\ trouble.puts /\ sending # None
    /\ anchorLast' = AnchorLastKept /\ sending' = None
    /\ late' \in {late, late \cup {[inst |-> boot, point |-> sending]}}
    /\ phase' = IF phase = "final" THEN "down" ELSE phase
    /\ UNCHANGED <<trouble, boot, queue, made, writer, files, witnessed, latest, verify>>

\* A put that was given up arrives.
Land ==
    \E p \in late :
      /\ Witness(p.inst, p.point)
      /\ late' = late \ {p}
      /\ UNCHANGED <<process, queue, made, writer, files, worker, verify>>

-----------------------------------------------------------------------------
(* The end of a process. *)

\* Mutant: the final anchor does not wait for the writer.
DrainedEarly == TRUE

Drained == queue = <<>> /\ busy = None

\* serve: handlers are done or given up and the worker is joined, ...
Shutdown ==
    /\ phase = "serving" /\ sending = None
    /\ phase' = "closing" /\ reading' = None
    /\ UNCHANGED <<trouble, boot, queue, made, writer, files, worker, store, verdict>>

\* ... Close drains the queue, and the final anchor follows, if one is due.
Close ==
    /\ phase = "closing" /\ Drained
    /\ phase' = IF head.count > anchorLast THEN "final" ELSE "down"
    /\ UNCHANGED <<trouble, boot, queue, made, writer, files, worker, store, verify>>

\* A crash loses the queue, and what the writer was about to deliver may have
\* reached the file.
Crash ==
    /\ phase # "down"
    /\ phase' = "down" /\ queue' = <<>> /\ busy' = None
    /\ sending' = None /\ reading' = None
    /\ late' \in {late} \cup {late \cup {[inst |-> boot, point |-> p]} : p \in {sending} \ {None}}
    /\ file' \in {file} \cup {Extend(file, line) : line \in {busy} \ {None}}
                       \cup {Torn(file) : line \in IF "torn" \in trouble.sink THEN {busy} \ {None} ELSE {}}
    /\ UNCHANGED <<trouble, boot, made, prevHash, pending, head, wal, stored, anchorLast, witnessed,
                   latest, verdict>>

-----------------------------------------------------------------------------
(* GET /admin/audit/verify. *)

\* Verify, line by line: where it stands in which segment, and the hashes of
\* the records of every instance's segment.
WalkLine(v, line) ==
    LET new == line # None /\ line.inst # v.inst
        expected == IF new THEN genesisHash ELSE v.expected
    IN  IF ~v.ok \/ line = None \/ line.prev # expected THEN [v EXCEPT !.ok = FALSE]
        ELSE [v EXCEPT !.inst = line.inst, !.expected = Hash(line),
                       !.heads[line.inst] = Append(IF new THEN <<>> ELSE @, Hash(line))]

Walk(lines) ==
    FoldLeft(WalkLine, [ok |-> TRUE, inst |-> None, expected |-> genesisHash,
                        heads |-> [b \in Boots |-> <<>>]], lines)

\* Mutant: only the last record is compared with the anchor.
checkAnchorTail(heads, anchor) ==
    CASE anchor = None -> "ok"
      [] anchor # None /\ Len(heads) < anchor.count -> "truncation"
      [] anchor # None /\ Len(heads) >= anchor.count ->
           IF Last(heads) = anchor.hash THEN "ok" ELSE "tampering"

\* checkAnchor of the segment of an instance against its latest anchor.
checkAnchor(heads, anchor) ==
    CASE anchor = None -> "ok"
      [] anchor # None /\ Len(heads) < anchor.count -> "truncation"
      [] anchor # None /\ Len(heads) >= anchor.count ->
           IF heads[anchor.count] = anchor.hash THEN "ok" ELSE "tampering"

\* verifyFile reads the complete lines of the file, ...
VerifyRead ==
    /\ phase = "serving" /\ reading = None
    /\ reading' = [lines |-> file.lines]
    /\ UNCHANGED <<process, queue, made, writer, files, worker, store, verdict>>

\* ... walks them and looks the latest anchor up.
VerifyCheck ==
    /\ reading # None
    /\ LET v == Walk(reading.lines)
       IN  verdict' = IF v.ok THEN checkAnchor(v.heads[boot], latest[boot]) ELSE "broken"
    /\ reading' = None
    /\ UNCHANGED <<process, queue, made, writer, files, worker, store>>

Next ==
    \/ Start \/ Enqueue \/ Persist \/ Deliver
    \/ AnchorRead \/ AnchorDone \/ AnchorFailed \/ Land
    \/ Shutdown \/ Close \/ Crash
    \/ VerifyRead \/ VerifyCheck

Spec == Init /\ [][Next]_vars

\* The writer goes on, the worker ticks, and a put that is repeated succeeds.
Fairness ==
    WF_vars(Persist) /\ WF_vars(Deliver) /\ WF_vars(AnchorRead) /\ SF_vars(AnchorDone)

-----------------------------------------------------------------------------
(* Properties. *)

\* The records of these lines are in the file of the required sink or in the WAL.
Kept(lines) == {line.id : line \in lines} \subseteq IdsIn(file) \cup IdsIn(wal)

(***************************************************************************)
(* A record whose WAL append succeeded is not lost while its process runs  *)
(* or is down: it is in the file of the required sink or still in the WAL, *)
(* whatever deliveries fail (Writer.loop: a later success never drops an   *)
(* earlier buffered record).  Nor does an anchor of the running instance   *)
(* witness a record that a crash can lose (loop publishes the head after   *)
(* the WAL append, ADR-012).                                               *)
(***************************************************************************)
BufferedRecordsSurvive ==
    /\ Kept({line \in stored : line.inst = boot})
    /\ phase # "down" =>
         \A p \in witnessed[boot] : Last(p.hash) \in IdsIn(file) \cup IdsIn(wal)

(***************************************************************************)
(* Nor is it lost by the restart that follows a crash (the WAL buffers     *)
(* records "to disk when sinks fall behind").                              *)
(***************************************************************************)
RestartKeepsRecords == Kept(stored)

(***************************************************************************)
(* Nobody touched the file and no write failed, and the verify handler     *)
(* never says otherwise: restarts, crashes between two lines, anchors that *)
(* failed, were repeated or landed late and records written while it runs  *)
(* neither break the chain nor make it disagree with the anchor.           *)
(***************************************************************************)
NoFalseTampering ==
    trouble.wal \cup trouble.sink = {} => verdict \notin {"broken", "tampering"}

(***************************************************************************)
(* When a process has shut down in order and its last anchor succeeded,    *)
(* the whole chain is witnessed, the records included that were queued     *)
(* when the shutdown began (finalAnchor runs after the writer drained),    *)
(* unless the WAL failed.                                                  *)
(***************************************************************************)
FinalAnchorComplete ==
    [][trouble.wal = {} /\ phase = "final" /\ AnchorDone
       => [hash |-> prevHash, count |-> Len(prevHash)] \in witnessed'[boot] /\ queue = <<>>]_vars

(***************************************************************************)
(* A published head is witnessed in the end, by its own anchor or a later  *)
(* one, however often puts fail, unless the process ends (anchorOnce       *)
(* retries what failed).                                                   *)
(***************************************************************************)
HeadsAreWitnessed ==
    \A n \in Records :
      (phase = "serving" /\ head.count = n)
        ~> (phase # "serving" \/ \E p \in witnessed[boot] : p.count >= n)

(***************************************************************************)
(* The head is never torn: its hash is that of record number count (the    *)
(* reason ADR-012 gives for publishing both in one atomic value).          *)
(***************************************************************************)
HeadNotTorn == Len(head.hash) = head.count
=============================================================================
