------------------------------ MODULE MCAudit ------------------------------
(***************************************************************************)
(* Instances of AuditChain for TLC: the one of MCRecords, in which either  *)
(* disks or processes and puts fail, and the two that exhibit a            *)
(* disagreement between the code and what its documents say.               *)
(***************************************************************************)
EXTENDS AuditChain

\* The disks of one process fail in every way.
BadDisks == [wal |-> {"lost", "unsynced"}, sink |-> Faults, boots |-> 1, puts |-> FALSE]

\* Processes crash and are restarted, and anchors fail.
BadDays == [wal |-> {}, sink |-> {}, boots |-> 2, puts |-> TRUE]

DisksOrDays == {BadDisks, BadDays}

\* A sink is behind when the process ends.
SinkBehind == {[BadDays EXCEPT !.sink = {"lost"}, !.puts = FALSE]}

\* Only the WAL fails.
BadWal == {[BadDisks EXCEPT !.wal = {"lost"}, !.sink = {}]}
=============================================================================
