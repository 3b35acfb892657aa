----------------------------- MODULE BodyStore ------------------------------
(***************************************************************************)
(* The captured request and response bodies (ADR-018): internal/bodystore, *)
(* its purge worker, the admin delete, and `mayu bodies rewrap-key`        *)
(* (cmd/mayu/bodies.go), which moves every data key from one master key to *)
(* another while the fleet keeps writing.                                  *)
(*                                                                         *)
(* A row is [size, wrapped]; refs are ULIDs, here numbers in the order of  *)
(* capture.  A wrapped key is [master, by]: sealing draws a fresh nonce,   *)
(* so two sealings of one data key differ in `by`, the sealer.             *)
(***************************************************************************)
EXTENDS Integers, Sequences, FiniteSets, FiniteSetsExt, Functions

CONSTANTS BodyWorlds,  \* [sizes, rotations, replicas, maxBytes]
          Masters      \* the master keys, in the order they are introduced

VARIABLES world,    \* the deployment, chosen once
          puts,     \* bodies captured so far
          rows,     \* the bodies table: ref -> [size, wrapped]
          fleet,    \* the master key the gateways seal with
          purge,    \* running total of each replica's Purge, -1 when idle
          rewrap    \* runs of rewrap-key: [pc, todo, listed, done, skipped, failed, code]

vars == <<world, puts, rows, fleet, purge, rewrap>>

Without(R) == [r \in DOMAIN rows \ R |-> rows[r]]
Rotation(k) == world.rotations[k]

Init ==
  /\ world \in BodyWorlds
  /\ puts = 0 /\ rows = <<>> /\ fleet = Masters[1]
  /\ purge = [p \in world.replicas |-> -1]
  /\ rewrap = [k \in DOMAIN world.rotations |->
       [pc |-> "idle", todo |-> <<>>, listed |-> {}, done |-> 0, skipped |-> {}, failed |-> 0, code |-> 0]]

\* sealEnvelope and Put: a fresh data key wrapped by the fleet's master key.
Put ==
  /\ puts < Len(world.sizes)
  /\ puts' = puts + 1
  /\ rows' = [r \in DOMAIN rows \cup {puts'} |->
                IF r = puts' THEN [size |-> world.sizes[r],
                                   wrapped |-> [master |-> fleet, by |-> 0]] ELSE rows[r]]
  /\ UNCHANGED <<world, fleet, purge, rewrap>>

\* The fleet is restarted with the new master key.
SwitchKey ==
  /\ fleet = Masters[1]
  /\ fleet' = Masters[2]
  /\ UNCHANGED <<world, puts, rows, purge, rewrap>>

\* Fetch opens the envelope with the gateway's master key or says the body
\* is gone.
Fetch(ref, master) ==
  IF ref \in DOMAIN rows /\ rows[ref].wrapped.master = master THEN "body" ELSE "gone"

\* BodiesHandler.delete: the row goes, whatever the state of the rotation.
Erase ==
  /\ \E r \in DOMAIN rows : rows' = Without({r})
  /\ UNCHANGED <<world, puts, fleet, purge, rewrap>>

----------------------------------------------------------------------------
(* Purge, on every replica without a lease                                 *)

\* Purge: expired rows go (the oldest ones), then the size of the rest is read.
PurgeBegin(p) ==
  /\ purge[p] = -1
  /\ \E n \in 0 .. puts :
       /\ n = 0 \/ n \in DOMAIN rows
       /\ rows' = Without(1 .. n)
       /\ purge' = [purge EXCEPT ![p] =
            MapThenSumSet(LAMBDA r : rows[r].size, DOMAIN rows \ (1 .. n))]
  /\ UNCHANGED <<world, puts, fleet, rewrap>>

\* Purge, the loop: the oldest row goes while the running total is too large.
PurgeOldest(p) ==
  /\ purge[p] > world.maxBytes /\ DOMAIN rows # {}
  /\ LET r == Min(DOMAIN rows)
     IN /\ rows' = Without({r})
        /\ purge' = [purge EXCEPT ![p] = @ - rows[r].size]
  /\ UNCHANGED <<world, puts, fleet, rewrap>>

PurgeEnd(p) ==
  /\ purge[p] >= 0 /\ (purge[p] <= world.maxBytes \/ DOMAIN rows = {})
  /\ purge' = [purge EXCEPT ![p] = -1]
  /\ UNCHANGED <<world, puts, rows, fleet, rewrap>>

----------------------------------------------------------------------------
(* mayu bodies rewrap-key                                                  *)

\* ListWrappedKeys: the refs and their wrapped keys.
List(k) ==
  /\ rewrap[k].pc = "idle"
  /\ rewrap' = [rewrap EXCEPT ![k].pc = "run",
                              ![k].todo = [r \in DOMAIN rows |-> rows[r].wrapped],
                              ![k].listed = DOMAIN rows]
  /\ UNCHANGED <<world, puts, rows, fleet, purge>>

\* Mutant: the update is keyed on the reference alone.
SwapAny(r, old) == r \in DOMAIN rows

\* UpdateWrappedKey: a compare-and-swap on the old wrapped key.
SwapMatches(r, old) == r \in DOMAIN rows /\ rows[r].wrapped = old

\* One row of the loop: a key the old master does not open is skipped; the
\* update may match, find the row changed or gone, or fail.
RewrapRow(k) ==
  /\ rewrap[k].pc = "run"
  /\ \E r \in DOMAIN rewrap[k].todo :
       LET old  == rewrap[k].todo[r]
           rest == [x \in DOMAIN rewrap[k].todo \ {r} |-> rewrap[k].todo[x]]
       IN \/ /\ old.master # Rotation(k).old
             /\ rewrap' = [rewrap EXCEPT ![k].todo = rest, ![k].skipped = @ \cup {r}]
             /\ UNCHANGED rows
          \/ /\ old.master = Rotation(k).old /\ SwapMatches(r, old)
             /\ rows' = [rows EXCEPT ![r].wrapped = [master |-> Rotation(k).new, by |-> k]]
             /\ rewrap' = [rewrap EXCEPT ![k].todo = rest, ![k].done = @ + 1]
          \/ /\ old.master = Rotation(k).old /\ ~ SwapMatches(r, old)
             /\ rewrap' = [rewrap EXCEPT ![k].todo = rest]
             /\ UNCHANGED rows
          \/ /\ old.master = Rotation(k).old
             /\ rewrap' = [rewrap EXCEPT ![k].todo = rest, ![k].failed = @ + 1]
             /\ UNCHANGED rows
  /\ UNCHANGED <<world, puts, fleet, purge>>

\* The exit code: failures count, and so does a key that opened nothing.
RewrapExit(k) ==
  /\ rewrap[k].pc = "run" /\ DOMAIN rewrap[k].todo = {}
  /\ rewrap' = [rewrap EXCEPT ![k].pc = "exit",
       ![k].code = IF rewrap[k].failed > 0 \/ (rewrap[k].done = 0 /\ rewrap[k].skipped # {})
                   THEN 1 ELSE 0]
  /\ UNCHANGED <<world, puts, rows, fleet, purge>>

Next ==
  \/ Put \/ SwitchKey \/ Erase
  \/ \E p \in world.replicas : PurgeBegin(p) \/ PurgeOldest(p) \/ PurgeEnd(p)
  \/ \E k \in DOMAIN world.rotations : List(k) \/ RewrapRow(k) \/ RewrapExit(k)

----------------------------------------------------------------------------
(* Properties                                                              *)

\* A rotation that exits 0 really finished: no body its old key could open
\* when it listed them needs that key any more, and none needs it again,
\* whatever runs of rewrap-key, purges, erasures and writes of the fleet
\* overlap (bodies.go, UpdateWrappedKey).
RotationFinished ==
  \A k \in DOMAIN rewrap : rewrap[k].pc = "exit" /\ rewrap[k].code = 0 =>
    \A r \in rewrap[k].listed \ rewrap[k].skipped : Fetch(r, Rotation(k).old) = "gone"
=============================================================================
