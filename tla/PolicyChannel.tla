--------------------------- MODULE PolicyChannel ---------------------------
(***************************************************************************)
(* How a policy document gets from an operator to the gateways: the        *)
(* Postgres table and the memory of the control plane's replicas           *)
(* (internal/policystore, internal/controlplane, ADR-038), the heartbeat   *)
(* (internal/proxy/sync.go, ADR-034) and the snapshot a gateway enforces   *)
(* (policy.Store.ApplyWire).                                               *)
(*                                                                         *)
(* A policy set is a sequence of documents ordered by name; the set itself *)
(* stands for its fingerprint (GenerationOf).  A rejection is the rejected *)
(* document.  A heartbeat that its sender has given up may still reach a   *)
(* replica.  In authority mode (ADR-045) the answer's set is read from the *)
(* table and the journal is changed before the snapshot.                   *)
(***************************************************************************)
EXTENDS PolicyRules

CONSTANTS Worlds,     \* [store, authority, shared, files, writes, deletes, routed,
                      \* planes, replicas, writers]: gateways, replicas of the
                      \* control plane, PUT and DELETE requests of operators
          MaxNet,     \* bound on heartbeats under way
          NameOrder   \* all document names, in the order of the table

VARIABLES world,      \* the scenario, fixed at the start
          table,      \* table policies: a function from names to documents
          seeded,     \* the marker in policy_meta
          files,      \* documents of --policies
          replica,    \* [phase, wire] of each replica
          writer,     \* [step, at, listed] of each operator's request
          net,        \* heartbeats on their way
          plane,      \* what a gateway has applied, and its call
          heard,      \* rejections some replica has recorded, by gateway
          past,       \* history: contents the table has had
          gone        \* history: documents an operator deleted

controlVars == <<table, seeded, files, replica, writer, past, gone>>
vars == <<world, controlVars, net, plane, heard>>

\* PostgresStore.List: every document ordered by name.
List(t) == SelectSeq([i \in DOMAIN NameOrder |->
                        IF NameOrder[i] \in DOMAIN t THEN t[NameOrder[i]]
                        ELSE [name |-> ""]],
                     LAMBDA d : d.name # "")

NoTable == [n \in {} |-> <<>>]

Tabled(docs) == [n \in {docs[i].name : i \in DOMAIN docs} |->
                   CHOOSE d \in Range(docs) : d.name = n]

Idle == [phase |-> "idle", set |-> <<>>, full |-> FALSE]

Init ==
    /\ world \in Worlds
    /\ table = NoTable /\ seeded = FALSE /\ files = world.files
    /\ replica = [r \in world.replicas |-> [phase |-> "down", wire |-> <<>>]]
    /\ writer = [w \in world.writers |-> [step |-> "new", at |-> {}, listed |-> <<>>]]
    /\ net = {} /\ heard = [p \in world.planes |-> {}]
    /\ plane = [p \in world.planes |->
                  [generation |-> {}, policies |-> <<>>, denied |-> [n \in {} |-> {}],
                   pending |-> {}, journal |-> {}, invalid |-> FALSE, synced |-> FALSE,
                   call |-> Idle]]
    /\ past = {NoTable} /\ gone = {}

-----------------------------------------------------------------------------
(* world.replicas of the control plane. *)

\* NewServer loads the files; without a store the replica serves them.
Boot(r) ==
    /\ replica[r].phase = "down"
    /\ replica' = [replica EXCEPT ![r] = [phase |-> IF world.store THEN "attach" ELSE "up",
                                          wire |-> files]]
    /\ UNCHANGED <<world, table, seeded, files, writer, past, gone, net, plane, heard>>

\* AttachPolicyStore reads the marker.
CheckSeeded(r) ==
    /\ replica[r].phase = "attach"
    /\ replica' = [replica EXCEPT ![r].phase = IF seeded THEN "reload" ELSE "seed"]
    /\ UNCHANGED <<world, table, seeded, files, writer, past, gone, net, plane, heard>>

\* Mutant: an empty table is filled again.
SeedEmpty(r) ==
    /\ replica[r].phase = "seed" \/ (replica[r].phase = "reload" /\ table = NoTable)
    /\ table' = IF table = NoTable THEN Tabled(replica[r].wire) ELSE table
    /\ past' = past \cup {table'} /\ seeded' = TRUE
    /\ replica' = [replica EXCEPT ![r].phase = "reload"]
    /\ UNCHANGED <<world, files, writer, gone, net, plane, heard>>

\* Seed: one transaction that claims the marker first.
Seed(r) ==
    /\ replica[r].phase = "seed"
    /\ table' = IF seeded THEN table ELSE Tabled(replica[r].wire)
    /\ past' = past \cup {table'} /\ seeded' = TRUE
    /\ replica' = [replica EXCEPT ![r].phase = "reload"]
    /\ UNCHANGED <<world, files, writer, gone, net, plane, heard>>

\* AttachPolicyStore ends with a reload; the replica starts to serve.
Attach(r) ==
    /\ replica[r].phase = "reload"
    /\ replica' = [replica EXCEPT ![r] = [phase |-> "up", wire |-> List(table)]]
    /\ UNCHANGED <<world, table, seeded, files, writer, past, gone, net, plane, heard>>

\* A replica stops, at boot or later; requests of operators at it fail.
Stop(r) ==
    /\ replica[r].phase # "down"
    /\ replica' = [replica EXCEPT ![r] = [phase |-> "down", wire |-> <<>>]]
    /\ writer' = [w \in world.writers |->
                    IF writer[w].at = {r} THEN [writer[w] EXCEPT !.step = "done"]
                    ELSE writer[w]]
    /\ UNCHANGED <<world, table, seeded, files, past, gone, net, plane, heard>>

\* An operator edits the files.
EditFiles ==
    /\ ~world.store /\ world.deletes # {}
    /\ \E d \in world.writes : files' = <<d>>
    /\ files' # files
    /\ UNCHANGED <<world, table, seeded, replica, writer, past, gone, net, plane, heard>>

\* Watch and changed: only without a store (Reload's race is in LocalPolicies).
WatchFiles(r) ==
    /\ ~world.store /\ replica[r].phase = "up" /\ replica[r].wire # files
    /\ replica' = [replica EXCEPT ![r].wire = files]
    /\ UNCHANGED <<world, table, seeded, files, writer, past, gone, net, plane, heard>>

\* ApplyWrite: the document is committed.  The request may end here, with an
\* error after the commit.
Put(w, r) ==
    /\ world.store /\ replica[r].phase = "up" /\ writer[w].step = "new"
    /\ \E d \in world.writes :
          table' = d.name :> d @@ table /\ gone' = gone \ {d}
    /\ past' = past \cup {table'}
    /\ \E step \in {"list", "done"} :
          writer' = [writer EXCEPT ![w] = [step |-> step, at |-> {r}, listed |-> <<>>]]
    /\ UNCHANGED <<world, seeded, files, replica, net, plane, heard>>

\* ApplyDelete: the same for a document that is there.
Delete(w, r) ==
    /\ world.store /\ replica[r].phase = "up" /\ writer[w].step = "new"
    /\ \E n \in world.deletes \cap DOMAIN table :
          /\ table' = [m \in DOMAIN table \ {n} |-> table[m]]
          /\ gone' = gone \cup {table[n]}
    /\ past' = past \cup {table'}
    /\ \E step \in {"list", "done"} :
          writer' = [writer EXCEPT ![w] = [step |-> step, at |-> {r}, listed |-> <<>>]]
    /\ UNCHANGED <<world, seeded, files, replica, net, plane, heard>>

\* ReloadFromStore lists the table ...
ListRows(w) ==
    /\ writer[w].step = "list"
    /\ writer' = [writer EXCEPT ![w] = [@ EXCEPT !.step = "install", !.listed = List(table)]]
    /\ UNCHANGED <<world, table, seeded, files, replica, past, gone, net, plane, heard>>

\* ... and installs what it read, under the server's lock only now.
InstallRows(w) ==
    /\ writer[w].step = "install"
    /\ replica' = [r \in world.replicas |->
                     IF r \in writer[w].at THEN [replica[r] EXCEPT !.wire = writer[w].listed]
                     ELSE replica[r]]
    /\ writer' = [writer EXCEPT ![w].step = "done"]
    /\ UNCHANGED <<world, table, seeded, files, past, gone, net, plane, heard>>

-----------------------------------------------------------------------------
(* Heartbeats. *)

\* syncOnce sends what was applied and the rejections not yet delivered.
Send(p) ==
    /\ plane[p].call.phase = "idle" /\ Cardinality(net) < MaxNet
    /\ net' = net \cup {[plane |-> p, generation |-> plane[p].generation,
                         rejections |-> plane[p].pending]}
    /\ plane' = [plane EXCEPT ![p].call.phase = "sent"]
    /\ UNCHANGED <<world, controlVars, heard>>

\* Mutant: sets are told apart by their length.
AnswerCount(m, r) ==
    LET set == IF world.authority THEN List(table) ELSE replica[r].wire IN
    [phase |-> "answered", set |-> set,
     full |-> world.authority
              \/ (set # <<>> /\ \A docs \in m.generation : Len(docs) # Len(set))]

\* The set in the answer to a request: all of it in authority mode, else only
\* if it is another one.  An empty list is left out of the answer.
Answer(m, r) ==
    LET set == IF world.authority THEN List(table) ELSE replica[r].wire IN
    [phase |-> "answered", set |-> set,
     full |-> world.authority \/ (m.generation # {set} /\ set # <<>>)]

\* handleSync and authoritySync: the answer counts if the sender still waits
\* for this request, and may be lost.
Serve(m, r) ==
    /\ replica[r].phase = "up"
    /\ heard' = [heard EXCEPT ![m.plane] = @ \cup m.rejections]
    /\ net' = net \ {m}
    /\ \/ /\ plane[m.plane].call.phase = "sent"
          /\ m.generation = plane[m.plane].generation /\ m.rejections = plane[m.plane].pending
          /\ plane' = [plane EXCEPT ![m.plane].call = Answer(m, r)]
       \/ UNCHANGED plane
    /\ UNCHANGED <<world, controlVars>>

\* The request is lost, or its sender gives up.
Lose(m) ==
    /\ net' = net \ {m}
    /\ UNCHANGED <<world, controlVars, plane, heard>>

GiveUp(p) ==
    /\ plane[p].call.phase = "sent"
    /\ plane' = [plane EXCEPT ![p].call = Idle]
    /\ UNCHANGED <<world, controlVars, net, heard>>

\* Time passes without a heartbeat: max_policy_age.
Age(p) ==
    /\ plane[p].synced
    /\ plane' = [plane EXCEPT ![p].synced = FALSE]
    /\ UNCHANGED <<world, controlVars, net, heard>>

\* The journal takes the answer's budgets before the snapshot is published,
\* or fails.
ApplyJournal(p) ==
    /\ world.authority /\ plane[p].call.phase = "answered"
    /\ \/ plane' = [plane EXCEPT ![p].invalid = TRUE, ![p].journal = {plane[p].call.set},
                                 ![p].call.phase = "journaled"]
       \/ plane' = [plane EXCEPT ![p].invalid = TRUE, ![p].call = Idle]
    /\ UNCHANGED <<world, controlVars, net, heard>>

-----------------------------------------------------------------------------
(* ApplyWire. *)

SubjectOf(d) == [team |-> d.team, user |-> d.user]

Refused(docs) ==
    {d \in Range(docs) : ~ValidDoc(d) \/ ~checkEnforceable(FromV1Alpha1(d), world.routed, world.shared)}

Denied(st, n) == IF n \in DOMAIN st.denied THEN st.denied[n] ELSE {}

\* RoutingSnapshot: the policies of a request, or none if a subject it
\* matches is denied.
RoutingSnapshot(st, team, user) ==
    IF \E n \in DOMAIN st.denied : \E sub \in st.denied[n] : Matches(sub, team, user)
    THEN {} ELSE {SelectSeq(st.policies, LAMBDA d : Matches(d, team, user))}

\* Mutant: only what was in force before is remembered.
RememberOld(st, d) ==
    Denied(st, d.name)
    \cup {SubjectOf(q) : q \in {x \in Range(st.policies) :
                                  x.name = d.name /\ hasMandatoryRouting(x)}}

\* rememberRejection: the subjects that stay denied because d was rejected.
rememberRejection(st, d) ==
    Denied(st, d.name)
    \cup (IF hasMandatoryRouting(d) THEN {SubjectOf(d)} ELSE {})
    \cup {SubjectOf(q) : q \in {x \in Range(st.policies) :
                                  x.name = d.name /\ hasMandatoryRouting(x)}}

\* ApplyWire for a set whose names are present and distinct, as every set
\* from a table or from checked files is.
ApplyWire(st, docs) ==
    LET bad   == Refused(docs)
        fixed == {d.name : d \in Range(docs) \ bad}
        kept  == {n \in (DOMAIN st.denied \ fixed) \cup {d.name : d \in bad} :
                    Denied(st, n) # {} \/ \E d \in bad : d.name = n
                                                         /\ rememberRejection(st, d) # {}}
    IN  [st EXCEPT
           !.generation = {docs}, !.policies = SelectSeq(docs, LAMBDA d : d \notin bad),
           !.pending = bad,
           !.denied = [n \in kept |-> Denied(st, n) \cup
                                      UNION {rememberRejection(st, d) :
                                               d \in {x \in bad : x.name = n}}]]

\* The rest of syncOnce: the rejections have been delivered, a set in the
\* answer is applied, and in authority mode a rejection fails the heartbeat.
Publish(p) ==
    /\ plane[p].call.phase = (IF world.authority THEN "journaled" ELSE "answered")
    /\ \E st \in {IF plane[p].call.full
                  THEN ApplyWire([plane[p] EXCEPT !.pending = {}], plane[p].call.set)
                  ELSE [plane[p] EXCEPT !.pending = {}]} :
          plane' = [plane EXCEPT ![p] =
                      IF world.authority /\ st.pending # {}
                      THEN [st EXCEPT !.invalid = TRUE, !.call = Idle]
                      ELSE [st EXCEPT !.invalid = FALSE, !.synced = TRUE, !.call = Idle]]
    /\ UNCHANGED <<world, controlVars, net, heard>>

Next ==
    \/ \E r \in world.replicas :
          \/ Boot(r) \/ CheckSeeded(r) \/ Seed(r) \/ Attach(r) \/ Stop(r) \/ WatchFiles(r)
          \/ \E w \in world.writers : Put(w, r) \/ Delete(w, r)
    \/ EditFiles
    \/ \E w \in world.writers : ListRows(w) \/ InstallRows(w)
    \/ \E p \in world.planes : Send(p) \/ GiveUp(p) \/ Age(p) \/ ApplyJournal(p) \/ Publish(p)
    \/ \E m \in net : Lose(m) \/ \E r \in world.replicas : Serve(m, r)

Spec == Init /\ [][Next]_vars

-----------------------------------------------------------------------------
(* Properties. *)

Ready(p) == plane[p].synced /\ ~plane[p].invalid

\* A gateway enforces what it says it applied.  One whose budgets come from
\* the authority is ready only when the journal and the snapshot hold the same
\* set and every document of it is enforced: no request sees new budgets with
\* old policies, or the reverse (syncOnce, GovernanceReady).  A document of the
\* applied set whose loss would route private data or overspend is enforced, or
\* its subject is denied (ApplyWire).  And a rejection of a document of that
\* set is still to be sent or some replica has recorded it, whatever requests
\* and answers were lost.
AppliedIsEnforced ==
    \A p \in world.planes :
       /\ world.authority /\ Ready(p) => plane[p].journal = plane[p].generation
       /\ \A docs \in plane[p].generation :
            /\ world.authority /\ Ready(p) => Refused(docs) = {}
            /\ \A d \in {x \in Range(docs) : hasMandatoryRouting(x)} :
                 d \in Range(plane[p].policies) \/ RoutingSnapshot(plane[p], d.team, d.user) = {}
            /\ Refused(docs) \subseteq plane[p].pending \cup heard[p]

\* A replica serves a set that the table held at some moment: a document that
\* was not committed is never handed out (ReloadFromStore after the write).
\* And a document an operator deleted stays away until one is written again,
\* although the files that first seeded the table still have it and replicas
\* restart at any time (Seed and its marker).
StoreHonoured ==
    /\ \A r \in world.replicas : world.store /\ replica[r].phase = "up" =>
         \E t \in past : replica[r].wire = List(t)
    /\ \A d \in gone : d \notin Range(table)

\* The set in a successful answer is the set in force: "Policies is the full
\* current document set; omitted (nil) when the caller's generation already
\* matches" (SyncResponse).
HeartbeatInstalls ==
    [][\A p \in world.planes :
         plane[p].call.phase = "answered" /\ plane'[p].call.phase = "idle" /\ ~world.authority
            => plane'[p].generation = {plane[p].call.set}]_vars

\* Heartbeats go on (Run's ticker), a call ends after the client's timeout, a
\* request is not under way forever, and answers, though any may be lost, come
\* through again and again; a replica that is down is started.
Fairness ==
    /\ \A p \in UNION {w.planes : w \in Worlds} :
          /\ WF_vars(p \in world.planes /\ Send(p)) /\ WF_vars(p \in world.planes /\ GiveUp(p))
          /\ SF_vars(p \in world.planes /\ Publish(p))
          /\ SF_vars(p \in world.planes /\ ApplyJournal(p) /\ plane'[p].call # Idle)
          /\ SF_vars(\E m \in net, r \in world.replicas :
                       m.plane = p /\ Serve(m, r) /\ plane' # plane)
    /\ WF_vars(Cardinality(net) = MaxNet /\ \E m \in net : Lose(m))
    /\ \A r \in UNION {w.replicas : w \in Worlds} :
          WF_vars(r \in world.replicas /\ (Boot(r) \/ CheckSeeded(r) \/ Seed(r) \/ Attach(r)))

\* Once operators are done and the replicas stay up and agree with the table,
\* every gateway comes to apply their set unless it is empty (syncOnce keeps
\* retrying, and what it was denied or could not enforce does not stop it).
Settled(set) ==
    /\ set # <<>> /\ world.store
    /\ \A w \in world.writers : writer[w].step = "done"
    /\ List(table) = set /\ \A r \in world.replicas : replica[r] = [phase |-> "up", wire |-> set]

Converges ==
    \A p \in UNION {w.planes : w \in Worlds} :
       []<>(p \in world.planes /\ Settled(List(table)) => plane[p].generation = {List(table)})
=============================================================================
