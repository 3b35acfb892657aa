--------------------------- MODULE LocalPolicies ---------------------------
(***************************************************************************)
(* Policy files of a gateway without a control plane (ADR-033):            *)
(* policy.Store's Reload and Watch, and the lookups of cmd/mayu/gateway.go *)
(* that lay the policies over a team's record and a budget lease.          *)
(*                                                                         *)
(* The files are one sequence of documents with one modification time.     *)
(* Reload reads the documents and then asks for the times, and an operator *)
(* may save between the two.                                               *)
(***************************************************************************)
EXTENDS PolicyRules

CONSTANTS Worlds,     \* [first, edits, saves, routed]: documents at boot, documents
                      \* an operator may save and how often, models with a
                      \* route and a price
          Bases,      \* what a team's record or the config may say
          Leases,     \* leases a window may have: sets of at most one member
          Teams, Users

VARIABLES world,      \* the scenario, fixed at the start
          files,      \* the documents on disk
          mtime,      \* their modification time: the number of saves
          reading,    \* what a reload has read and not yet installed
          snap,       \* [policies, mtime]
          raced       \* history: a save fell between reading and asking for times

vars == <<world, files, mtime, reading, snap, raced>>

\* LoadPaths and checkEnforceable: every document of every file, or nothing.
Loadable(docs) ==
    /\ \A i \in DOMAIN docs :
          /\ docs[i].name # "" /\ ValidDoc(docs[i])
          /\ checkEnforceable(FromV1Alpha1(docs[i]), world.routed, FALSE)
    /\ \A i, j \in DOMAIN docs : docs[i].name = docs[j].name => i = j

Convert(docs) == [i \in DOMAIN docs |-> FromV1Alpha1(docs[i])]

\* NewStore: a gateway does not start on documents it cannot load.
Init ==
    /\ world \in Worlds
    /\ files = world.first /\ mtime = 0 /\ reading = {} /\ raced = FALSE
    /\ Loadable(files)
    /\ snap = [policies |-> Convert(files), mtime |-> 0]

\* An operator saves other documents.
Save ==
    /\ mtime < world.saves
    /\ files' \in world.edits /\ mtime' = mtime + 1
    /\ raced' = (raced \/ reading # {})
    /\ UNCHANGED <<world, reading, snap>>

changed == snap.mtime # mtime

\* Watch sees a change and Reload reads the files.
ReadFiles ==
    /\ reading = {} /\ changed
    /\ reading' = {files} /\ raced' = FALSE
    /\ UNCHANGED <<world, files, mtime, snap>>

\* Reload keeps the previous snapshot on any error.
Install ==
    \E docs \in reading :
      /\ snap' = IF Loadable(docs) THEN [policies |-> Convert(docs), mtime |-> mtime] ELSE snap
      /\ reading' = {}
      /\ UNCHANGED <<world, files, mtime, raced>>

Next == Save \/ ReadFiles \/ Install

Spec == Init /\ [][Next]_vars

-----------------------------------------------------------------------------
(* A team's limits in force (SetTeamLookup).  A layer is                   *)
(* [rpm, tpm, month, day] with windows [limit, block].                     *)

Overlay(base, w) ==
    IF w.limit = 0 THEN base
    ELSE [limit |-> minNonZero(base.limit, w.limit), block |-> w.hard \/ base.block]

\* The budget lease of a window; an empty one cannot be written as 0.
Clamp(w, lease) ==
    IF \A l \in lease : w.limit # 0 /\ Max({1, l.allowance}) >= w.limit THEN w
    ELSE [limit |-> Max({1} \cup {l.allowance : l \in lease}),
          block |-> w.block \/ \E l \in lease : l.hard]

\* A switching threshold only keeps the meter running.
Meter(w, threshold) ==
    IF w.limit = 0 /\ threshold > 0 THEN [limit |-> threshold, block |-> FALSE] ELSE w

TeamPolicy(base, limits, monthLease, dayLease) ==
    IF limits = {} THEN base
    ELSE LET tl == CHOOSE x \in limits : TRUE IN
         [rpm   |-> IF tl.rpm = 0 THEN base.rpm ELSE tl.rpm,
          tpm   |-> IF tl.tpm = 0 THEN base.tpm ELSE tl.tpm,
          month |-> Meter(Clamp(Overlay(base.month, tl.month), monthLease), tl.routeMonth),
          day   |-> Meter(Clamp(Overlay(base.day, tl.day), dayLease), tl.routeDay)]

\* SetUserLookup: one on_exceeded for the two windows of a user.
UserPolicy(limits) ==
    {[month |-> u.month.limit, day |-> u.day.limit, block |-> u.month.hard \/ u.day.hard]
     : u \in limits}

-----------------------------------------------------------------------------
(* Properties. *)

\* The budgets in force of a set of policies in a window, without the limits
\* that only switch tiers.
Caps(subjects, period) ==
    {b \in UNION {{snap.policies[i].rules[j].body["budget"] :
                     j \in {n \in DOMAIN snap.policies[i].rules :
                              /\ Has(snap.policies[i].rules[n], "budget")
                              /\ ~IsRoutingOnlyBudget(snap.policies[i],
                                                      snap.policies[i].rules[n].name)}}
                  : i \in {k \in DOMAIN snap.policies :
                             <<snap.policies[k].team, snap.policies[k].user>> \in subjects}}
       : ~b.unlimited /\ b.period = period}

MostRestrictive(w, caps) ==
    IF caps = {} THEN w = NoWindow
    ELSE LET least == Min({b.limit : b \in caps})
         IN  /\ w.limit = least
             /\ w.hard = \E b \in caps : b.limit = least /\ b.hard

Holds(w, limit) == w.block /\ w.limit \in 1..limit

\* The limits in force are those of one complete set of documents, the most
\* restrictive of them.  Documents are replaced as a whole, and a reload that
\* no save overlapped leaves the watcher a change to see or the saved
\* documents in force: an edit is lost only by the race of Reload's reads with
\* its calls of Stat (Reload, Watch).
\* Whatever the order of documents and rules, each window of a team has the
\* smallest limit any of its rules declares, hard if a rule with that limit
\* is (mergeTeamLimits); thresholds that only switch tiers are not caps.  The
\* same for a user, across the rules for the user in the team and in any
\* team: a document about one window never removes the cap of the other
\* (mergeUserLimits, narrow).  And the layers of a team's limits only tighten:
\* a blocking record, a hard policy limit and a hard lease each still hold
\* when the others are laid over them, and nothing blocks that none of the
\* three asks to (SetTeamLookup; the lease of a hard rule comes with it).
PoliciesInForce ==
    /\ \A team \in Teams : \A tl \in TeamLimits(snap.policies, team) :
         /\ MostRestrictive(tl.month, Caps({<<team, "">>}, "month"))
         /\ MostRestrictive(tl.day, Caps({<<team, "">>}, "day"))
         /\ \A base \in Bases, lease \in Leases :
              LET Checked(b, w, e) ==
                    /\ b.block /\ b.limit > 0 => Holds(e, b.limit)
                    /\ w.hard => Holds(e, w.limit)
                    /\ \A l \in lease : w.hard /\ l.hard => Holds(e, Max({1, l.allowance}))
                    /\ e.block => b.block \/ w.hard \/ \E l \in lease : l.hard
                  tp == TeamPolicy(base, {tl}, lease, lease)
              IN  Checked(base.month, tl.month, tp.month) /\ Checked(base.day, tl.day, tp.day)
    /\ \A team \in Teams, user \in Users :
         LET subjects == {<<team, user>>, <<"", user>>} IN
         \A ul \in UserLimits(snap.policies, team, user) :
            /\ MostRestrictive(ul.month, Caps(subjects, "month"))
            /\ MostRestrictive(ul.day, Caps(subjects, "day"))
    /\ \E docs \in world.edits \cup {world.first} :
         Loadable(docs) /\ snap.policies = Convert(docs)
    /\ reading = {} /\ ~raced => changed \/ snap.policies = Convert(files)
=============================================================================
