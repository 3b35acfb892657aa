------------------------------ MODULE MCFleet ------------------------------
(***************************************************************************)
(* Instances of EscrowFleet for TLC.                                       *)
(***************************************************************************)
EXTENDS EscrowFleet

HardCap(rev, limit, grant) == [rev |-> rev, limit |-> limit, grant |-> grant, hard |-> TRUE]
SoftCap(rev, limit) == [rev |-> rev, limit |-> limit, grant |-> 0, hard |-> FALSE]

OneCap == {HardCap(1, 3, 2)}

OneSubject == {{1}}

Outcome(actual, complete) == [actual |-> actual, complete |-> complete, invalidUsage |-> FALSE]

\* A call that cost nothing.
Completed == {Outcome(0, TRUE)}

\* Also one that broke off.
FewOutcomes == {Outcome(0, TRUE), Outcome(0, FALSE)}

\* A good call, one over its bound and one whose usage could not be trusted.
BadOutcomes ==
    {Outcome(0, TRUE), Outcome(2, TRUE),
     [actual |-> 0, complete |-> TRUE, invalidUsage |-> TRUE]}

\* A cap that is turned into a soft budget, or deleted.
Edits == {HardCap(1, 3, 2), SoftCap(2, 2), NoBudget}

\* Two budgets that a call falls under, hard or soft.
HardOrSoft == {HardCap(1, 2, 2), SoftCap(2, 2)}

TwoScopes == {{1, 2}, {1}}

-----------------------------------------------------------------------------
(* The scenarios.  Each lets a few things happen often and the rest not.   *)

Scenario(definitions, subjects, bounds, outcomes) ==
    [definitions |-> definitions, subjects |-> subjects, bounds |-> bounds,
     outcomes |-> outcomes, files |-> 1, boots |-> 1, requests |-> 1, permits |-> 1,
     time |-> 0, flight |-> 1, copies |-> FALSE, cancels |-> FALSE]

\* A crash, calls that end badly, replies and batches that overtake each other.
Crash == [Scenario(OneCap, OneSubject, {1}, BadOutcomes)
            EXCEPT !.boots = 2, !.permits = 2, !.flight = 2]

\* Several grants on one file, used by several calls.
Demand == [Scenario(OneCap, OneSubject, {1, 2}, Completed) EXCEPT !.requests = 2, !.permits = 2]

\* Calls under two budgets, hard or soft, and a crash.
Scopes == [Scenario(HardOrSoft, TwoScopes, {1}, FewOutcomes) EXCEPT !.boots = 2, !.requests = 2]

\* Two nodes that compete for one budget.
Nodes == [Scenario(OneCap, OneSubject, {2}, FewOutcomes)
            EXCEPT !.files = 2, !.boots = 2, !.requests = 2, !.permits = 2]

\* Grants that expire, windows that end, a restart, callers that give up.
Clock == [Scenario(OneCap, OneSubject, {1}, Completed)
            EXCEPT !.boots = 2, !.time = 3, !.cancels = TRUE]

\* A budget that is edited and deleted while it is in use.
Policy == [Scenario(Edits, OneSubject, {1}, FewOutcomes) EXCEPT !.time = 2]

\* A journal that is copied while it is in use, and the copy opened.
Clones == [Scenario(OneCap, OneSubject, {1}, Completed)
             EXCEPT !.files = 2, !.boots = 3, !.copies = TRUE]

OneNode == {Crash, Demand, Scopes}
ManyNodes == {Nodes, Clones, Clock, Policy}

\* One node whose messages get lost until the grant has expired.
Losses == {[Scenario(OneCap, OneSubject, {1}, FewOutcomes) EXCEPT !.time = 2]}

FileSymmetry == Permutations(Files)
=============================================================================
