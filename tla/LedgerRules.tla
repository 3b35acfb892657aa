---------------------------- MODULE LedgerRules ----------------------------
(***************************************************************************)
(* The accounting rules of the Postgres budget authority                   *)
(* (internal/authority/pgstore): what one cumulative grant report, one     *)
(* meter report and one grant request do to the rows they touch.  The      *)
(* rules are operators on row values; AuthorityLedger runs them inside     *)
(* database transactions and EscrowFleet runs them against node journals.  *)
(*                                                                         *)
(* A grant row is a record                                                 *)
(*   acct      <<budget key, window>> it is charged to                     *)
(*   rev       policy revision it was requested under                      *)
(*   want      requested amount, amount the granted one (0: denied)        *)
(*   seq, consumed, observed, closed, overrun   last accepted report       *)
(* The JSON, hashing and identity text of the wire types are left out.     *)
(* "old" says that a report names an earlier boot of the node than the one *)
(* that sends it (r.Instance != currentInstance).                          *)
(***************************************************************************)
EXTENDS Integers

CONSTANTS MaxInt64,   \* largest representable amount (math.MaxInt64)
          NoBudget    \* no current definition for a budget key

ASSUME MaxInt64Assumption == MaxInt64 \in Nat \ {0}

Larger(a, b) == IF a >= b THEN a ELSE b

Smaller(a, b) == IF a <= b THEN a ELSE b

\* Mutant: the overflow check is gone.
AddUnchecked(a, b) == a >= 0 /\ b >= 0

\* checkedAdd succeeds on a and b.
AddFits(a, b) == a >= 0 /\ b >= 0 /\ a + b <= MaxInt64

NewAccount(soft) ==
    [hardEncumbered |-> 0, hardConsumed |-> 0, softConsumed |-> 0,
     acceptsMeters |-> soft, frozen |-> FALSE]

-----------------------------------------------------------------------------
(* Grant reports. *)

Settled(g) == Larger(g.consumed, g.observed)

\* What a grant row holds of its account: all of it while it is open, what was
\* spent once it is closed, and never less than all of it after an overrun.
Contribution(g) ==
    CASE ~g.closed -> g.amount
      [] g.closed /\ g.overrun -> Larger(Settled(g), g.amount)
      [] g.closed /\ ~g.overrun -> Settled(g)

\* A report that validateRequest lets through.
WellFormedReport(r) ==
    /\ r.seq > 0 /\ r.consumed >= 0 /\ r.observed >= 0
    /\ ~r.overrun => r.observed <= r.consumed
    /\ r.overrun => r.closed

\* A terminal copy from an earlier boot of a grant that is already closed.
RecoveryCopy(g, r, old) ==
    /\ g.closed /\ r.closed /\ old /\ ~r.overrun
    /\ r.consumed = g.amount \/ r.consumed = g.consumed
    /\ r.observed <= Settled(g)

\* The full burn of an open grant by a later boot.
RecoveryBurn(g, r, old) ==
    /\ ~g.closed /\ r.closed /\ old /\ ~r.overrun
    /\ r.consumed = g.amount

\* The report the rest of applyReport works with.
EffectiveReport(g, r, old) ==
    IF RecoveryBurn(g, r, old)
    THEN [r EXCEPT !.seq = Larger(r.seq, g.seq),
                   !.observed = Larger(r.observed, g.observed)]
    ELSE r

SameReport(g, r) ==
    /\ r.consumed = g.consumed /\ r.observed = g.observed
    /\ r.closed = g.closed /\ r.overrun = g.overrun

\* Mutant: the comparison with the granted amount is gone.
OverspendAllowed(g, r, burn) ==
    \/ ~burn /\ (r.seq < g.seq \/ (r.seq = g.seq /\ ~SameReport(g, r)))
    \/ r.consumed < g.consumed \/ r.observed < g.observed
    \/ g.closed /\ ~SameReport(g, r) /\ ~(r.closed /\ r.overrun)

\* "nonmonotonic or conflicting" and "exceeds grant": the batch is rejected.
ConflictingReport(g, r, burn) ==
    \/ ~burn /\ (r.seq < g.seq \/ (r.seq = g.seq /\ ~SameReport(g, r)))
    \/ r.consumed < g.consumed \/ r.observed < g.observed
    \/ g.closed /\ ~SameReport(g, r) /\ ~(r.closed /\ r.overrun)
    \/ ~r.overrun /\ r.consumed > g.amount

Retained(g, r) ==
    LET spent == Larger(r.consumed, r.observed)
    IN  IF r.overrun THEN Larger(spent, g.amount) ELSE spent

\* The account after report r of grant g.
ReportedAccount(a, g, r) ==
    [a EXCEPT
       !.hardConsumed = @ + Larger(r.consumed, r.observed) - Settled(g),
       !.hardEncumbered = IF r.closed THEN @ + Retained(g, r) - Contribution(g)
                          ELSE @,
       !.frozen = @ \/ r.overrun]

\* Mutant: a closure also writes what is left into the amount column.
ReportedTrimmed(g, r) ==
    [g EXCEPT !.seq = r.seq, !.consumed = r.consumed, !.observed = r.observed,
              !.closed = r.closed, !.overrun = r.overrun,
              !.amount = IF r.closed /\ ~r.overrun THEN Larger(r.consumed, r.observed) ELSE @]

ReportedGrant(g, r) ==
    [g EXCEPT !.seq = r.seq, !.consumed = r.consumed, !.observed = r.observed,
              !.closed = r.closed, !.overrun = r.overrun]

\* The arithmetic of applyReport succeeds: no overflow, no second refund, no
\* refund larger than what the account holds.
ReportFits(a, g, r) ==
    /\ AddFits(a.hardConsumed, Larger(r.consumed, r.observed) - Settled(g))
    /\ r.closed =>
         IF Retained(g, r) < Contribution(g)
         THEN ~g.closed /\ Contribution(g) - Retained(g, r) <= a.hardEncumbered
         ELSE AddFits(a.hardEncumbered, Retained(g, r) - Contribution(g))

\* applyReport: the set of outcomes, empty when the batch is rejected.
ApplyReport(a, g, r0, old) ==
    LET burn == RecoveryBurn(g, r0, old)
        r    == EffectiveReport(g, r0, old)
    IN  IF RecoveryCopy(g, r0, old)
        THEN {[acct |-> a,
               row  |-> [g EXCEPT !.seq = Larger(g.seq, r0.seq),
                                  !.observed = Larger(g.observed, r0.observed)]]}
        ELSE IF ConflictingReport(g, r, burn) THEN {}
        ELSE IF r.seq = g.seq /\ ~burn THEN {[acct |-> a, row |-> g]}
        ELSE IF ReportFits(a, g, r)
        THEN {[acct |-> ReportedAccount(a, g, r), row |-> ReportedGrant(g, r)]}
        ELSE {}

-----------------------------------------------------------------------------
(* Meter reports.  A meter row that was never written is all zeros. *)

NoMeter == [seq |-> 0, consumed |-> 0, observed |-> 0]

WellFormedMeter(m) ==
    m.seq > 0 /\ m.observed >= 0 /\ m.observed <= m.consumed

\* An old boot's checkpoint is reconciled one dimension at a time.
EffectiveMeter(row, m, old) ==
    IF old
    THEN [seq |-> Larger(m.seq, row.seq),
          consumed |-> Larger(m.consumed, row.consumed),
          observed |-> Larger(m.observed, row.observed)]
    ELSE m

ConflictingMeter(row, m) ==
    \/ m.seq < row.seq \/ m.consumed < row.consumed \/ m.observed < row.observed
    \/ m.seq = row.seq /\ m # row

\* Mutant: the cumulative value is added, not its increase.
AddCumulative(a, row, m, old) ==
    LET e == EffectiveMeter(row, m, old)
    IN  IF ~a.acceptsMeters \/ (~old /\ ConflictingMeter(row, m)) THEN {}
        ELSE IF e = row THEN {[acct |-> a, row |-> row]}
        ELSE IF AddFits(a.softConsumed, e.consumed)
        THEN {[acct |-> [a EXCEPT !.softConsumed = @ + e.consumed], row |-> e]}
        ELSE {}

\* applyMeter: the set of outcomes, empty when the batch is rejected.
ApplyMeter(a, row, m, old) ==
    LET e == EffectiveMeter(row, m, old)
    IN  IF ~a.acceptsMeters \/ (~old /\ ConflictingMeter(row, m)) THEN {}
        ELSE IF e = row THEN {[acct |-> a, row |-> row]}
        ELSE IF AddFits(a.softConsumed, e.consumed - row.consumed)
        THEN {[acct |-> [a EXCEPT !.softConsumed = @ + e.consumed - row.consumed],
               row |-> e]}
        ELSE {}

-----------------------------------------------------------------------------
(* Grant requests.  A budget definition is a record with the policy        *)
(* revision, the limit, the configured grant size and whether it is hard.  *)

\* Mutant: escrow counts when it is spent, not when it is granted.
EncumberedWhenSpent(a) == a.hardConsumed + a.softConsumed

Encumbered(a) == a.hardEncumbered + a.softConsumed

Exhausted(a, b, want) ==
    Encumbered(a) >= b.limit \/ b.limit - Encumbered(a) < want

\* Mutant: soft spend is forgotten when the grant is cut to what remains.
AmountIgnoringSoft(a, b, want) ==
    Smaller(Larger(b.grant, want), b.limit - a.hardEncumbered)

GrantAmount(a, b, want) ==
    Smaller(Larger(b.grant, want), b.limit - Encumbered(a))

\* A first request, or the reevaluation of a denied one.  b is the budget in
\* force for the requested key and window, or NoBudget.
Decide(a, g, b) ==
    IF b = NoBudget THEN {[acct |-> a, row |-> g]}
    ELSE IF b.rev # g.rev \/ ~b.hard THEN {[acct |-> a, row |-> g]}
    ELSE IF Encumbered(a) > MaxInt64 THEN {}
    ELSE IF a.frozen \/ Exhausted(a, b, g.want) THEN {[acct |-> a, row |-> g]}
    ELSE LET n == GrantAmount(a, b, g.want)
         IN  IF n > 0 /\ AddFits(a.hardEncumbered, n)
             THEN {[acct |-> [a EXCEPT !.hardEncumbered = @ + n],
                    row |-> [g EXCEPT !.amount = n]]}
             ELSE {}

\* issueGrant: g is the row the request already has, or the fresh denied row
\* with the request's own parameters; asked is the latter.
IssueGrant(a, g, asked, b) ==
    IF <<g.acct, g.rev, g.want>> # <<asked.acct, asked.rev, asked.want>> THEN {}
    ELSE IF g.amount > 0 THEN {[acct |-> a, row |-> g]}
    ELSE Decide(a, g, b)
=============================================================================
