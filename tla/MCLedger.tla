------------------------------ MODULE MCLedger ------------------------------
(***************************************************************************)
(* Instances of the authority ledger.  MCLedgerBooks.cfg: one replica and  *)
(* one dataplane with two boots, under a budget that is hard, soft or      *)
(* absent by turns, so that reports, meters and requests meet every row    *)
(* that an earlier batch can have left.  MCLedgerLocks.cfg: two replicas,  *)
(* two dataplanes and two windows, so that every interleaving of the locks *)
(* happens.                                                                *)
(***************************************************************************)
EXTENDS AuthorityLedger, TLC

Hard(rev, limit, tiers) ==
    [rev |-> rev, limit |-> limit, grant |-> 2, hard |-> TRUE, tiers |-> tiers]

Soft(rev, limit, tiers) == [Hard(rev, limit, tiers) EXCEPT !.hard = FALSE]

OneNode   == <<"n1", "n1">>
TwoNodes  == <<"n1", "n2">>
EachBoots == <<1, 2>>

HardAndSoft == {Hard(1, 3, {50, 100}), Soft(2, 2, {40})}

ManyReports ==
    {r \in [seq : 1..2, consumed : 1..3, observed : {0, 2},
            closed : BOOLEAN, overrun : BOOLEAN] :
       WellFormedReport(r) /\ (r.seq = 1 => r.observed = 0)}

ManyMeters == {[seq |-> n, consumed |-> n, observed |-> 0] : n \in 1..2}

\* Either two grants or meters: together they have too many states.
GrantsOrMeters ==
    \/ \A x \in MeterIds : meters[x] = NoMeter /\ \A t \in Replicas : meterDraft[t][x] = NoDraft
    \/ rows[2] = NoRow /\ \A t \in Replicas : draft[t][2] = NoRow

LockDefinitions == {Hard(1, 3, {50}), Hard(2, 2, {})}

LockReports ==
    {[seq |-> 1, consumed |-> 1, observed |-> 1, closed |-> TRUE, overrun |-> FALSE],
     [seq |-> 2, consumed |-> 3, observed |-> 3, closed |-> TRUE, overrun |-> TRUE]}

Symmetry == Permutations(Replicas)
=============================================================================
