----------------------------- MODULE Allowance -----------------------------
(***************************************************************************)
(* What internal/budget promises of its counters: each key has an amount   *)
(* spent in the current calendar window; a debit adds to it, the window's  *)
(* end sets it to zero, and nothing else changes it.  There is no store    *)
(* here: no map, no capacity and no sweep.                                 *)
(***************************************************************************)
EXTENDS Integers

CONSTANTS Keys,       \* counters
          Costs,      \* amounts of a debit
          Period(_)   \* length of the window of a key, in ticks

VARIABLES clock, spent

Init == clock = 0 /\ spent = [k \in Keys |-> 0]

\* A settled request is debited.
Charge(k) ==
    /\ \E c \in Costs : spent' = [spent EXCEPT ![k] = @ + c]
    /\ UNCHANGED clock

\* Time passes; windows that end start again from nothing.
Advance ==
    /\ clock' = clock + 1
    /\ spent' = [k \in Keys |-> IF clock' % Period(k) = 0 THEN 0 ELSE spent[k]]

Next == (\E k \in Keys : Charge(k)) \/ Advance

Spec == Init /\ [][Next]_<<clock, spent>>
=============================================================================
