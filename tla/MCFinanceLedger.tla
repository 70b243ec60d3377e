--------------------------- MODULE MCFinanceLedger ---------------------------
(***************************************************************************)
(* FinanceLedger for TLC: a bill and an invoice of one alias, items of half *)
(* a unit and of a whole one at 35 cents, so that a total may be half a     *)
(* cent, and an amount that neither gives.  Two mutations let a call of the *)
(* first land within the second, and make a list of three items.            *)
(***************************************************************************)
EXTENDS FinanceLedger

\* The lists of up to three such items whose sum of doubles is not the double
\* of the decimal sum, as IEEE 754 adds them: .175 + .35 = .5249999999999999,
\* .175 + .35 + .35 = .8749999999999999, .35 + .35 + .35 = 1.0499999999999998.
DriftingQuantities ==
    {<<1, 2>>, <<2, 1>>, <<1, 1, 1>>, <<1, 2, 2>>, <<2, 1, 2>>, <<2, 2, 2>>}
MCDrifting == {[k \in 1..Len(q) |-> [name |-> "work", qty |-> q[k], unit |-> 35]] :
                 q \in DriftingQuantities}
=============================================================================
