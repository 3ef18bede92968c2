-------------------------- MODULE MCPayslipCarryOver --------------------------
EXTENDS PayslipCarryOver, TLC

CONSTANTS p1, b1, r1, r2

NoItems == {}
OnePayment == {p1}
OneBonus == {b1}
FirstMonthsBonus == [b \in Bonuses |-> 1]
TwoRequests == {r1, r2}
OneRequest == {r1}
NoMishap == {}
EarlySlips == {"early"}
EditRaces == {"edit"}

RequestSymmetry == Permutations(Requests)
=============================================================================
