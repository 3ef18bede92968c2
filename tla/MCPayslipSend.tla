--------------------------- MODULE MCPayslipSend ---------------------------
(* TLC instances of PayslipSend: two months of one employee, one item both  *)
(* may list, two senders and one or two editors.                            *)
EXTENDS PayslipSend, TLC

CONSTANTS i1, s1, s2, e1, e2

OneMonth   == {1}
TwoMonths  == {1, 2}
OneItem    == {i1}
TwoSenders == {s1, s2}
OneEditor  == {e1}
TwoEditors == {e1, e2}
SenderSymmetry == Permutations(TwoSenders)
=============================================================================
