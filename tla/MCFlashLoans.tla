---------------------------- MODULE MCFlashLoans -----------------------------
(* Two series, so that one roll is possible, and little of everything.     *)
EXTENDS FlashLoans

CONSTANTS oldSeries, newSeries
MCFunds == [a \in Account |->
  CASE a = "lender" -> 2 [] a = "owner" -> 1 [] a = oldSeries -> 2 [] a = newSeries -> 1 [] OTHER -> 0]
=============================================================================
