--------------------------- MODULE MCCreditLedger ---------------------------
(* Small instances of CreditLedger for TLC.                                *)
EXTENDS CreditLedger, TLC

\* Clients, workers, sales and payments are interchangeable ids.
Symmetric == Permutations(Clients) \cup Permutations(Workers) \cup
             Permutations(Sales) \cup Permutations(Payments)
=============================================================================
