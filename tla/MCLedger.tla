------------------------------ MODULE MCLedger ------------------------------
(***************************************************************************)
(* Ledger, model-checked: three recording calls and two closing calls about *)
(* up to two transactions.                                                 *)
(***************************************************************************)
EXTENDS Ledger, TLC

CallSymmetry == Permutations(RecordCalls) \cup Permutations(Transactions)
=============================================================================
