------------------------------- MODULE MCSend -------------------------------
(***************************************************************************)
(* Send, model-checked.  The cfgs differ in how many payments and requests *)
(* there are and in the failures they allow.                               *)
(***************************************************************************)
EXTENDS Send, TLC

MCRecordCalls == SendRequests \X {"debit", "funded"}
MCCloseCalls == SendRequests \X {"close"}
MCTransactions == Payments \X {"withdrawal", "offramp"}

\* Every payment costs 2, and the fee is 1.
MCPrice == [p \in Payments |-> 2]

\* The background handlers wait: they touch neither wallet nor withdrawal.
BackgroundWaits == \A r \in SendRequests : background[r] \in {"none", "quote"}

RequestSymmetry ==
  Permutations(AuthRequests) \cup Permutations(SendRequests)
    \cup Permutations(Webhooks)

\* Payments from an internal wallet are alike and may be exchanged too.
PaymentSymmetry ==
  RequestSymmetry \cup Permutations(Payments \ ExternalPayments)
=============================================================================
