----------------------------- MODULE MCCustody -----------------------------
(***************************************************************************)
(* Custody, model-checked: alice has a transfer to bob and one to an       *)
(* address outside the platform.                                           *)
(***************************************************************************)
EXTENDS Custody, TLC

CONSTANTS alice, bob

MCRecordCalls == Writers \X {"record"}
MCCloseCalls == Writers \X {"close"}
MCAmount == [t \in Transfers |-> 2]
MCSender == [t \in Transfers |-> alice]
MCRecipient == [t \in InternalTransfers |-> bob]
MCOpeningBalance == [a \in Accounts |-> IF a = alice THEN 5 ELSE 0]

RequestSymmetry ==
  Permutations(AuthRequests) \cup Permutations(TransferRequests)
    \cup Permutations(Webhooks)
=============================================================================
