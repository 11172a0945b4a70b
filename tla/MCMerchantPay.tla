--------------------------- MODULE MCMerchantPay ---------------------------
(***************************************************************************)
(* MerchantPay, model-checked.                                             *)
(***************************************************************************)
EXTENDS MerchantPay, TLC

CONSTANT MCPrice

MCPrices == [m \in Payments |-> MCPrice]
MCRecordCalls == (Activities \X {"received", "funded"}) \cup (Webhooks \X {"settle"})
MCCloseCalls == Webhooks \X {"close"}

\* At most two handlers at work at once, the background ones included.
TwoAtWork ==
  LET requests == {h \in Handlers : pc[h] \notin Resting \/ unawaited[h] = "sent"}
      behind == {h \in Activities : background[h] \in Working}
  IN Cardinality(requests) + Cardinality(behind) <= 2

\* At most one handler has thrown.
OneFailure ==
  Cardinality({h \in Handlers : pc[h] \in {"failed", "unsaved"}})
    + Cardinality({h \in Activities : background[h] = "failed"}) <= 1

HandlerSymmetry == Permutations(Activities) \cup Permutations(Webhooks)
=============================================================================
