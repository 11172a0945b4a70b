--------------------------- MODULE Custody_proofs ---------------------------
(***************************************************************************)
(* The safety of Custody for any transfers, accounts, requests, webhooks   *)
(* and failures.                                                           *)
(*                                                                         *)
(* CustodyInv is the inductive invariant: the types, the ledger's own      *)
(* invariant, and                                                          *)
(*   Shape       what a handler's program counter says about it,           *)
(*   Course      where the writes of a request are at each of its steps,   *)
(*   Authorised  how far anything gets without a correct pin,              *)
(*   Evidence    what stands behind a status, a webhook and a withdrawal,  *)
(*   Linked      which transfer each call of the ledger is about,          *)
(*   Recorded    how far the entries of a request have got that is alone   *)
(*               on its transfer and has had no failure.                   *)
(* Accounted rests on it: that the one write of an account under way was   *)
(* computed from the balance there is.                                     *)
(*                                                                         *)
(* Pairs such as <<r, e>> are kept behind the operators that make them     *)
(* (DebitOf, RecordCall, Event), with the lemmas that name them.           *)
(***************************************************************************)
EXTENDS Custody, Ledger_proofs, Sums

Unmoved == {"idle", "sender"}
Moving == {"saving", "saved", "failed"}
Recording == {"record", "close", "savePending"}

Shape ==
  /\ \A h \in Handlers : IF pc[h] = "idle" THEN on[h] = None ELSE on[h] \in Transfers
  /\ \A a \in AuthRequests : pc[a] \in {"idle", "pin", "save", "done"}
  /\ \A h \in Webhooks :
       /\ pc[h] \in {"idle", "record", "close", "save", "done"}
       /\ write[DebitOf(h)] = "none" /\ write[CreditOf(h)] # "held"
       /\ write[CreditOf(h)] # "none" =>
            pc[h] \in {"save", "done"} /\ outcome[h] = "failed"

Course ==
  \A r \in TransferRequests :
    LET debit == write[DebitOf(r)]
        credit == write[CreditOf(r)]
    IN /\ pc[r] \notin {"pin", "save"}
       /\ pc[r] \in {"recipient", "swap", "close"} => Internal(r)
       /\ pc[r] \in {"withdraw", "savePending"} => ~ Internal(r)
       /\ r \in withdrawals =>
            pc[r] \in {"record", "savePending", "done"} /\ ~ Internal(r)
       /\ pc[r] \in {"record", "savePending"} /\ ~ Internal(r) => r \in withdrawals
       /\ pc[r] \in Unmoved => debit = "none"
       /\ pc[r] \in Unmoved \cup {"recipient"} \/ ~ Internal(r) => credit = "none"
       /\ pc[r] \in {"recipient", "withdraw"} \/ (pc[r] = "record" /\ ~ Internal(r))
            => debit = "held"
       /\ pc[r] = "swap" => debit \in Moving /\ credit \in Moving
       /\ pc[r] \in {"record", "close"} /\ Internal(r) =>
            debit = "saved" /\ credit = "saved"
       /\ pc[r] = "savePending" => debit \in {"saving", "saved"}
       /\ pc[r] = "done" => debit # "held"
       /\ debit # "wanted" /\ credit \in Moving \cup {"none"}

Authorised ==
  /\ \A a \in pinOk : pc[a] # "idle"
  /\ \A a \in AuthRequests : pc[a] = "save" => a \in pinOk
  /\ \A t \in Transfers :
       transfer[t] \notin {"none", "initiated"} => t \in TransfersOf(pinOk)
  /\ \A h \in Writers : pc[h] # "idle" => on[h] \in TransfersOf(pinOk)

\* An end e that the custodian reported of the withdrawal r.
Event(r, e) == <<r, e>>

\* The custodian has reported the end e of a withdrawal for the transfer t.
Reported(e, t) == \E r \in withdrawals : on[r] = t /\ Event(r, e) \in reported

TransferBacked(t) ==
  /\ transfer[t] = "completed" =>
       IF t \in InternalTransfers
       THEN \E r \in TransferRequests :
              on[r] = t /\ write[DebitOf(r)] = "saved" /\ write[CreditOf(r)] = "saved"
       ELSE Reported("success", t)
  /\ transfer[t] = "failed" => Reported("failed", t)
  /\ transfer[t] \in {"pending", "cancelled"} =>
       \E r \in withdrawals : on[r] = t /\ write[DebitOf(r)] \in Moving

HookBacked(h) ==
  /\ on[h] \notin InternalTransfers
  /\ \/ outcome[h] = "completed" /\ Reported("success", on[h])
     \/ outcome[h] = "failed" /\ Reported("failed", on[h])

Evidence ==
  /\ \A t \in Transfers : TransferBacked(t)
  /\ \A h \in Webhooks : pc[h] # "idle" => HookBacked(h)
  /\ \A r \in TransferRequests, e \in {"success", "failed"} :
       Event(r, e) \in reported => r \in withdrawals
  /\ \A r \in withdrawals :
       pc[r] = "done" => on[r] \in faulted \/ write[DebitOf(r)] \in {"saving", "saved"}

Linked ==
  /\ \A h \in Writers :
       /\ about[RecordCall(h)] \in {None, on[h]}
       /\ about[CloseCall(h)] \in {None, on[h]}
       /\ pc[h] \notin Recording \cup {"save", "done"} => about[RecordCall(h)] = None
       /\ pc[h] \notin {"close", "save", "done"} => about[CloseCall(h)] = None
       /\ pc[h] \in Recording => about[RecordCall(h)] = on[h]
       /\ pc[h] = "close" => about[CloseCall(h)] = on[h]
  /\ \A r \in TransferRequests : ~ Internal(r) => about[CloseCall(r)] = None

\* The entries of a request are in the ledger that its own call opened.
Written(r) ==
  RecordCall(r) \in LedgersOf(on[r]) /\ RecordCall(r) \in recorded[RecordCall(r)]

\* Of a request that is alone: its calls run, and its entries are where they should
\* be once the recording call is done.
Kept(r) ==
  /\ pc[r] # "done" =>
       /\ \A h \in Writers : on[h] = on[r] => h = r
       /\ step[RecordCall(r)] # "failed" /\ step[CloseCall(r)] # "failed"
  /\ pc[r] = "swap" => write[DebitOf(r)] # "failed" /\ write[CreditOf(r)] # "failed"
  /\ step[RecordCall(r)] = "done" \/ pc[r] \in {"close", "savePending", "done"} =>
       Written(r)
  /\ step[CloseCall(r)] = "done" \/ (pc[r] = "done" /\ Internal(r)) =>
       RecordCall(r) \in posted

Recorded ==
  \A r \in TransferRequests :
    pc[r] # "idle" /\ on[r] \notin crossed \cup faulted => Kept(r)

CustodyInv ==
  /\ CustodyTypeOK /\ LedgerInv
  /\ Shape /\ Course /\ Authorised /\ Evidence /\ Linked /\ Recorded

-----------------------------------------------------------------------------
\* The two writes of a handler, and which handler a write is of.
LEMMA WriteNames ==
  /\ \A h \in Writers :
       /\ DebitOf(h) \in Writes /\ DebitOf(h)[1] = h /\ DebitOf(h)[2] = "debit"
       /\ CreditOf(h) \in Writes /\ CreditOf(h)[1] = h /\ CreditOf(h)[2] = "credit"
  /\ \A g, h \in Writers :
       /\ DebitOf(g) # CreditOf(h)
       /\ DebitOf(g) = DebitOf(h) => g = h
       /\ CreditOf(g) = CreditOf(h) => g = h
  /\ \A w \in Writes : w[1] \in Writers /\ (w = DebitOf(w[1]) \/ w = CreditOf(w[1]))
  BY DEF Writes, DebitOf, CreditOf

\* Whose writes nobody awaits.
LEMMA UnawaitedNames ==
  /\ \A h \in Webhooks : Unawaited(CreditOf(h))
  /\ \A r \in TransferRequests :
       /\ Unawaited(DebitOf(r)) <=> ~ Internal(r)
       /\ ~ Unawaited(CreditOf(r))
  BY CustodyAssumption DEF Unawaited, DebitOf, CreditOf, Internal

\* The two calls of a handler, and that no other calls exist.
LEMMA CallNames ==
  /\ \A h \in Writers : RecordCall(h) \in RecordCalls /\ CloseCall(h) \in CloseCalls
  /\ \A g, h \in Writers :
       /\ RecordCall(g) = RecordCall(h) => g = h
       /\ CloseCall(g) = CloseCall(h) => g = h
  /\ \A c \in RecordCalls : \E h \in Writers : c = RecordCall(h)
  /\ \A c \in CloseCalls : \E h \in Writers : c = CloseCall(h)
  BY CustodyAssumption DEF RecordCall, CloseCall

\* A webhook is about an event that the custodian emitted.
LEMMA EventRead ==
  ASSUME Evidence, NEW h \in Webhooks, NEW r \in TransferRequests,
         NEW e \in {"success", "failed"}, HookRead(h, r, e)
  PROVE  r \in withdrawals /\ Event(r, e) \in reported
  BY DEF Evidence, HookRead, Event

\* An event names its withdrawal and its end.
LEMMA EventNames ==
  \A q, r \in TransferRequests, e, f \in {"success", "failed"} :
    Event(q, e) = Event(r, f) => q = r /\ e = f
  BY DEF Event

\* An event is added to those that were emitted.
LEMMA EventAdded ==
  ASSUME NEW r, NEW e, CustodianReports(r, e)
  PROVE  reported' = reported \cup {Event(r, e)}
  BY DEF CustodianReports, Event

\* What a webhook has read when it begins: a withdrawal's transfer.
LEMMA HookReads ==
  ASSUME CustodyTypeOK, Shape, Course, Evidence, NEW h \in Webhooks,
         NEW r \in TransferRequests, NEW e \in {"success", "failed"},
         HookRead(h, r, e)
  PROVE  /\ pc[h] = "idle" /\ pc' = [pc EXCEPT ![h] = "record"]
         /\ on[r] \in Transfers \ InternalTransfers /\ on' = [on EXCEPT ![h] = on[r]]
         /\ transfer[on[r]] \notin {"none", "initiated"}
         /\ outcome' = [outcome EXCEPT ![h] = OutcomeOf(e)]
         /\ UNCHANGED <<transfer, write, reported, withdrawals, pinOk, faulted>>
<1>1. r \in withdrawals
  BY EventRead
<1>2. on[r] \in Transfers \ InternalTransfers
  BY <1>1, CustodyAssumption DEF Shape, Course, Handlers, Writers, Internal
<1> QED  BY <1>2 DEF HookRead, Goes, balances, outside

-----------------------------------------------------------------------------
\* A webhook's status is COMPLETED or FAILED, and what it reads is of its type.
LEMMA HookReadKeepsTypes ==
  ASSUME CustodyTypeOK, LedgerTypeOK', Shape, Course, Evidence, NEW h \in Webhooks,
         NEW r \in TransferRequests, NEW e \in {"success", "failed"},
         HookRead(h, r, e)
  PROVE  CustodyTypeOK'
<1>1. /\ docSeen' = [docSeen EXCEPT ![h] = transfer[on[r]]]
      /\ crossed' \subseteq crossed \cup {on[r]}
  BY DEF HookRead
<1>2. /\ on[r] \in Transfers
      /\ outcome' \in [Webhooks -> {"none", "completed", "failed"}]
  BY HookReads DEF CustodyTypeOK, OutcomeOf
<1>3. UNCHANGED <<balances, outside, transfer, pinOk, faulted>>
  BY DEF HookRead
<1>4. pc' = [pc EXCEPT ![h] = "record"] /\ on' = [on EXCEPT ![h] = on[r]]
  BY HookReads
<1> QED
  BY <1>1, <1>2, <1>3, <1>4
  DEF CustodyTypeOK, Statuses, Handlers, Writers, balances, outside

\* A write that is to be saved is of a handler with a transfer, so its sum is
\* an integer.
LEMMA SaveBalanceKeepsTypes ==
  ASSUME CustodyTypeOK, LedgerTypeOK', Shape, Course, Evidence, NEW w \in Writes,
         SaveBalance(w)
  PROVE  CustodyTypeOK'
<1>1. write' \in [Writes -> {"none", "wanted", "held", "saving", "saved", "failed"}]
  BY DEF CustodyTypeOK, SaveBalance
<1>2. PICK h \in Writers : on[h] \in Transfers /\ w[1] = h
  BY WriteNames, CustodyAssumption
  DEF CustodyTypeOK, Shape, Course, Unmoved, Moving, Handlers, Writers, SaveBalance
<1>3. Moved(w) \in Int
  BY <1>2, CustodyAssumption DEF Moved, Total
<1>4. seen[w] + Moved(w) \in Int
  BY <1>3 DEF CustodyTypeOK
<1>5. balance' \in [Accounts -> Int]
  BY <1>4 DEF CustodyTypeOK, SaveBalance
<1> QED
  BY <1>1, <1>5 DEF CustodyTypeOK, SaveBalance, request, outside, history

\* A write that fails is of a handler with a transfer.
LEMMA SwapFailsKeepsTypes ==
  ASSUME CustodyTypeOK, LedgerTypeOK', Shape, Course, Evidence, NEW w \in Writes,
         SwapFails(w)
  PROVE  CustodyTypeOK'
<1>1. write' \in [Writes -> {"none", "wanted", "held", "saving", "saved", "failed"}]
  BY WriteNames DEF CustodyTypeOK, SwapFails
<1>2. faulted' \subseteq Transfers
  BY WriteNames, CustodyAssumption
  DEF CustodyTypeOK, Shape, Course, Unmoved, Handlers, Writers, Resting, SwapFails
<1> QED
  BY <1>1, <1>2 DEF CustodyTypeOK, Handlers, SwapFails, Statuses, request, outside

\* Whatever was in flight when the process ended was about a transfer.
LEMMA ProcessEndsKeepsTypes ==
  ASSUME CustodyTypeOK, LedgerTypeOK', Shape, Course, Evidence, ProcessEnds
  PROVE  CustodyTypeOK'
<1>1. write' \in [Writes -> {"none", "wanted", "held", "saving", "saved", "failed"}]
  BY DEF CustodyTypeOK, ProcessEnds
<1>2. \A h \in Handlers : pc[h] \notin Resting => on[h] \in Transfers
  BY DEF Shape, Resting
<1>3. \A w \in Writes : write[w] \in {"wanted", "saving"} => on[w[1]] \in Transfers
  BY WriteNames, CustodyAssumption DEF Shape, Course, Unmoved, Handlers, Writers
<1>4. faulted' \subseteq Transfers
  BY <1>2, <1>3 DEF CustodyTypeOK, ProcessEnds
<1> QED
  BY <1>1, <1>4 DEF CustodyTypeOK, Handlers, ProcessEnds, Statuses, request, outside

\* Each step assigns values of the right types; the ledger's are its own matter.
LEMMA TypesStep ==
  ASSUME CustodyTypeOK, LedgerTypeOK', Shape, Course, Evidence, [CustodyNext]_vars
  PROVE  CustodyTypeOK'
<1>1. CASE UNCHANGED custodyVars
  BY <1>1 DEF CustodyTypeOK, custodyVars, balances, request, outside, history
<1>2. ASSUME NEW t \in Transfers, Initiate(t)  PROVE CustodyTypeOK'
  BY <1>2 DEF CustodyTypeOK, Statuses, Initiate, balances, request, outside,
     history
<1>3. ASSUME NEW t \in Transfers, Expire(t)  PROVE CustodyTypeOK'
  BY <1>3 DEF CustodyTypeOK, Expire, balances, request, history
<1>4. ASSUME NEW a \in AuthRequests, NEW t \in Transfers, AuthRead(a, t)
      PROVE  CustodyTypeOK'
  BY <1>4 DEF CustodyTypeOK, Handlers, AuthRead, balances, outside, history,
     Goes
<1>5. ASSUME NEW r \in TransferRequests, NEW t \in Transfers, TransferRead(r, t)
      PROVE  CustodyTypeOK'
  BY <1>5 DEF CustodyTypeOK, Handlers, Writers, TransferRead, balances,
     outside, Goes
<1>6. ASSUME NEW a \in AuthRequests, ComparePin(a)  PROVE CustodyTypeOK'
  BY <1>6 DEF CustodyTypeOK, ComparePin, balances, outside, Goes
<1>7. ASSUME NEW a \in AuthRequests, AuthSave(a)  PROVE CustodyTypeOK'
  BY <1>7 DEF CustodyTypeOK, Shape, Statuses, Handlers, AuthSave, balances,
     outside, history, Goes, SavesStatus
<1>8. ASSUME NEW r \in TransferRequests, ReadSender(r)  PROVE CustodyTypeOK'
  BY <1>8, CustodyAssumption, WriteNames DEF CustodyTypeOK, Shape, Handlers,
     Writers, ReadSender, outside, history, Goes, Reads
<1>9. ASSUME NEW r \in TransferRequests, ReadRecipient(r)  PROVE CustodyTypeOK'
  BY <1>9, CustodyAssumption, WriteNames DEF CustodyTypeOK, Course, Handlers,
     Writers, Internal, ReadRecipient, outside, history, Goes, Reads
<1>10. ASSUME NEW r \in TransferRequests, Swapped(r)  PROVE CustodyTypeOK'
  BY <1>10 DEF CustodyTypeOK, Handlers, Writers, Swapped, balances, outside,
     history, Goes
<1>11. ASSUME NEW r \in TransferRequests, SwapRejected(r)  PROVE CustodyTypeOK'
  BY <1>11 DEF CustodyTypeOK, Handlers, Writers, SwapRejected, balances,
     outside, history, Goes
<1>12. ASSUME NEW r \in TransferRequests, Complete(r)  PROVE CustodyTypeOK'
  BY <1>12 DEF CustodyTypeOK, Shape, Statuses, Handlers, Writers, Complete,
     balances, outside, history, Goes, SavesStatus
<1>13. ASSUME NEW r \in TransferRequests, Closed(r)  PROVE CustodyTypeOK'
  BY <1>13 DEF CustodyTypeOK, Handlers, Writers, Closed, balances, outside,
     history, Goes
<1>14. ASSUME NEW r \in TransferRequests, Withdraw(r)  PROVE CustodyTypeOK'
  BY <1>14 DEF CustodyTypeOK, Handlers, Writers, Withdraw, balances, history,
     Goes
<1>15. ASSUME NEW r \in TransferRequests, StartDebit(r)  PROVE CustodyTypeOK'
  BY <1>15, WriteNames DEF CustodyTypeOK, Handlers, Writers, StartDebit,
     outside, history, Goes
<1>16. ASSUME NEW r \in TransferRequests, SavePending(r)  PROVE CustodyTypeOK'
  BY <1>16 DEF CustodyTypeOK, Shape, Statuses, Handlers, Writers, SavePending,
     balances, outside, history, Goes, SavesStatus
<1>17. ASSUME NEW r \in TransferRequests, WithdrawFails(r)
      PROVE  CustodyTypeOK'
  BY <1>17 DEF CustodyTypeOK, Shape, Handlers, Writers, WithdrawFails, Goes,
     Drop
<1>18. ASSUME NEW r \in TransferRequests, NEW e \in {"success", "failed"},
              CustodianReports(r, e)
      PROVE  CustodyTypeOK'
  BY <1>18 DEF CustodyTypeOK, CustodianReports, balances, request, history
<1>19. ASSUME NEW h \in Webhooks, NEW r \in TransferRequests,
              NEW e \in {"success", "failed"}, HookRead(h, r, e)
      PROVE  CustodyTypeOK'
  BY <1>19, HookReadKeepsTypes
<1>20. ASSUME NEW h \in Webhooks, HookClose(h)  PROVE CustodyTypeOK'
  BY <1>20 DEF CustodyTypeOK, Handlers, Writers, HookClose, balances, outside,
     history, Goes
<1>21. ASSUME NEW h \in Webhooks, HookEnd(h)  PROVE CustodyTypeOK'
  BY <1>21, WriteNames DEF CustodyTypeOK, Handlers, Writers, HookEnd, outside,
     history, Goes
<1>22. ASSUME NEW h \in Webhooks, HookSave(h)  PROVE CustodyTypeOK'
  BY <1>22 DEF CustodyTypeOK, Shape, Statuses, Handlers, Writers, HookSave,
     balances, outside, history, Goes, SavesStatus
<1>23. ASSUME NEW h \in Webhooks, ReadRefund(h)  PROVE CustodyTypeOK'
  BY <1>23, CustodyAssumption, WriteNames DEF CustodyTypeOK, Shape, Statuses,
     Handlers, Writers, ReadRefund, request, outside, history, ledgerVars,
     Reads
<1>24. ASSUME NEW w \in Writes, SaveBalance(w)  PROVE CustodyTypeOK'
  BY <1>24, SaveBalanceKeepsTypes
<1>25. ASSUME NEW w \in Writes, SwapFails(w)  PROVE CustodyTypeOK'
  BY <1>25, SwapFailsKeepsTypes
<1>26. ASSUME NEW d \in Deposits, Deposit(d)  PROVE CustodyTypeOK'
  BY <1>26 DEF CustodyTypeOK, Deposit, balances, request, history
<1>27. ASSUME NEW h \in Handlers, RequestFails(h)  PROVE CustodyTypeOK'
  BY <1>27 DEF CustodyTypeOK, Shape, Resting, RequestFails, outside, Goes, Drop
<1>28. CASE ProcessEnds
  BY <1>28, ProcessEndsKeepsTypes
<1> QED  BY <1>1, <1>2, <1>3, <1>4, <1>5, <1>6, <1>7, <1>8, <1>9, <1>10, <1>11,
   <1>12, <1>13, <1>14, <1>15, <1>16, <1>17, <1>18, <1>19, <1>20, <1>21, <1>22,
   <1>23, <1>24, <1>25, <1>26, <1>27, <1>28 DEF CustodyNext, AuthStep,
   TransferStep, HookStep, UnawaitedFails, Crash, LedgerRuns, vars

\* The program counters keep telling what they told.
LEMMA ShapeStep ==
  ASSUME CustodyTypeOK, Shape, Course, Authorised, Evidence, [CustodyNext]_vars
  PROVE  Shape'
<1>1. CASE UNCHANGED <<pc, on, write, outcome, withdrawals>>
  BY <1>1 DEF Shape
<1>2. CASE UNCHANGED vars
  BY <1>1, <1>2 DEF vars, custodyVars, balances, request, outside, history,
     ledgerVars
<1>3. ASSUME NEW t \in Transfers, Initiate(t) \/ Expire(t)
      PROVE  Shape'
  BY <1>1, <1>3 DEF Initiate, balances, request, outside, history, ledgerVars,
     Expire
<1>4. ASSUME NEW r \in TransferRequests, NEW e \in {"success", "failed"},
             CustodianReports(r, e)
      PROVE  Shape'
  BY <1>1, <1>4 DEF CustodianReports, balances, request, history, ledgerVars
<1>5. ASSUME NEW d \in Deposits, Deposit(d)
      PROVE  Shape'
  BY <1>1, <1>5 DEF Deposit, balances, request, history, ledgerVars
<1>6. ASSUME NEW c \in Calls, LedgerRuns(c)
      PROVE  Shape'
  BY <1>1, <1>6 DEF LedgerRuns, custodyVars, balances, request, outside,
     history, LedgerStep, Find, Open, Append, LookUp, Post, Goto
<1>7. ASSUME NEW a \in AuthRequests, NEW t \in Transfers, AuthRead(a, t)
      PROVE  Shape'
  BY <1>7, CustodyAssumption DEF CustodyTypeOK, Shape, Writers, AuthRead,
     balances, Goes
<1>8. ASSUME NEW r \in TransferRequests, NEW t \in Transfers, TransferRead(r, t)
      PROVE  Shape'
  BY <1>8, CustodyAssumption DEF CustodyTypeOK, Shape, Writers, TransferRead,
     balances, Goes
<1>9. ASSUME NEW a \in AuthRequests, ComparePin(a)  PROVE Shape'
  BY <1>9, CustodyAssumption DEF CustodyTypeOK, Shape, Moving, Evidence,
     Handlers, Writers, ComparePin, balances, Goes
<1>10. ASSUME NEW a \in AuthRequests, AuthSave(a)  PROVE Shape'
  BY <1>10 DEF Shape, AuthSave, balances, Goes
<1>11. ASSUME NEW r \in TransferRequests, ReadSender(r)  PROVE Shape'
  BY <1>11, WriteNames DEF Shape, Writers, ReadSender, Goes, Reads
<1>12. ASSUME NEW r \in TransferRequests, ReadRecipient(r)  PROVE Shape'
  BY <1>12, WriteNames DEF Shape, Writers, ReadRecipient, Goes, Reads
<1>13. ASSUME NEW r \in TransferRequests, Swapped(r)  PROVE Shape'
  BY <1>13 DEF Shape, Swapped, balances, Goes
<1>14. ASSUME NEW r \in TransferRequests, SwapRejected(r)  PROVE Shape'
  BY <1>14 DEF Shape, SwapRejected, balances, Goes
<1>15. ASSUME NEW r \in TransferRequests, Complete(r)  PROVE Shape'
  BY <1>15 DEF Shape, Complete, balances, Goes
<1>16. ASSUME NEW r \in TransferRequests, Closed(r)  PROVE Shape'
  BY <1>16 DEF Shape, Closed, balances, Goes
<1>17. ASSUME NEW r \in TransferRequests, Withdraw(r)  PROVE Shape'
  BY <1>17 DEF Shape, Withdraw, balances, Goes
<1>18. ASSUME NEW r \in TransferRequests, StartDebit(r)  PROVE Shape'
  BY <1>18, CustodyAssumption, WriteNames DEF Shape, Writers, StartDebit, Goes
<1>19. ASSUME NEW r \in TransferRequests, SavePending(r)  PROVE Shape'
  BY <1>19 DEF Shape, SavePending, balances, Goes
<1>20. ASSUME NEW r \in TransferRequests, WithdrawFails(r)  PROVE Shape'
  BY <1>20, WriteNames DEF Shape, Writers, WithdrawFails, Goes, Drop
<1>21. ASSUME NEW h \in Webhooks, NEW r \in TransferRequests,
              NEW e \in {"success", "failed"}, HookRead(h, r, e)
      PROVE  Shape'
  BY <1>21, HookReads, CustodyAssumption, SMTT(30) DEF CustodyTypeOK, Shape,
     Handlers, Writers, OutcomeOf
<1>22. ASSUME NEW h \in Webhooks, HookClose(h)  PROVE Shape'
  BY <1>22 DEF Shape, HookClose, balances, Goes
<1>23. ASSUME NEW h \in Webhooks, HookEnd(h)  PROVE Shape'
  BY <1>23, WriteNames DEF CustodyTypeOK, Shape, Handlers, Writers, HookEnd,
     Goes
<1>24. ASSUME NEW h \in Webhooks, HookSave(h)  PROVE Shape'
  BY <1>24 DEF Shape, HookSave, balances, Goes
<1>25. ASSUME NEW h \in Webhooks, ReadRefund(h)  PROVE Shape'
  BY <1>25, WriteNames DEF Shape, Writers, ReadRefund, request, Reads
<1>26. ASSUME NEW w \in Writes, SaveBalance(w)  PROVE Shape'
  BY <1>26 DEF Shape, SaveBalance, request
<1>27. ASSUME NEW w \in Writes, SwapFails(w)  PROVE Shape'
  BY <1>27 DEF Shape, SwapFails, request
<1>28. ASSUME NEW h \in Handlers, RequestFails(h)  PROVE Shape'
  BY <1>28, WriteNames DEF Shape, Writers, Resting, RequestFails, Goes, Drop
<1>29. CASE ProcessEnds
  BY <1>29, WriteNames, CustodyAssumption DEF CustodyTypeOK, Shape, Handlers,
     Writers, ProcessEnds, outside
<1> QED  BY <1>1, <1>2, <1>3, <1>4, <1>5, <1>6, <1>7, <1>8, <1>9, <1>10, <1>11,
   <1>12, <1>13, <1>14, <1>15, <1>16, <1>17, <1>18, <1>19, <1>20, <1>21, <1>22,
   <1>23, <1>24, <1>25, <1>26, <1>27, <1>28, <1>29 DEF CustodyNext, AuthStep,
   TransferStep, HookStep, UnawaitedFails, Crash

\* Promise.all waits for both saves.
LEMMA SwappedKeepsCourse ==
  ASSUME CustodyTypeOK, Shape, Course, Authorised, Evidence,
         NEW r \in TransferRequests, Swapped(r)
  PROVE  Course'
<1>1. write[DebitOf(r)] = "saved" /\ write[CreditOf(r)] = "saved"
  BY DEF Swapped
<1> QED
  BY <1>1, WriteNames, CustodyAssumption
  DEF CustodyTypeOK, Course, Unmoved, Moving, Handlers, Writers, Swapped, Begin,
      balances, outside, history, Goes, Internal

\* A request's writes are where its program counter says.
LEMMA CourseStep ==
  ASSUME CustodyTypeOK, Shape, Course, Authorised, Evidence, [CustodyNext]_vars
  PROVE  Course'
<1>1. CASE UNCHANGED <<pc, on, write, withdrawals>>
  BY <1>1 DEF Course, Internal
<1>2. CASE UNCHANGED vars
  BY <1>1, <1>2 DEF vars, custodyVars, balances, request, outside, history,
     ledgerVars
<1>3. ASSUME NEW t \in Transfers, Initiate(t) \/ Expire(t)
      PROVE  Course'
  BY <1>1, <1>3 DEF Initiate, balances, request, outside, history, ledgerVars,
     Expire
<1>4. ASSUME NEW r \in TransferRequests, NEW e \in {"success", "failed"},
             CustodianReports(r, e)
      PROVE  Course'
  BY <1>1, <1>4 DEF CustodianReports, balances, request, history, ledgerVars
<1>5. ASSUME NEW d \in Deposits, Deposit(d)
      PROVE  Course'
  BY <1>1, <1>5 DEF Deposit, balances, request, history, ledgerVars
<1>6. ASSUME NEW c \in Calls, LedgerRuns(c)
      PROVE  Course'
  BY <1>1, <1>6 DEF LedgerRuns, custodyVars, balances, request, outside,
     history, LedgerStep, Find, Open, Append, LookUp, Post, Goto
<1>7. ASSUME NEW a \in AuthRequests, NEW t \in Transfers, AuthRead(a, t)
      PROVE  Course'
  BY <1>7, CustodyAssumption DEF Course, Internal, Writers, AuthRead, balances,
     outside, Goes
<1>8. ASSUME NEW r \in TransferRequests, NEW t \in Transfers, TransferRead(r, t)
      PROVE  Course'
  BY <1>8 DEF Course, Unmoved, Internal, TransferRead, balances, outside, Goes
<1>9. ASSUME NEW a \in AuthRequests, ComparePin(a)  PROVE Course'
  BY <1>9 DEF CustodyTypeOK, Course, Internal, Handlers, Writers, ComparePin,
     balances, outside, Goes
<1>10. ASSUME NEW a \in AuthRequests, AuthSave(a)  PROVE Course'
  BY <1>10 DEF Course, Internal, AuthSave, balances, outside, Goes
<1>11. ASSUME NEW r \in TransferRequests, ReadSender(r)  PROVE Course'
  BY <1>11, WriteNames DEF CustodyTypeOK, Course, Unmoved, Internal, Handlers,
     Writers, ReadSender, outside, Goes, Reads
<1>12. ASSUME NEW r \in TransferRequests, ReadRecipient(r)  PROVE Course'
  BY <1>12, WriteNames DEF CustodyTypeOK, Course, Unmoved, Moving, Internal,
     Handlers, Writers, ReadRecipient, outside, Goes, Reads
<1>13. ASSUME NEW r \in TransferRequests, Swapped(r)  PROVE Course'
  BY <1>13, SwappedKeepsCourse
<1>14. ASSUME NEW r \in TransferRequests, SwapRejected(r)  PROVE Course'
  BY <1>14 DEF Course, Unmoved, Moving, Internal, SwapRejected, balances,
     outside, Goes
<1>15. ASSUME NEW r \in TransferRequests, Complete(r)  PROVE Course'
  BY <1>15 DEF Course, Unmoved, Internal, Complete, balances, outside, Goes
<1>16. ASSUME NEW r \in TransferRequests, Closed(r)  PROVE Course'
  BY <1>16 DEF Course, Unmoved, Internal, Closed, balances, outside, Goes
<1>17. ASSUME NEW r \in TransferRequests, Withdraw(r)  PROVE Course'
  BY <1>17 DEF CustodyTypeOK, Course, Unmoved, Internal, Handlers, Writers,
     Withdraw, balances, Goes
<1>18. ASSUME NEW r \in TransferRequests, StartDebit(r)  PROVE Course'
  BY <1>18, WriteNames DEF CustodyTypeOK, Course, Unmoved, Internal, Handlers,
     Writers, StartDebit, outside, Goes
<1>19. ASSUME NEW r \in TransferRequests, SavePending(r)  PROVE Course'
  BY <1>19 DEF Course, Unmoved, Internal, SavePending, balances, outside, Goes
<1>20. ASSUME NEW r \in TransferRequests, WithdrawFails(r)  PROVE Course'
  BY <1>20, WriteNames DEF CustodyTypeOK, Course, Internal, Handlers, Writers,
     WithdrawFails, Goes, Drop
<1>21. ASSUME NEW h \in Webhooks, NEW r \in TransferRequests,
              NEW e \in {"success", "failed"}, HookRead(h, r, e)
      PROVE  Course'
  BY <1>21, CustodyAssumption DEF Course, Internal, HookRead, balances,
     outside, Goes
<1>22. ASSUME NEW h \in Webhooks, HookClose(h)  PROVE Course'
  BY <1>22 DEF Shape, Course, Internal, HookClose, balances, outside, Goes
<1>23. ASSUME NEW h \in Webhooks, HookEnd(h)  PROVE Course'
  BY <1>23, WriteNames DEF Shape, Course, Internal, Writers, HookEnd, outside,
     Goes
<1>24. ASSUME NEW h \in Webhooks, HookSave(h)  PROVE Course'
  BY <1>24 DEF Course, Internal, HookSave, balances, outside, Goes
<1>25. ASSUME NEW h \in Webhooks, ReadRefund(h)  PROVE Course'
  BY <1>25, WriteNames DEF Course, Moving, Internal, Writers, ReadRefund,
     request, outside, Reads
<1>26. ASSUME NEW w \in Writes, SaveBalance(w)  PROVE Course'
  BY <1>26 DEF Course, Moving, Internal, SaveBalance, request, outside
<1>27. ASSUME NEW w \in Writes, SwapFails(w)  PROVE Course'
  BY <1>27, UnawaitedNames DEF Course, Moving, Internal, SwapFails, request,
     outside
<1>28. ASSUME NEW h \in Handlers, RequestFails(h)  PROVE Course'
  BY <1>28, WriteNames DEF CustodyTypeOK, Course, Unmoved, Internal, Writers,
     RequestFails, outside, Goes, Drop
<1>29. CASE ProcessEnds
  BY <1>29, WriteNames DEF Course, Unmoved, Moving, Internal, Handlers,
     Writers, ProcessEnds, outside
<1> QED  BY <1>1, <1>2, <1>3, <1>4, <1>5, <1>6, <1>7, <1>8, <1>9, <1>10, <1>11,
   <1>12, <1>13, <1>14, <1>15, <1>16, <1>17, <1>18, <1>19, <1>20, <1>21, <1>22,
   <1>23, <1>24, <1>25, <1>26, <1>27, <1>28, <1>29 DEF CustodyNext, AuthStep,
   TransferStep, HookStep, UnawaitedFails, Crash

\* Nothing gets past the pin without one that was right.
LEMMA AuthorisedStep ==
  ASSUME CustodyTypeOK, Shape, Course, Authorised, Evidence, [CustodyNext]_vars
  PROVE  Authorised'
<1>1. CASE UNCHANGED <<transfer, pc, on, pinOk>>
  BY <1>1 DEF Authorised, TransfersOf
<1>2. CASE UNCHANGED vars
  BY <1>1, <1>2 DEF vars, custodyVars, balances, request, outside, history,
     ledgerVars
<1>3. ASSUME NEW t \in Transfers, Expire(t)
      PROVE  Authorised'
  BY <1>1, <1>3 DEF Expire, balances, request, history, ledgerVars
<1>4. ASSUME NEW r \in TransferRequests, NEW e \in {"success", "failed"},
             CustodianReports(r, e)
      PROVE  Authorised'
  BY <1>1, <1>4 DEF CustodianReports, balances, request, history, ledgerVars
<1>5. ASSUME NEW h \in Webhooks, ReadRefund(h)
      PROVE  Authorised'
  BY <1>1, <1>5 DEF ReadRefund, request, outside, history, ledgerVars, Reads
<1>6. ASSUME NEW w \in Writes, SaveBalance(w) \/ SwapFails(w)
      PROVE  Authorised'
  BY <1>1, <1>6 DEF SaveBalance, request, outside, history, ledgerVars,
     SwapFails
<1>7. ASSUME NEW d \in Deposits, Deposit(d)
      PROVE  Authorised'
  BY <1>1, <1>7 DEF Deposit, balances, request, history, ledgerVars
<1>8. ASSUME NEW c \in Calls, LedgerRuns(c)
      PROVE  Authorised'
  BY <1>1, <1>8 DEF LedgerRuns, custodyVars, balances, request, outside,
     history, LedgerStep, Find, Open, Append, LookUp, Post, Goto
<1>9. ASSUME NEW t \in Transfers, Initiate(t)  PROVE Authorised'
  BY <1>9 DEF Authorised, TransfersOf, Initiate, request, history
<1>10. ASSUME NEW a \in AuthRequests, NEW t \in Transfers, AuthRead(a, t)
      PROVE  Authorised'
  BY <1>10, CustodyAssumption DEF Authorised, TransfersOf, AuthRead, history,
     Goes
<1>11. ASSUME NEW r \in TransferRequests, NEW t \in Transfers, TransferRead(r, t)
      PROVE  Authorised'
  BY <1>11 DEF CustodyTypeOK, Authorised, TransfersOf, TransferRead, Goes
<1>12. ASSUME NEW a \in AuthRequests, ComparePin(a)  PROVE Authorised'
  BY <1>12 DEF CustodyTypeOK, Authorised, TransfersOf, Handlers, ComparePin,
     Goes
<1>13. ASSUME NEW a \in AuthRequests, AuthSave(a)  PROVE Authorised'
  BY <1>13 DEF Authorised, TransfersOf, AuthSave, history, Goes, SavesStatus
<1>14. ASSUME NEW r \in TransferRequests, ReadSender(r)  PROVE Authorised'
  BY <1>14 DEF Authorised, TransfersOf, ReadSender, history, Goes
<1>15. ASSUME NEW r \in TransferRequests, ReadRecipient(r)  PROVE Authorised'
  BY <1>15 DEF Authorised, TransfersOf, ReadRecipient, history, Goes
<1>16. ASSUME NEW r \in TransferRequests, Swapped(r)  PROVE Authorised'
  BY <1>16 DEF Authorised, TransfersOf, Swapped, history, Goes
<1>17. ASSUME NEW r \in TransferRequests, SwapRejected(r)  PROVE Authorised'
  BY <1>17 DEF Authorised, TransfersOf, SwapRejected, history, Goes
<1>18. ASSUME NEW r \in TransferRequests, Complete(r)  PROVE Authorised'
  BY <1>18 DEF Authorised, TransfersOf, Writers, Complete, history, Goes,
     SavesStatus
<1>19. ASSUME NEW r \in TransferRequests, Closed(r)  PROVE Authorised'
  BY <1>19 DEF Authorised, TransfersOf, Closed, history, Goes
<1>20. ASSUME NEW r \in TransferRequests, Withdraw(r)  PROVE Authorised'
  BY <1>20 DEF Authorised, TransfersOf, Withdraw, history, Goes
<1>21. ASSUME NEW r \in TransferRequests, StartDebit(r)  PROVE Authorised'
  BY <1>21 DEF Authorised, TransfersOf, StartDebit, history, Goes
<1>22. ASSUME NEW r \in TransferRequests, SavePending(r)  PROVE Authorised'
  BY <1>22 DEF Authorised, TransfersOf, Writers, SavePending, history, Goes,
     SavesStatus
<1>23. ASSUME NEW r \in TransferRequests, WithdrawFails(r)  PROVE Authorised'
  BY <1>23 DEF Authorised, TransfersOf, WithdrawFails, Goes
<1>24. ASSUME NEW h \in Webhooks, NEW r \in TransferRequests,
              NEW e \in {"success", "failed"}, HookRead(h, r, e)
      PROVE  Authorised'
  BY <1>24, HookReads, CustodyAssumption DEF CustodyTypeOK, Authorised,
     TransfersOf, Handlers, Writers
<1>25. ASSUME NEW h \in Webhooks, HookClose(h)  PROVE Authorised'
  BY <1>25 DEF Authorised, TransfersOf, HookClose, history, Goes
<1>26. ASSUME NEW h \in Webhooks, HookEnd(h)  PROVE Authorised'
  BY <1>26 DEF Shape, Authorised, TransfersOf, HookEnd, history, Goes
<1>27. ASSUME NEW h \in Webhooks, HookSave(h)  PROVE Authorised'
  BY <1>27 DEF Authorised, TransfersOf, Writers, HookSave, history, Goes,
     SavesStatus
<1>28. ASSUME NEW h \in Handlers, RequestFails(h)  PROVE Authorised'
  BY <1>28 DEF Authorised, TransfersOf, Resting, RequestFails, Goes
<1>29. CASE ProcessEnds
  BY <1>29 DEF CustodyTypeOK, Authorised, TransfersOf, Handlers, ProcessEnds
<1> QED  BY <1>1, <1>2, <1>3, <1>4, <1>5, <1>6, <1>7, <1>8, <1>9, <1>10, <1>11,
   <1>12, <1>13, <1>14, <1>15, <1>16, <1>17, <1>18, <1>19, <1>20, <1>21, <1>22,
   <1>23, <1>24, <1>25, <1>26, <1>27, <1>28, <1>29 DEF CustodyNext, AuthStep,
   TransferStep, HookStep, UnawaitedFails, Crash

\* A withdrawal whose answer was lost is accepted, and its transfer faulted.
LEMMA WithdrawFailsKeepsEvidence ==
  ASSUME CustodyTypeOK, Shape, Course, Authorised, Evidence,
         NEW r \in TransferRequests, WithdrawFails(r)
  PROVE  Evidence'
<1>1. \A w \in Writes : write[w] \in Moving => write'[w] = write[w]
  BY DEF WithdrawFails, Drop, Moving
<1>2. /\ pc' = [pc EXCEPT ![r] = "done"] /\ pc[r] = "withdraw"
      /\ withdrawals \subseteq withdrawals' /\ withdrawals' \subseteq withdrawals \cup {r}
      /\ faulted' = faulted \cup {on[r]}
      /\ UNCHANGED <<transfer, on, outcome, reported>>
  BY DEF WithdrawFails, Goes
<1>3. ASSUME NEW e, NEW t, Reported(e, t)  PROVE Reported(e, t)'
  BY <1>2, <1>3 DEF Reported
<1>4. \A h \in Webhooks : pc'[h] # "idle" => HookBacked(h)'
  BY <1>2, <1>3, CustodyAssumption
  DEF CustodyTypeOK, Evidence, HookBacked, Handlers, Writers
<1>5. \A t \in Transfers : TransferBacked(t)'
  BY <1>1, <1>2, <1>3, WriteNames
  DEF CustodyTypeOK, Evidence, TransferBacked, Writers, Moving
<1>6. \A q \in withdrawals' :
        pc'[q] = "done" =>
          on'[q] \in faulted' \/ write'[DebitOf(q)] \in {"saving", "saved"}
  BY <1>1, <1>2, WriteNames DEF CustodyTypeOK, Evidence, Handlers, Writers, Moving
<1> QED  BY <1>2, <1>4, <1>5, <1>6 DEF Evidence

\* The custodian reports only what it accepted.
LEMMA CustodianReportsKeepsEvidence ==
  ASSUME CustodyTypeOK, Shape, Course, Authorised, Evidence,
         NEW r \in TransferRequests, NEW e \in {"success", "failed"},
         CustodianReports(r, e)
  PROVE  Evidence'
<1>1. reported' = reported \cup {Event(r, e)}
  BY EventAdded
<1>2. /\ r \in withdrawals
      /\ UNCHANGED <<transfer, balances, request, withdrawals, history>>
  BY DEF CustodianReports
<1> QED
  BY <1>1, <1>2, EventNames
  DEF CustodyTypeOK, Evidence, TransferBacked, HookBacked, Reported, balances,
      request, history

\* A webhook begins with the event of a withdrawal in its hands.
LEMMA HookReadKeepsEvidence ==
  ASSUME CustodyTypeOK, Shape, Course, Authorised, Evidence, NEW h \in Webhooks,
         NEW r \in TransferRequests, NEW e \in {"success", "failed"},
         HookRead(h, r, e)
  PROVE  Evidence'
<1>1. r \in withdrawals /\ Event(r, e) \in reported
  BY EventRead
<1>2. /\ pc' = [pc EXCEPT ![h] = "record"]
      /\ on' = [on EXCEPT ![h] = on[r]]
      /\ outcome' = [outcome EXCEPT ![h] = OutcomeOf(e)]
      /\ UNCHANGED <<transfer, write, reported, withdrawals, faulted>>
  BY HookReads
<1>3. \A q \in TransferRequests : on'[q] = on[q] /\ pc'[q] = pc[q]
  BY <1>2, CustodyAssumption DEF CustodyTypeOK, Handlers, Writers
<1>4. HookBacked(h)'
  <2>1. on'[h] = on[r] /\ outcome'[h] = OutcomeOf(e)
    BY <1>2 DEF CustodyTypeOK, Handlers, Writers
  <2>2. on[r] \notin InternalTransfers
    BY <1>1 DEF CustodyTypeOK, Course, Internal
  <2>3. \E q \in withdrawals' : on'[q] = on'[h] /\ Event(q, e) \in reported'
    BY <1>1, <1>2, <1>3, <2>1 DEF CustodyTypeOK
  <2> QED  BY <2>1, <2>2, <2>3 DEF HookBacked, Reported, OutcomeOf
<1>5. ASSUME NEW g \in Webhooks, g # h, pc'[g] # "idle"  PROVE HookBacked(g)'
  BY <1>2, <1>3, <1>5
  DEF CustodyTypeOK, Evidence, HookBacked, Reported, Handlers, Writers
<1>6. ASSUME NEW t \in Transfers  PROVE TransferBacked(t)'
  BY <1>2, <1>3, <1>6 DEF CustodyTypeOK, Evidence, TransferBacked, Reported
<1> QED  BY <1>2, <1>3, <1>4, <1>5, <1>6 DEF CustodyTypeOK, Evidence

\* A handler that throws drops what it only holds, and its transfer is faulted.
LEMMA RequestFailsKeepsEvidence ==
  ASSUME CustodyTypeOK, Shape, Course, Authorised, Evidence, NEW h \in Handlers,
         RequestFails(h)
  PROVE  Evidence'
<1>1. \A w \in Writes : write[w] \in Moving => write'[w] = write[w]
  BY DEF RequestFails, Drop, Moving
<1>2. /\ pc' = [pc EXCEPT ![h] = "done"] /\ pc[h] # "idle"
      /\ faulted' = faulted \cup {on[h]}
      /\ UNCHANGED <<transfer, on, outcome, reported, withdrawals>>
  BY DEF RequestFails, Goes, outside, Resting
<1> QED
  BY <1>1, <1>2, WriteNames, SMTT(30)
  DEF CustodyTypeOK, Evidence, TransferBacked, HookBacked, Reported, Handlers,
      Writers, Moving

\* A status is written, and a refund begun, only by who has the evidence for it.
LEMMA EvidenceStep ==
  ASSUME CustodyTypeOK, Shape, Course, Authorised, Evidence, [CustodyNext]_vars
  PROVE  Evidence'
<1>1. CASE UNCHANGED <<transfer, pc, on, outcome, write,
                       reported, withdrawals, faulted>>
  BY <1>1 DEF Evidence, TransferBacked, HookBacked, Reported
<1>2. CASE UNCHANGED vars
  BY <1>1, <1>2 DEF vars, custodyVars, balances, request, outside, history,
     ledgerVars
<1>3. ASSUME NEW t \in Transfers, Expire(t)
      PROVE  Evidence'
  BY <1>1, <1>3 DEF Expire, balances, request, history, ledgerVars
<1>4. ASSUME NEW d \in Deposits, Deposit(d)
      PROVE  Evidence'
  BY <1>1, <1>4 DEF Deposit, balances, request, history, ledgerVars
<1>5. ASSUME NEW c \in Calls, LedgerRuns(c)
      PROVE  Evidence'
  BY <1>1, <1>5 DEF LedgerRuns, custodyVars, balances, request, outside,
     history, LedgerStep, Find, Open, Append, LookUp, Post, Goto
<1>6. ASSUME NEW t \in Transfers, Initiate(t)  PROVE Evidence'
  BY <1>6 DEF Evidence, TransferBacked, HookBacked, Reported, Initiate,
     balances, request, outside, history
<1>7. ASSUME NEW a \in AuthRequests, NEW t \in Transfers, AuthRead(a, t)
      PROVE  Evidence'
  BY <1>7, CustodyAssumption DEF CustodyTypeOK, Evidence, TransferBacked,
     HookBacked, Reported, Handlers, Writers, AuthRead, balances, outside,
     history, Goes
<1>8. ASSUME NEW r \in TransferRequests, NEW t \in Transfers, TransferRead(r, t)
      PROVE  Evidence'
  BY <1>8, CustodyAssumption DEF Shape, Course, Evidence, TransferBacked,
     HookBacked, Reported, Unmoved, TransferRead, balances, outside, Goes
<1>9. ASSUME NEW a \in AuthRequests, ComparePin(a)  PROVE Evidence'
  BY <1>9 DEF CustodyTypeOK, Course, Evidence, TransferBacked, HookBacked,
     Reported, Handlers, Writers, ComparePin, balances, outside, Goes
<1>10. ASSUME NEW a \in AuthRequests, AuthSave(a)  PROVE Evidence'
  BY <1>10 DEF CustodyTypeOK, Course, Evidence, TransferBacked, HookBacked,
     Reported, Writers, AuthSave, balances, outside, history, Goes, SavesStatus
<1>11. ASSUME NEW r \in TransferRequests, ReadSender(r)  PROVE Evidence'
  BY <1>11, WriteNames DEF CustodyTypeOK, Course, Evidence, TransferBacked,
     HookBacked, Reported, Unmoved, Handlers, Writers, ReadSender, outside,
     history, Goes, Reads
<1>12. ASSUME NEW r \in TransferRequests, ReadRecipient(r)  PROVE Evidence'
  BY <1>12, WriteNames DEF CustodyTypeOK, Course, Evidence, TransferBacked,
     HookBacked, Reported, Handlers, Writers, ReadRecipient, outside, history,
     Goes, Reads
<1>13. ASSUME NEW r \in TransferRequests, Swapped(r)  PROVE Evidence'
  BY <1>13 DEF Evidence, TransferBacked, HookBacked, Reported, Swapped,
     balances, outside, history, Goes
<1>14. ASSUME NEW r \in TransferRequests, SwapRejected(r)  PROVE Evidence'
  BY <1>14 DEF Course, Evidence, TransferBacked, HookBacked, Reported,
     SwapRejected, balances, outside, history, Goes
<1>15. ASSUME NEW r \in TransferRequests, Complete(r)  PROVE Evidence'
  BY <1>15 DEF Course, Evidence, TransferBacked, HookBacked, Reported,
     Internal, Complete, balances, outside, history, Goes, SavesStatus
<1>16. ASSUME NEW r \in TransferRequests, Closed(r)  PROVE Evidence'
  BY <1>16 DEF Course, Evidence, TransferBacked, HookBacked, Reported, Closed,
     balances, outside, history, Goes
<1>17. ASSUME NEW r \in TransferRequests, Withdraw(r)  PROVE Evidence'
  BY <1>17 DEF Evidence, TransferBacked, HookBacked, Reported, Withdraw,
     balances, history, Goes
<1>18. ASSUME NEW r \in TransferRequests, StartDebit(r)  PROVE Evidence'
  BY <1>18 DEF Course, Evidence, TransferBacked, HookBacked, Reported, Moving,
     StartDebit, outside, history, Goes
<1>19. ASSUME NEW r \in TransferRequests, SavePending(r)  PROVE Evidence'
  BY <1>19 DEF Course, Evidence, TransferBacked, HookBacked, Reported, Moving,
     SavePending, balances, outside, history, Goes, SavesStatus
<1>20. ASSUME NEW r \in TransferRequests, WithdrawFails(r)  PROVE Evidence'
  BY <1>20, WithdrawFailsKeepsEvidence
<1>21. ASSUME NEW r \in TransferRequests, NEW e \in {"success", "failed"},
              CustodianReports(r, e)
      PROVE  Evidence'
  BY <1>21, CustodianReportsKeepsEvidence
<1>22. ASSUME NEW h \in Webhooks, NEW r \in TransferRequests,
              NEW e \in {"success", "failed"}, HookRead(h, r, e)
      PROVE  Evidence'
  BY <1>22, HookReadKeepsEvidence
<1>23. ASSUME NEW h \in Webhooks, HookClose(h)  PROVE Evidence'
  BY <1>23 DEF Evidence, TransferBacked, HookBacked, Reported, HookClose,
     balances, outside, history, Goes
<1>24. ASSUME NEW h \in Webhooks, HookEnd(h)  PROVE Evidence'
  BY <1>24 DEF Shape, Evidence, TransferBacked, HookBacked, Reported, Moving,
     HookEnd, outside, history, Goes
<1>25. ASSUME NEW h \in Webhooks, HookSave(h)  PROVE Evidence'
  BY <1>25 DEF CustodyTypeOK, Course, Evidence, TransferBacked, HookBacked,
     Reported, Handlers, HookSave, balances, outside, history, Goes,
     SavesStatus
<1>26. ASSUME NEW h \in Webhooks, ReadRefund(h)  PROVE Evidence'
  BY <1>26, WriteNames DEF CustodyTypeOK, Evidence, TransferBacked, HookBacked,
     Reported, Writers, ReadRefund, request, outside, history, Reads
<1>27. ASSUME NEW w \in Writes, SaveBalance(w)  PROVE Evidence'
  BY <1>27 DEF Evidence, TransferBacked, HookBacked, Reported, Moving,
     SaveBalance, request, outside, history
<1>28. ASSUME NEW w \in Writes, SwapFails(w)  PROVE Evidence'
  BY <1>28, UnawaitedNames DEF CustodyTypeOK, Course, Evidence, TransferBacked,
     HookBacked, Reported, SwapFails, request, outside
<1>29. ASSUME NEW h \in Handlers, RequestFails(h)  PROVE Evidence'
  BY <1>29, RequestFailsKeepsEvidence
<1>30. CASE ProcessEnds
  BY <1>30, WriteNames DEF CustodyTypeOK, Course, Evidence, TransferBacked,
     HookBacked, Reported, Moving, Handlers, Writers, Writes, Resting,
     ProcessEnds, outside
<1> QED  BY <1>1, <1>2, <1>3, <1>4, <1>5, <1>6, <1>7, <1>8, <1>9, <1>10, <1>11,
   <1>12, <1>13, <1>14, <1>15, <1>16, <1>17, <1>18, <1>19, <1>20, <1>21, <1>22,
   <1>23, <1>24, <1>25, <1>26, <1>27, <1>28, <1>29, <1>30 DEF CustodyNext,
   AuthStep, TransferStep, HookStep, UnawaitedFails, Crash

\* A webhook that begins makes its recording call about its transfer.
LEMMA HookReadKeepsLinked ==
  ASSUME CustodyTypeOK, LedgerInv, Shape, Course, Evidence, Linked,
         NEW h \in Webhooks, NEW r \in TransferRequests,
         NEW e \in {"success", "failed"}, HookRead(h, r, e)
  PROVE  Linked'
<1>1. /\ pc[h] = "idle" /\ pc' = [pc EXCEPT ![h] = "record"]
      /\ on[r] \in Transfers \ InternalTransfers /\ on' = [on EXCEPT ![h] = on[r]]
  BY HookReads
<1>2. about' = [about EXCEPT ![RecordCall(h)] = on[r]]
  BY DEF HookRead, Begin
<1> QED
  BY <1>1, <1>2, CallNames, CustodyAssumption
  DEF CustodyTypeOK, Linked, Recording, LedgerInv, LedgerTypeOK, Calls, Handlers,
      Writers, Internal

\* A handler's calls are about its transfer, and begin when its program counter
\* says.
LEMMA LinkedStep ==
  ASSUME CustodyTypeOK, LedgerInv, Shape, Course, Evidence, Linked, [CustodyNext]_vars
  PROVE  Linked'
<1>1. CASE UNCHANGED <<pc, on, about>>
  BY <1>1 DEF Linked, Internal
<1>2. CASE UNCHANGED vars
  BY <1>1, <1>2 DEF vars, custodyVars, balances, request, outside, history,
     ledgerVars
<1>3. ASSUME NEW t \in Transfers, Initiate(t) \/ Expire(t)
      PROVE  Linked'
  BY <1>1, <1>3 DEF Initiate, balances, request, outside, history, ledgerVars,
     Expire
<1>4. ASSUME NEW r \in TransferRequests, NEW e \in {"success", "failed"},
             CustodianReports(r, e)
      PROVE  Linked'
  BY <1>1, <1>4 DEF CustodianReports, balances, request, history, ledgerVars
<1>5. ASSUME NEW h \in Webhooks, ReadRefund(h)
      PROVE  Linked'
  BY <1>1, <1>5 DEF ReadRefund, request, outside, history, ledgerVars, Reads
<1>6. ASSUME NEW w \in Writes, SaveBalance(w) \/ SwapFails(w)
      PROVE  Linked'
  BY <1>1, <1>6 DEF SaveBalance, request, outside, history, ledgerVars,
     SwapFails
<1>7. ASSUME NEW d \in Deposits, Deposit(d)
      PROVE  Linked'
  BY <1>1, <1>7 DEF Deposit, balances, request, history, ledgerVars
<1>8. ASSUME NEW c \in Calls, LedgerRuns(c)
      PROVE  Linked'
  BY <1>1, <1>8 DEF LedgerRuns, custodyVars, balances, request, outside,
     history, LedgerStep, Find, Open, Append, LookUp, Post, Goto
<1>9. ASSUME NEW a \in AuthRequests, NEW t \in Transfers, AuthRead(a, t)
      PROVE  Linked'
  BY <1>9 DEF Linked, Recording, Internal, Writers, AuthRead, ledgerVars, Goes
<1>10. ASSUME NEW r \in TransferRequests, NEW t \in Transfers, TransferRead(r, t)
      PROVE  Linked'
  BY <1>10 DEF Linked, Recording, Internal, Writers, TransferRead, ledgerVars,
     Goes
<1>11. ASSUME NEW a \in AuthRequests, ComparePin(a)  PROVE Linked'
  BY <1>11 DEF CustodyTypeOK, Linked, Recording, Internal, Handlers,
     ComparePin, ledgerVars, Goes
<1>12. ASSUME NEW a \in AuthRequests, AuthSave(a)  PROVE Linked'
  BY <1>12 DEF Linked, Recording, Internal, AuthSave, ledgerVars, Goes
<1>13. ASSUME NEW r \in TransferRequests, ReadSender(r)  PROVE Linked'
  BY <1>13 DEF Linked, Recording, Internal, ReadSender, ledgerVars, Goes
<1>14. ASSUME NEW r \in TransferRequests, ReadRecipient(r)  PROVE Linked'
  BY <1>14 DEF Linked, Recording, Internal, ReadRecipient, ledgerVars, Goes
<1>15. ASSUME NEW r \in TransferRequests, Swapped(r)  PROVE Linked'
  BY <1>15, CustodyAssumption, CallNames DEF CustodyTypeOK, LedgerTypeOK,
     Linked, Recording, Internal, Calls, Handlers, Writers, Swapped, Goes,
     Begin
<1>16. ASSUME NEW r \in TransferRequests, SwapRejected(r)  PROVE Linked'
  BY <1>16 DEF Linked, Recording, Internal, SwapRejected, ledgerVars, Goes
<1>17. ASSUME NEW r \in TransferRequests, Complete(r)  PROVE Linked'
  BY <1>17, CustodyAssumption, CallNames DEF CustodyTypeOK, LedgerTypeOK,
     Linked, Recording, Internal, Calls, Handlers, Writers, Complete, Goes,
     Begin
<1>18. ASSUME NEW r \in TransferRequests, Closed(r)  PROVE Linked'
  BY <1>18 DEF Linked, Recording, Internal, Closed, ledgerVars, Goes
<1>19. ASSUME NEW r \in TransferRequests, Withdraw(r)  PROVE Linked'
  BY <1>19, CustodyAssumption, CallNames DEF CustodyTypeOK, LedgerTypeOK,
     Linked, Recording, Internal, Calls, Handlers, Writers, Withdraw, Goes,
     Begin
<1>20. ASSUME NEW r \in TransferRequests, StartDebit(r)  PROVE Linked'
  BY <1>20 DEF Linked, Recording, Internal, StartDebit, ledgerVars, Goes
<1>21. ASSUME NEW r \in TransferRequests, SavePending(r)  PROVE Linked'
  BY <1>21 DEF Linked, Recording, Internal, SavePending, ledgerVars, Goes
<1>22. ASSUME NEW r \in TransferRequests, WithdrawFails(r)  PROVE Linked'
  BY <1>22 DEF Linked, Recording, Internal, WithdrawFails, ledgerVars, Goes
<1>23. ASSUME NEW h \in Webhooks, NEW r \in TransferRequests,
              NEW e \in {"success", "failed"}, HookRead(h, r, e)
      PROVE  Linked'
  BY <1>23, HookReadKeepsLinked
<1>24. ASSUME NEW h \in Webhooks, HookClose(h)  PROVE Linked'
  BY <1>24, CustodyAssumption, CallNames DEF CustodyTypeOK, LedgerTypeOK,
     Linked, Recording, Internal, Calls, Handlers, Writers, HookClose, Goes,
     Begin
<1>25. ASSUME NEW h \in Webhooks, HookEnd(h)  PROVE Linked'
  BY <1>25 DEF Linked, Recording, Internal, HookEnd, ledgerVars, Goes
<1>26. ASSUME NEW h \in Webhooks, HookSave(h)  PROVE Linked'
  BY <1>26 DEF Linked, Recording, Internal, HookSave, ledgerVars, Goes
<1>27. ASSUME NEW h \in Handlers, RequestFails(h)  PROVE Linked'
  BY <1>27 DEF Linked, Recording, Internal, RequestFails, Goes, AbortCalls
<1>28. CASE ProcessEnds
  BY <1>28 DEF Linked, Recording, Internal, Handlers, ProcessEnds, AbortCalls
<1> QED  BY <1>1, <1>2, <1>3, <1>4, <1>5, <1>6, <1>7, <1>8, <1>9, <1>10, <1>11,
   <1>12, <1>13, <1>14, <1>15, <1>16, <1>17, <1>18, <1>19, <1>20, <1>21, <1>22,
   <1>23, <1>24, <1>25, <1>26, <1>27, <1>28 DEF CustodyNext, AuthStep,
   TransferStep, HookStep, UnawaitedFails, Crash

\* A request that begins alone has no call yet, and no webhook is about its
\* transfer; one that does not marks the transfer of the other crossed.
LEMMA TransferReadKeepsRecorded ==
  ASSUME CustodyTypeOK, LedgerInv, Shape, Course, Authorised, Evidence, Linked,
         Recorded, NEW r \in TransferRequests, NEW t \in Transfers, TransferRead(r, t)
  PROVE  Recorded'
<1>1. /\ pc[r] = "idle"
      /\ pc' = [pc EXCEPT ![r] = "sender"] /\ on' = [on EXCEPT ![r] = t]
      /\ crossed' = crossed \cup {u \in {t} : t \in TransfersOf(TransferRequests)}
      /\ UNCHANGED <<write, faulted, step, about, opened, posted, recorded>>
  BY DEF TransferRead, Goes, balances, ledgerVars
<1>2. SUFFICES ASSUME NEW q \in TransferRequests, pc'[q] # "idle",
                      on'[q] \notin crossed' \cup faulted'
               PROVE  Kept(q)'
  BY DEF Recorded
<1>3. CASE q = r
  <2>1. \A k \in TransferRequests : on[k] # t
    BY <1>1, <1>2, <1>3 DEF CustodyTypeOK, Handlers, Writers, TransfersOf
  <2>2. \A h \in Webhooks : on[h] # t
    BY <2>1, LedgerAssumption, CustodyAssumption
    DEF CustodyTypeOK, Shape, Evidence, HookBacked, Reported, Handlers, Writers
  <2>3. step[RecordCall(r)] = "idle" /\ step[CloseCall(r)] = "idle"
    BY <1>1, CallNames DEF LedgerInv, CallsInStep, Linked, Recording, Writers, Calls
  <2> QED
    BY <1>1, <1>3, <2>1, <2>2, <2>3 DEF CustodyTypeOK, Kept, Handlers, Writers
<1>4. CASE q # r
  <2>1. pc'[q] = pc[q] /\ on'[q] = on[q] /\ Kept(q)
    BY <1>1, <1>2, <1>4 DEF CustodyTypeOK, Recorded
  <2>2. on[q] # t
    BY <1>1, <1>2, <2>1 DEF TransfersOf
  <2> QED
    BY <1>1, <2>1, <2>2
    DEF CustodyTypeOK, Kept, Written, LedgersOf, Internal, Handlers, Writers
<1> QED  BY <1>3, <1>4

\* The calls cut short are those of the handler that throws.
LEMMA RequestFailsKeepsRecorded ==
  ASSUME CustodyTypeOK, LedgerInv, Shape, Course, Authorised, Evidence, Linked,
         Recorded, NEW h \in Handlers, RequestFails(h)
  PROVE  Recorded'
<1>1. /\ pc' = [pc EXCEPT ![h] = "done"] /\ pc[h] \notin Resting
      /\ faulted' = faulted \cup {on[h]}
  BY DEF RequestFails, Goes
<1>2. \A c \in Calls :
         \/ step'[c] = step[c]
         \/ step'[c] = "failed" /\ c \in {RecordCall(h), CloseCall(h)}
  BY DEF RequestFails, AbortCalls
<1>3. UNCHANGED <<on, crossed, about, opened, posted, recorded>>
  BY DEF RequestFails, AbortCalls
<1>4. \A w \in Writes : write'[w] = "failed" => write[w] = "failed"
  BY DEF RequestFails, Drop
<1>5. SUFFICES ASSUME NEW r \in TransferRequests, pc'[r] # "idle",
                      on'[r] \notin crossed' \cup faulted'
               PROVE  Kept(r)'
  BY DEF Recorded
<1>6. r # h /\ pc'[r] = pc[r] /\ Kept(r)
  BY <1>1, <1>3, <1>5 DEF Recorded, CustodyTypeOK
<1>7. /\ step'[RecordCall(r)] = step[RecordCall(r)]
      /\ step'[CloseCall(r)] = step[CloseCall(r)]
  <2>1. CASE h \in Writers
    BY <1>2, <1>6, <2>1, CallNames, CustodyAssumption DEF Calls, Writers
  <2>2. CASE h \in AuthRequests
    BY <1>2, <1>6, <2>2, CallNames, CustodyAssumption
    DEF Calls, Writers, RecordCall, CloseCall
  <2> QED  BY <2>1, <2>2 DEF Handlers
<1> QED
  BY <1>3, <1>4, <1>6, <1>7, WriteNames
  DEF Kept, Written, LedgersOf, Internal, Writers

\* The ledger of a request at work alone is the one its own call opens, so the
\* call finds none, appends to that one, and the closing call posts it.
LEMMA LedgerRunsKeepsRecorded ==
  ASSUME CustodyTypeOK, LedgerInv, Shape, Course, Authorised, Evidence, Linked,
         Recorded, NEW c \in Calls, LedgerRuns(c)
  PROVE  Recorded'
<1>1. UNCHANGED custodyVars /\ LedgerStep(c)
  BY DEF LedgerRuns
<1>2. SUFFICES ASSUME NEW r \in TransferRequests, pc[r] # "idle", Kept(r)
               PROVE  Kept(r)'
  BY <1>1 DEF Recorded, custodyVars, request, history
<1>3. about' = about /\ opened \subseteq opened' /\ posted \subseteq posted'
      /\ \A d \in RecordCalls : recorded[d] \subseteq recorded'[d]
  BY <1>1 DEF LedgerStep, Find, Open, Append, LookUp, Post, LedgerInv, LedgerTypeOK
<1>4. Written(r) => Written(r)'
  BY <1>1, <1>3, CallNames DEF Written, LedgersOf, custodyVars, request, Writers
<1>5. ASSUME pc[r] # "done"
      PROVE  LedgersOf(on[r]) \subseteq {RecordCall(r)}
  <2>1. SUFFICES ASSUME NEW d \in opened, about[d] = on[r]  PROVE d = RecordCall(r)
    BY DEF LedgersOf
  <2>2. PICK h \in Writers : d = RecordCall(h)
    BY CallNames DEF LedgerInv, LedgerTypeOK
  <2>3. on[h] = on[r]
    BY <1>2, <2>1, <2>2, LedgerAssumption, CustodyAssumption
       DEF Linked, Shape, Handlers, Writers
  <2> QED BY <1>2, <1>5, <2>2, <2>3 DEF Kept
<1>6. step'[RecordCall(r)] = "done" => Written(r)'
  <2>1. CASE c # RecordCall(r)
    BY <1>1, <1>2, <1>4, <2>1, CallNames
    DEF Kept, LedgerStep, Find, Open, Append, LookUp, Post, Goto, LedgerInv,
        LedgerTypeOK, Calls, Writers
  <2>2. CASE Written(r)
    BY <1>4, <2>2
  <2>3. CASE c = RecordCall(r) /\ ~ Written(r)
    <3>1. /\ LedgersOf(on[r]) \subseteq {c} /\ c \in RecordCalls
      BY <1>2, <1>5, <2>3, CallNames DEF Kept, Writers
    <3>2. step[c] # "idle" => about[c] = on[r]
      BY <2>3, CallNames DEF LedgerInv, CallsInStep, Linked, Writers
    <3>3. CASE Find(c)
      BY <3>1, <3>2, <3>3, <2>3
      DEF Find, LedgersOf, LedgerInv, LedgerTypeOK, CallsInStep, Goto, Calls
    <3>4. CASE Open(c)
      BY <3>1, <3>4, <2>3 DEF Open, LedgerInv, LedgerTypeOK, Goto, Calls
    <3>5. CASE Append(c)
      <4>1. found[c] = c /\ c \in LedgersOf(on[r])
        BY <3>1, <3>2, <3>5 DEF Append, LedgerInv, CallsInStep, Calls
      <4>2. c \in recorded'[c]
        BY <3>1, <3>5, <4>1 DEF Append, LedgerInv, LedgerTypeOK
      <4> QED
        BY <1>1, <2>3, <3>5, <4>1, <4>2
        DEF Append, Written, LedgersOf, custodyVars, request
    <3> QED
      BY <1>1, <3>1, <3>3, <3>4, <3>5
      DEF LedgerStep, LookUp, Post, LedgerInv, CallsInStep
  <2> QED  BY <2>1, <2>2, <2>3
<1>7. step'[CloseCall(r)] = "done" => RecordCall(r) \in posted'
  <2>1. CASE c # CloseCall(r) \/ RecordCall(r) \in posted
    BY <1>1, <1>2, <1>3, <2>1, CallNames
    DEF Kept, LedgerStep, Find, Open, Append, LookUp, Post, Goto, LedgerInv,
        LedgerTypeOK, Calls, Writers
  <2>2. CASE c = CloseCall(r) /\ RecordCall(r) \notin posted /\ step[c] # "idle"
    <3>1. c \in CloseCalls /\ about[c] = on[r] /\ Internal(r)
      BY <2>2, CallNames DEF LedgerInv, CallsInStep, Linked, Writers, Calls
    <3>2. on[r] # None
      BY <1>2, LedgerAssumption, CustodyAssumption DEF Shape, Handlers, Writers
    <3>3. pc[r] = "close"
      BY <1>2, <2>2, <3>1, <3>2 DEF Linked, Course, Kept, Writers
    <3>4. LedgersOf(about[c]) = {RecordCall(r)}
      BY <1>2, <1>5, <3>1, <3>3 DEF Kept, Written
    <3>5. CASE LookUp(c)
      BY <3>1, <3>4, <3>5, <2>2 DEF LookUp, LedgerInv, LedgerTypeOK, Goto, Calls
    <3>6. CASE Post(c)
      BY <3>1, <3>4, <3>6 DEF Post, LedgerInv, CallsInStep, Calls
    <3> QED
      BY <1>1, <2>2, <3>1, <3>5, <3>6
      DEF LedgerStep, Find, Open, Append, LedgerInv, CallsInStep
  <2> QED
    BY <1>1, <2>1, <2>2 DEF LedgerStep, Find, Open, Append, LookUp, Post
<1>8. \A d \in Calls : step'[d] = "failed" => step[d] = "failed"
  BY <1>1 DEF LedgerStep, Find, Open, Append, LookUp, Post, Goto, LedgerInv, LedgerTypeOK
<1> QED
  BY <1>1, <1>2, <1>3, <1>4, <1>6, <1>7, <1>8, CallNames
  DEF Kept, Calls, Writers, Internal, custodyVars, balances, request

\* While a request is alone on its transfer, its entries stay on their way.
LEMMA RecordedStep ==
  ASSUME CustodyTypeOK, LedgerInv, Shape, Course, Authorised, Evidence, Linked,
         Recorded, [CustodyNext]_vars
  PROVE  Recorded'
<1>1. CASE UNCHANGED <<pc, on, write, crossed, faulted,
                       step, about, found, opened, posted, recorded>>
  BY <1>1 DEF Recorded, Kept, Written, LedgersOf, Internal
<1>2. CASE UNCHANGED vars
  BY <1>1, <1>2 DEF vars, custodyVars, balances, request, outside, history,
     ledgerVars
<1>3. ASSUME NEW t \in Transfers, Initiate(t) \/ Expire(t)
      PROVE  Recorded'
  BY <1>1, <1>3 DEF Initiate, balances, request, outside, history, ledgerVars,
     Expire
<1>4. ASSUME NEW r \in TransferRequests, NEW e \in {"success", "failed"},
             CustodianReports(r, e)
      PROVE  Recorded'
  BY <1>1, <1>4 DEF CustodianReports, balances, request, history, ledgerVars
<1>5. ASSUME NEW d \in Deposits, Deposit(d)
      PROVE  Recorded'
  BY <1>1, <1>5 DEF Deposit, balances, request, history, ledgerVars
<1>6. ASSUME NEW a \in AuthRequests, NEW t \in Transfers, AuthRead(a, t)
      PROVE  Recorded'
  BY <1>6, CustodyAssumption DEF Recorded, Kept, Written, LedgersOf, Internal,
     Writers, AuthRead, balances, history, ledgerVars, Goes
<1>7. ASSUME NEW r \in TransferRequests, NEW t \in Transfers, TransferRead(r, t)
      PROVE  Recorded'
  BY <1>7, TransferReadKeepsRecorded
<1>8. ASSUME NEW a \in AuthRequests, ComparePin(a)  PROVE Recorded'
  BY <1>8 DEF CustodyTypeOK, Course, Recorded, Kept, Written, LedgersOf,
     Internal, Handlers, Writers, ComparePin, balances, ledgerVars, Goes
<1>9. ASSUME NEW a \in AuthRequests, AuthSave(a)  PROVE Recorded'
  BY <1>9 DEF Course, Recorded, Kept, Written, LedgersOf, Internal, AuthSave,
     balances, history, ledgerVars, Goes
<1>10. ASSUME NEW r \in TransferRequests, ReadSender(r)  PROVE Recorded'
  BY <1>10, WriteNames DEF Recorded, Kept, Written, LedgersOf, Internal,
     Writers, ReadSender, history, ledgerVars, Goes, Reads
<1>11. ASSUME NEW r \in TransferRequests, ReadRecipient(r)  PROVE Recorded'
  BY <1>11, WriteNames DEF Recorded, Kept, Written, LedgersOf, Internal,
     Writers, ReadRecipient, history, ledgerVars, Goes, Reads
<1>12. ASSUME NEW r \in TransferRequests, Swapped(r)  PROVE Recorded'
  BY <1>12 DEF LedgerTypeOK, LedgerInv, CallsInStep, Recorded, Kept, Written,
     LedgersOf, Internal, Swapped, balances, history, Goes, Begin, Goto
<1>13. ASSUME NEW r \in TransferRequests, SwapRejected(r)  PROVE Recorded'
  BY <1>13 DEF Recorded, Kept, Written, LedgersOf, Internal, SwapRejected,
     balances, history, ledgerVars, Goes
<1>14. ASSUME NEW r \in TransferRequests, Complete(r)  PROVE Recorded'
  BY <1>14 DEF LedgerTypeOK, LedgerInv, CallsInStep, Recorded, Kept, Written,
     LedgersOf, Internal, Complete, balances, history, Goes, Begin, Goto
<1>15. ASSUME NEW r \in TransferRequests, Closed(r)  PROVE Recorded'
  BY <1>15 DEF Recorded, Kept, Written, LedgersOf, Internal, Closed, balances,
     history, ledgerVars, Goes
<1>16. ASSUME NEW r \in TransferRequests, Withdraw(r)  PROVE Recorded'
  BY <1>16 DEF LedgerTypeOK, LedgerInv, CallsInStep, Recorded, Kept, Written,
     LedgersOf, Internal, Withdraw, balances, history, Goes, Begin, Goto
<1>17. ASSUME NEW r \in TransferRequests, StartDebit(r)  PROVE Recorded'
  BY <1>17 DEF Recorded, Kept, Written, LedgersOf, Internal, StartDebit,
     history, ledgerVars, Goes
<1>18. ASSUME NEW r \in TransferRequests, SavePending(r)  PROVE Recorded'
  BY <1>18 DEF Course, Recorded, Kept, Written, LedgersOf, Internal,
     SavePending, balances, history, ledgerVars, Goes
<1>19. ASSUME NEW r \in TransferRequests, WithdrawFails(r)  PROVE Recorded'
  BY <1>19, WriteNames DEF Recorded, Kept, Written, LedgersOf, Internal,
     Writers, WithdrawFails, ledgerVars, Goes, Drop
<1>20. ASSUME NEW h \in Webhooks, NEW r \in TransferRequests,
              NEW e \in {"success", "failed"}, HookRead(h, r, e)
      PROVE  Recorded'
  BY <1>20, CustodyAssumption, WriteNames DEF LedgerTypeOK, LedgerInv,
     CallsInStep, Recorded, Kept, Written, LedgersOf, Internal, AtWork,
     Resting, HookRead, balances, Goes, Begin, Goto
<1>21. ASSUME NEW h \in Webhooks, HookClose(h)  PROVE Recorded'
  BY <1>21 DEF LedgerTypeOK, LedgerInv, CallsInStep, Recorded, Kept, Written,
     LedgersOf, Internal, HookClose, balances, history, Goes, Begin, Goto
<1>22. ASSUME NEW h \in Webhooks, HookEnd(h)  PROVE Recorded'
  BY <1>22 DEF Recorded, Kept, Written, LedgersOf, Internal, HookEnd, history,
     ledgerVars, Goes
<1>23. ASSUME NEW h \in Webhooks, HookSave(h)  PROVE Recorded'
  BY <1>23 DEF Course, Recorded, Kept, Written, LedgersOf, Internal, HookSave,
     balances, history, ledgerVars, Goes
<1>24. ASSUME NEW h \in Webhooks, ReadRefund(h)  PROVE Recorded'
  BY <1>24, WriteNames DEF Recorded, Kept, Written, LedgersOf, Internal,
     Writers, ReadRefund, request, history, ledgerVars, Reads
<1>25. ASSUME NEW w \in Writes, SaveBalance(w)  PROVE Recorded'
  BY <1>25 DEF Recorded, Kept, Written, LedgersOf, Internal, SaveBalance,
     request, history, ledgerVars
<1>26. ASSUME NEW w \in Writes, SwapFails(w)  PROVE Recorded'
  BY <1>26, WriteNames DEF Recorded, Kept, Written, LedgersOf, Internal,
     Writers, SwapFails, request, ledgerVars
<1>27. ASSUME NEW h \in Handlers, RequestFails(h)  PROVE Recorded'
  BY <1>27, RequestFailsKeepsRecorded
<1>28. ASSUME NEW c \in Calls, LedgerRuns(c)  PROVE Recorded'
  BY <1>28, LedgerRunsKeepsRecorded
<1>29. CASE ProcessEnds
  BY <1>29, CallNames DEF Recorded, Kept, Written, LedgersOf, Internal, Calls,
     Resting, Handlers, Writers, ProcessEnds, AbortCalls
<1> QED  BY <1>1, <1>2, <1>3, <1>4, <1>5, <1>6, <1>7, <1>8, <1>9, <1>10, <1>11,
   <1>12, <1>13, <1>14, <1>15, <1>16, <1>17, <1>18, <1>19, <1>20, <1>21, <1>22,
   <1>23, <1>24, <1>25, <1>26, <1>27, <1>28, <1>29 DEF CustodyNext, AuthStep,
   TransferStep, HookStep, UnawaitedFails, Crash

-----------------------------------------------------------------------------
\* The handlers use the ledger only through the calls of its service.
LEMMA LedgerUsed ==
  ASSUME CustodyTypeOK, Shape, Course, Evidence, [CustodyNext]_vars
  PROVE  [LedgerNext]_ledgerVars
<1>1. CASE UNCHANGED ledgerVars
  BY <1>1
<1>2. ASSUME NEW c \in Calls, NEW t \in Transactions, Begin(c, t)
      PROVE  LedgerNext
  BY <1>2 DEF LedgerNext
<1>3. ASSUME NEW C, AbortCalls(C)  PROVE LedgerNext
  <2>1. AbortCalls(C \cap Calls)
    BY <1>3 DEF AbortCalls
  <2> QED  BY <2>1 DEF LedgerNext
<1>4. ASSUME NEW c \in Calls, LedgerRuns(c)  PROVE LedgerNext
  BY <1>4 DEF LedgerRuns, LedgerNext
<1>5. ASSUME NEW h \in Writers
      PROVE  /\ {RecordCall(h), CloseCall(h)} \subseteq Calls
             /\ pc[h] # "idle" => on[h] \in Transactions
  BY <1>5, CallNames, CustodyAssumption DEF Calls, Shape, Handlers
<1>6. ASSUME NEW r \in TransferRequests, Swapped(r) \/ Complete(r) \/ Withdraw(r)
      PROVE  LedgerNext
  BY <1>2, <1>5, <1>6 DEF Swapped, Complete, Withdraw, Writers
<1>7. ASSUME NEW h \in Webhooks, HookClose(h)
      PROVE  LedgerNext
  BY <1>2, <1>5, <1>7 DEF HookClose, Writers
<1>8. ASSUME NEW h \in Webhooks, NEW r \in TransferRequests,
             NEW e \in {"success", "failed"}, HookRead(h, r, e)
      PROVE  LedgerNext
  <2>1. on[r] \in Transactions
    BY <1>5, <1>8, EventRead DEF Course, Writers, CustodyTypeOK
  <2> QED  BY <1>2, <1>5, <1>8, <2>1 DEF HookRead, Writers
<1>9. CASE (\E h \in Handlers : RequestFails(h)) \/ ProcessEnds
  BY <1>3, <1>9 DEF RequestFails, ProcessEnds
<1> QED
  BY <1>1, <1>4, <1>6, <1>7, <1>8, <1>9
  DEF CustodyNext, AuthStep, TransferStep, HookStep, vars, Initiate, Expire,
      AuthRead, TransferRead, ComparePin, AuthSave, ReadSender, ReadRecipient,
      SwapRejected, Closed, StartDebit, SavePending, WithdrawFails,
      CustodianReports, HookEnd, HookSave, ReadRefund, SaveBalance, SwapFails,
      UnawaitedFails, Deposit, Crash

\* Before any request the inductive invariant holds.
LEMMA CustodyInvInit == CustodyInit => CustodyInv
<1> SUFFICES ASSUME CustodyInit  PROVE CustodyInv
  OBVIOUS
<1>1. LedgerInv
  BY LedgerInvInit DEF CustodyInit
<1>2. CustodyTypeOK
  BY <1>1, CustodyAssumption DEF CustodyInit, CustodyTypeOK, LedgerInv
<1>3. Shape /\ Course
  BY CustodyAssumption, WriteNames, LedgerAssumption
  DEF CustodyInit, Shape, Course, Handlers, Writers, Internal, Unmoved, Moving
<1>4. Authorised /\ Evidence
  BY CustodyAssumption
  DEF CustodyInit, Authorised, Evidence, TransferBacked, HookBacked, Handlers, Writers
<1>5. Linked /\ Recorded
  BY CustodyAssumption, CallNames
  DEF CustodyInit, LedgerInit, Linked, Recorded, Recording, Handlers, Writers, Calls
<1> QED  BY <1>1, <1>2, <1>3, <1>4, <1>5 DEF CustodyInv

\* Every step of every handler, and every stutter, keeps the invariant.
LEMMA CustodyInvStep == CustodyInv /\ [CustodyNext]_vars => CustodyInv'
<1> SUFFICES ASSUME CustodyInv, [CustodyNext]_vars  PROVE CustodyInv'
  OBVIOUS
<1>1. LedgerInv'
  BY LedgerUsed, LedgerInvStep DEF CustodyInv
<1>2. LedgerTypeOK'
  BY <1>1 DEF LedgerInv
<1> QED
  BY <1>1, <1>2, TypesStep, ShapeStep, CourseStep, AuthorisedStep, EvidenceStep,
     LinkedStep, RecordedStep
  DEF CustodyInv

\* The inductive invariant holds in every reachable state.
THEOREM CustodyInvariant == CustodySpec => []CustodyInv
  BY CustodyInvInit, CustodyInvStep, PTL DEF CustodySpec

\* Type correctness of the transfers, their handlers and their writes.
THEOREM CustodyTypeCorrect == CustodySpec => []CustodyTypeOK
  BY CustodyInvariant, PTL DEF CustodyInv

\* No coins leave an account and no withdrawal is asked for without a right pin,
\* for any number of requests and webhooks, in any order, with any failures.
THEOREM CoinsNeedThePin == CustodySpec => []PinBeforeCoins
<1>1. CustodyInv => PinBeforeCoins
  BY CustodyAssumption
    DEF CustodyInv, CustodyTypeOK, Course, Unmoved, Authorised, PinBeforeCoins, Writers
<1> QED  BY <1>1, CustodyInvariant, PTL

\* A transfer never shows what has not happened, however the request and the
\* webhooks overwrite one another.
THEOREM StatusesHaveEvidence == CustodySpec => []StatusEvidence
<1>1. CustodyInv => StatusEvidence
  <2> SUFFICES ASSUME CustodyInv  PROVE StatusEvidence
    OBVIOUS
  <2>1. ASSUME NEW t \in Transfers, NEW e \in {"success", "failed"}, Reported(e, t)
        PROVE  e \in {m[2] : m \in {n \in reported : on[n[1]] = t}}
    <3>1. PICK r \in withdrawals : on[r] = t /\ <<r, e>> \in reported
      BY <2>1 DEF Reported, Event
    <3>2. <<r, e>> \in {n \in reported : on[n[1]] = t}
      BY <3>1
    <3>3. <<r, e>>[2] = e
      OBVIOUS
    <3> QED  BY <3>2, <3>3
  <2>2. ASSUME NEW t \in Transfers  PROVE TransferBacked(t)
    BY <2>2 DEF CustodyInv, Evidence
  <2> QED
    BY <2>1, <2>2 DEF CustodyInv, CustodyTypeOK, StatusEvidence, TransferBacked, Moving
<1> QED  BY <1>1, CustodyInvariant, PTL

\* A refund is begun only for a withdrawal that failed and, unless an operation
\* failed, that took or is to take the coins.
THEOREM RefundsAreBacked == CustodySpec => []RefundsBacked
<1>1. CustodyInv => RefundsBacked
  <2> SUFFICES ASSUME CustodyInv, NEW h \in Webhooks, write[CreditOf(h)] # "none"
               PROVE  \E r \in withdrawals :
                        /\ on[r] = on[h] /\ <<r, "failed">> \in reported
                        /\ \/ pc[r] # "done" \/ on[r] \in faulted
                           \/ write[DebitOf(r)] \in {"saving", "saved"}
    BY DEF RefundsBacked
  <2>1. Reported("failed", on[h])
    BY DEF CustodyInv, Shape, Evidence, HookBacked
  <2>2. PICK r \in withdrawals : on[r] = on[h] /\ <<r, "failed">> \in reported
    BY <2>1 DEF Reported, Event
  <2>3. pc[r] = "done" => on[r] \in faulted \/ write[DebitOf(r)] \in {"saving", "saved"}
    BY DEF CustodyInv, Evidence
  <2> QED  BY <2>2, <2>3
<1> QED  BY <1>1, CustodyInvariant, PTL

\* A request alone on its transfer that ends without an error has its entries in
\* the ledger, whatever else is under way.
THEOREM MovementsAreRecorded == CustodySpec => []MovedIsRecorded
<1>1. CustodyInv => MovedIsRecorded
  <2> SUFFICES ASSUME CustodyInv, NEW r \in TransferRequests, pc[r] = "done",
                      on[r] \notin crossed \cup faulted
               PROVE  \E d \in LedgersOf(on[r]) :
                        RecordCall(r) \in recorded[d] /\ (Internal(r) => d \in posted)
    BY DEF MovedIsRecorded
  <2>1. Written(r) /\ (Internal(r) => RecordCall(r) \in posted)
    BY DEF CustodyInv, Recorded, Kept
  <2> QED  BY <2>1 DEF Written
<1> QED  BY <1>1, CustodyInvariant, PTL
-----------------------------------------------------------------------------
(***************************************************************************)
(* The balances.  While no two writes read an account before one of them   *)
(* saved, the one that is under way was computed from the balance there is.*)
(***************************************************************************)
UnderWay(w, a) == write[w] \in {"held", "saving"} /\ AccountOf(w) = a

Accounted ==
  \A a \in Accounts :
    /\ IsFiniteSet(DebitsOf(a)) /\ IsFiniteSet(CreditsOf(a)) /\ IsFiniteSet(RefundsOf(a))
    /\ a \in overlapped
       \/ /\ balance[a] = Booked(a)
          /\ \A w \in Writes : UnderWay(w, a) => seen[w] = balance[a]
          /\ \A v, w \in Writes : UnderWay(v, a) /\ UnderWay(w, a) => v = w

\* Which account a write is of, and what it moves.
LEMMA AccountNames ==
  /\ \A r \in TransferRequests :
       /\ AccountOf(DebitOf(r)) = Sender[on[r]] /\ Moved(DebitOf(r)) = -Total(on[r])
       /\ AccountOf(CreditOf(r)) = Recipient[on[r]] /\ Moved(CreditOf(r)) = Amount[on[r]]
  /\ \A h \in Webhooks :
       AccountOf(CreditOf(h)) = Sender[on[h]] /\ Moved(CreditOf(h)) = Total(on[h])
  BY CustodyAssumption DEF AccountOf, Moved, DebitOf, CreditOf

\* A handler with a write has a transfer, and keeps it.
LEMMA WritersHaveTransfers ==
  ASSUME CustodyTypeOK, Shape, Course
  PROVE  \A h \in Writers :
           write[DebitOf(h)] # "none" \/ write[CreditOf(h)] # "none" =>
             pc[h] # "idle" /\ on[h] \in Transfers
  BY DEF Shape, Course, Unmoved, Writers, Handlers

\* The handlers of a are in Transfers, so what they move are numbers.
LEMMA BookedNumbers ==
  ASSUME CustodyTypeOK, Shape, Course
  PROVE  /\ \A t \in Transfers : Total(t) \in Int /\ Amount[t] \in Int
         /\ \A a : \A h \in DebitsOf(a) \cup CreditsOf(a) \cup RefundsOf(a) :
                     h \in Writers /\ on[h] \in Transfers
<1>1. \A t \in Transfers : Total(t) \in Int /\ Amount[t] \in Int
  BY CustodyAssumption DEF Total
<1>2. \A a : \A h \in DebitsOf(a) \cup CreditsOf(a) \cup RefundsOf(a) :
               h \in Writers /\ on[h] \in Transfers
  BY WritersHaveTransfers DEF DebitsOf, CreditsOf, RefundsOf, Writers
<1> QED BY <1>1, <1>2

\* Saves that are neither made nor taken back leave what is booked.
LEMMA BookedLeft ==
  ASSUME NEW a, \A h \in Writers :
           /\ write'[DebitOf(h)] = "saved" <=> write[DebitOf(h)] = "saved"
           /\ write'[CreditOf(h)] = "saved" <=> write[CreditOf(h)] = "saved"
           /\ write[DebitOf(h)] = "saved" \/ write[CreditOf(h)] = "saved"
                => on'[h] = on[h]
  PROVE  /\ Booked(a)' = Booked(a) /\ DebitsOf(a)' = DebitsOf(a)
         /\ CreditsOf(a)' = CreditsOf(a) /\ RefundsOf(a)' = RefundsOf(a)
<1>1. /\ DebitsOf(a)' = DebitsOf(a) /\ CreditsOf(a)' = CreditsOf(a)
      /\ RefundsOf(a)' = RefundsOf(a)
  BY DEF DebitsOf, CreditsOf, RefundsOf, Writers, DebitOf, CreditOf
<1>2. /\ \A h \in DebitsOf(a) \cup CreditsOf(a) \cup RefundsOf(a) : on'[h] = on[h]
  BY DEF DebitsOf, CreditsOf, RefundsOf, Writers
<1>3. /\ Spent(DebitsOf(a))' = Spent(DebitsOf(a))
      /\ Got(CreditsOf(a))' = Got(CreditsOf(a))
      /\ Spent(RefundsOf(a))' = Spent(RefundsOf(a))
  BY <1>1, <1>2 DEF Spent, Got, Total
<1> QED BY <1>1, <1>3 DEF Booked

\* A step that saves nothing and reads no balance.
LEMMA AccountsLeft ==
  ASSUME CustodyTypeOK, Shape, Course, Accounted, UNCHANGED balance,
         overlapped \subseteq overlapped',
         \A w \in Writes :
           /\ write'[w] = "saved" <=> write[w] = "saved"
           /\ write'[w] \in {"held", "saving"} =>
                write[w] \in {"held", "saving"} /\ seen'[w] = seen[w],
         \A h \in Writers : pc[h] # "idle" => on'[h] = on[h]
  PROVE  Accounted'
<1>1. \A h \in Writers :
           /\ write'[DebitOf(h)] = "saved" <=> write[DebitOf(h)] = "saved"
           /\ write'[CreditOf(h)] = "saved" <=> write[CreditOf(h)] = "saved"
           /\ write[DebitOf(h)] # "none" \/ write[CreditOf(h)] # "none"
                => on'[h] = on[h]
  BY WriteNames, WritersHaveTransfers
<1>2. \A a : \A w \in Writes : UnderWay(w, a)' => UnderWay(w, a) /\ seen'[w] = seen[w]
  <2> SUFFICES ASSUME NEW w \in Writes, NEW a, UnderWay(w, a)'
               PROVE  UnderWay(w, a) /\ seen'[w] = seen[w]
    OBVIOUS
  <2>1. write[w] \in {"held", "saving"} /\ seen'[w] = seen[w]
    BY DEF UnderWay
  <2>2. w[1] \in Writers /\ on'[w[1]] = on[w[1]]
    BY <1>1, <2>1, WriteNames
  <2> QED BY <2>1, <2>2 DEF UnderWay, AccountOf
<1>3. \A a : /\ Booked(a)' = Booked(a) /\ DebitsOf(a)' = DebitsOf(a)
             /\ CreditsOf(a)' = CreditsOf(a) /\ RefundsOf(a)' = RefundsOf(a)
  BY <1>1, BookedLeft
<1> QED BY <1>2, <1>3 DEF Accounted

\* One more handler adds what it moves.
LEMMA SpentAdds ==
  ASSUME NEW H, NEW h, IsFiniteSet(H), h \notin H, \A x \in H \cup {h} : Total(on[x]) \in Int
  PROVE  /\ SumFunction(Spent(H)) \in Int
         /\ SumFunction(Spent(H \cup {h})) = SumFunction(Spent(H)) + Total(on[h])
<1> DEFINE f == Spent(H)
           g == Spent(H \cup {h})
<1>1. DOMAIN f = H /\ DOMAIN g = H \cup {h} /\ g[h] = Total(on[h])
  BY DEF Spent
<1>2. /\ \A x \in H : f[x] \in Int /\ g[x] = f[x]
      /\ \A x \in H \cup {h} : g[x] \in Int
  BY DEF Spent
<1> HIDE DEF f, g
<1>3. SumFunctionOnSet(g, H) = SumFunctionOnSet(f, H)
  BY <1>2, SumSame
<1>4. SumFunctionOnSet(g, H \cup {h}) = SumFunctionOnSet(g, H) + g[h]
  BY <1>2, SumAdds
<1>5. SumFunctionOnSet(f, H) \in Int
  BY <1>2, SumFolds
<1> QED BY <1>1, <1>3, <1>4, <1>5 DEF SumFunction, f, g

\* The same of what credits of a swap add.
LEMMA GotAdds ==
  ASSUME NEW H, NEW h, IsFiniteSet(H), h \notin H, \A x \in H \cup {h} : Amount[on[x]] \in Int
  PROVE  /\ SumFunction(Got(H)) \in Int
         /\ SumFunction(Got(H \cup {h})) = SumFunction(Got(H)) + Amount[on[h]]
<1> DEFINE f == Got(H)
           g == Got(H \cup {h})
<1>1. DOMAIN f = H /\ DOMAIN g = H \cup {h} /\ g[h] = Amount[on[h]]
  BY DEF Got
<1>2. /\ \A x \in H : f[x] \in Int /\ g[x] = f[x]
      /\ \A x \in H \cup {h} : g[x] \in Int
  BY DEF Got
<1> HIDE DEF f, g
<1>3. SumFunctionOnSet(g, H) = SumFunctionOnSet(f, H)
  BY <1>2, SumSame
<1>4. SumFunctionOnSet(g, H \cup {h}) = SumFunctionOnSet(g, H) + g[h]
  BY <1>2, SumAdds
<1>5. SumFunctionOnSet(f, H) \in Int
  BY <1>2, SumFolds
<1> QED BY <1>1, <1>3, <1>4, <1>5 DEF SumFunction, f, g

\* What is booked of account a is a number.
LEMMA BookedIsNumber ==
  ASSUME CustodyTypeOK, Shape, Course, Accounted, NEW a \in Accounts
  PROVE  /\ SumFunction(Spent(DebitsOf(a))) \in Int /\ SumFunction(Got(CreditsOf(a))) \in Int
         /\ SumFunction(Spent(RefundsOf(a))) \in Int /\ OpeningBalance[a] \in Int
<1>1. IsFiniteSet(DebitsOf(a)) /\ IsFiniteSet(CreditsOf(a)) /\ IsFiniteSet(RefundsOf(a))
  BY DEF Accounted
<1>2. /\ \A h \in DebitsOf(a) \cup RefundsOf(a) : Total(on[h]) \in Int
      /\ \A h \in CreditsOf(a) : Amount[on[h]] \in Int
  BY BookedNumbers
<1>3. SumFunction(Spent(DebitsOf(a))) \in Int
  BY <1>1, <1>2, SumFolds DEF SumFunction, Spent
<1>4. SumFunction(Got(CreditsOf(a))) \in Int
  BY <1>1, <1>2, SumFolds DEF SumFunction, Got
<1>5. SumFunction(Spent(RefundsOf(a))) \in Int
  BY <1>1, <1>2, SumFolds DEF SumFunction, Spent
<1> QED BY <1>3, <1>4, <1>5, CustodyAssumption

\* A read, of a balance that no other write is computed from or that is then overlapped.
LEMMA ReadsKeepAccounted ==
  ASSUME CustodyTypeOK, Shape, Course, Accounted,
         NEW w \in Writes, NEW a \in Accounts, NEW W \in SUBSET Writes,
         NEW s \in {"held", "saving"}, w \in W, AccountOf(w) = a, Reads(w, a, W, s),
         write[w] \notin {"held", "saving", "saved"},
         \A v \in W \ {w} : write[v] \in {"held", "saving"}, UNCHANGED <<balance, on>>
  PROVE  Accounted'
<1>1. \A v \in Writes :
        /\ write'[v] = "saved" <=> write[v] = "saved"
        /\ write'[v] \in {"held", "saving"} /\ v # w => write[v] \in {"held", "saving"}
        /\ v # w => seen'[v] = seen[v]
        /\ seen'[w] = balance[a]
  BY DEF Reads, CustodyTypeOK
<1>2. /\ overlapped \subseteq overlapped'
      /\ a \in overlapped' \/ \A v \in Writes : ~ UnderWay(v, a)
  BY DEF Reads, UnderWay
<1>3. \A b : \A v \in Writes :
        UnderWay(v, b)' => (UnderWay(v, b) /\ v # w) \/ (v = w /\ b = a)
  BY <1>1 DEF UnderWay, AccountOf
<1>4. \A b : /\ Booked(b)' = Booked(b) /\ DebitsOf(b)' = DebitsOf(b)
             /\ CreditsOf(b)' = CreditsOf(b) /\ RefundsOf(b)' = RefundsOf(b)
  BY <1>1, BookedLeft, WriteNames
<1> QED BY <1>1, <1>2, <1>3, <1>4 DEF Accounted

\* A save, the only one under way of its account unless that is overlapped.
LEMMA SaveKeepsAccounted ==
  ASSUME CustodyTypeOK, Shape, Course, Accounted, NEW w \in Writes, SaveBalance(w)
  PROVE  Accounted'
<1> DEFINE h == w[1]
<1>1. /\ write[w] = "saving" /\ write' = [write EXCEPT ![w] = "saved"]
      /\ balance' = [balance EXCEPT ![AccountOf(w)] = seen[w] + Moved(w)]
      /\ UNCHANGED <<seen, overlapped, on>>
  BY DEF SaveBalance, request
<1>2. h \in Writers /\ on[h] \in Transfers /\ (w = DebitOf(h) \/ w = CreditOf(h))
  BY <1>1, WriteNames, WritersHaveTransfers
<1>3. \/ h \in TransferRequests /\ w = DebitOf(h)
      \/ h \in TransferRequests /\ w = CreditOf(h)
      \/ h \in Webhooks /\ w = CreditOf(h)
  BY <1>1, <1>2 DEF Shape, Writers
<1>4. AccountOf(w) \in Accounts /\ Moved(w) \in Int
  <2>1. h \in TransferRequests /\ w = CreditOf(h) => on[h] \in InternalTransfers
    BY <1>1 DEF Course, Internal
  <2> QED BY <1>2, <1>3, <2>1, AccountNames, BookedNumbers, CustodyAssumption
<1> PICK a \in Accounts : a = AccountOf(w)
  BY <1>4
<1>5. \A v \in Writes : write'[v] = (IF v = w THEN "saved" ELSE write[v])
  BY <1>1 DEF CustodyTypeOK
<1>6. \A b : \A v \in Writes :
        UnderWay(v, b)' => v # w /\ UnderWay(v, b) /\ seen'[v] = seen[v]
  BY <1>1, <1>5 DEF UnderWay, AccountOf
<1>7. ASSUME NEW b \in Accounts, b # a
      PROVE  /\ Booked(b)' = Booked(b) /\ DebitsOf(b)' = DebitsOf(b)
             /\ CreditsOf(b)' = CreditsOf(b) /\ RefundsOf(b)' = RefundsOf(b)
  <2>1. /\ DebitsOf(b)' = DebitsOf(b) /\ CreditsOf(b)' = CreditsOf(b)
        /\ RefundsOf(b)' = RefundsOf(b)
    <3>1. \A r \in TransferRequests :
            /\ w = DebitOf(r) => Sender[on[r]] # b
            /\ w = CreditOf(r) => Recipient[on[r]] # b
      BY <1>7, AccountNames
    <3>2. \A g \in Webhooks : w = CreditOf(g) => Sender[on[g]] # b
      BY <1>7, AccountNames
    <3> QED BY <1>1, <1>5, <3>1, <3>2, WriteNames
            DEF DebitsOf, CreditsOf, RefundsOf, Writers
  <2>2. /\ Spent(DebitsOf(b))' = Spent(DebitsOf(b))
        /\ Got(CreditsOf(b))' = Got(CreditsOf(b))
        /\ Spent(RefundsOf(b))' = Spent(RefundsOf(b))
    BY <1>1, <2>1 DEF Spent, Got, Total
  <2> QED BY <2>1, <2>2 DEF Booked
<1>8. /\ h \in TransferRequests /\ w = DebitOf(h) =>
           /\ h \notin DebitsOf(a) /\ DebitsOf(a)' = DebitsOf(a) \cup {h}
           /\ CreditsOf(a)' = CreditsOf(a) /\ RefundsOf(a)' = RefundsOf(a)
      /\ h \in TransferRequests /\ w = CreditOf(h) =>
           /\ h \notin CreditsOf(a) /\ CreditsOf(a)' = CreditsOf(a) \cup {h}
           /\ DebitsOf(a)' = DebitsOf(a) /\ RefundsOf(a)' = RefundsOf(a)
      /\ h \in Webhooks /\ w = CreditOf(h) =>
           /\ h \notin RefundsOf(a) /\ RefundsOf(a)' = RefundsOf(a) \cup {h}
           /\ DebitsOf(a)' = DebitsOf(a) /\ CreditsOf(a)' = CreditsOf(a)
  <2> HIDE DEF h
  <2>1. CASE h \in TransferRequests /\ w = DebitOf(h)
    <3>1. \A g \in Writers :
            /\ write'[DebitOf(g)] = "saved" <=> g = h \/ write[DebitOf(g)] = "saved"
            /\ write'[CreditOf(g)] = write[CreditOf(g)]
      BY <1>1, <1>5, <2>1, WriteNames DEF Writers
    <3>2. h \in Writers /\ Sender[on[h]] = a /\ write[DebitOf(h)] # "saved"
      BY <1>1, <2>1, AccountNames DEF Writers
    <3> QED BY <1>1, <2>1, <3>1, <3>2, CustodyAssumption
            DEF DebitsOf, CreditsOf, RefundsOf, Writers
  <2>2. CASE h \in TransferRequests /\ w = CreditOf(h)
    <3>1. \A g \in Writers :
            /\ write'[CreditOf(g)] = "saved" <=> g = h \/ write[CreditOf(g)] = "saved"
            /\ write'[DebitOf(g)] = write[DebitOf(g)]
      BY <1>1, <1>5, <2>2, WriteNames DEF Writers
    <3>2. h \in Writers /\ Recipient[on[h]] = a /\ write[CreditOf(h)] # "saved"
      BY <1>1, <2>2, AccountNames DEF Writers
    <3> QED BY <1>1, <2>2, <3>1, <3>2, CustodyAssumption
            DEF DebitsOf, CreditsOf, RefundsOf, Writers
  <2>3. CASE h \in Webhooks /\ w = CreditOf(h)
    <3>1. \A g \in Writers :
            /\ write'[CreditOf(g)] = "saved" <=> g = h \/ write[CreditOf(g)] = "saved"
            /\ write'[DebitOf(g)] = write[DebitOf(g)]
      BY <1>1, <1>5, <2>3, WriteNames DEF Writers
    <3>2. h \in Writers /\ Sender[on[h]] = a /\ write[CreditOf(h)] # "saved"
      BY <1>1, <2>3, AccountNames DEF Writers
    <3> QED BY <1>1, <2>3, <3>1, <3>2, CustodyAssumption
            DEF DebitsOf, CreditsOf, RefundsOf, Writers
  <2> QED BY <1>3, <2>1, <2>2, <2>3, WriteNames, CustodyAssumption DEF Writers
<1>9. /\ IsFiniteSet(DebitsOf(a))' /\ IsFiniteSet(CreditsOf(a))' /\ IsFiniteSet(RefundsOf(a))'
  BY <1>3, <1>4, <1>8, FS_AddElement DEF Accounted
<1>10. Booked(a)' = Booked(a) + Moved(w)
  <2>1. \A H : Spent(H)' = Spent(H) /\ Got(H)' = Got(H)
    BY <1>1 DEF Spent, Got, Total
  <2> DEFINE D == SumFunction(Spent(DebitsOf(a)))
             C == SumFunction(Got(CreditsOf(a)))
             R == SumFunction(Spent(RefundsOf(a)))
  <2>2. /\ D \in Int /\ C \in Int /\ R \in Int /\ OpeningBalance[a] \in Int
        /\ Total(on[h]) \in Int /\ Amount[on[h]] \in Int
    BY <1>2, <1>4, BookedIsNumber, BookedNumbers
  <2>3. CASE h \in TransferRequests /\ w = DebitOf(h)
    <3>1. SumFunction(Spent(DebitsOf(a) \cup {h})) = D + Total(on[h])
      BY <1>2, <1>4, <1>8, <2>3, SpentAdds, BookedNumbers DEF Accounted
    <3>2. Moved(w) = -Total(on[h])
      BY <2>3, AccountNames
    <3>3. Booked(a)' = OpeningBalance[a] - (D + Total(on[h])) + C + R
      BY <1>1, <1>8, <2>1, <2>3, <3>1 DEF Booked
    <3> HIDE DEF D, C, R
    <3>4. Booked(a) = OpeningBalance[a] - D + C + R
      BY DEF Booked, D, C, R
    <3> QED BY <2>2, <3>2, <3>3, <3>4
  <2>4. CASE h \in TransferRequests /\ w = CreditOf(h)
    <3>1. SumFunction(Got(CreditsOf(a) \cup {h})) = C + Amount[on[h]]
      BY <1>2, <1>4, <1>8, <2>4, GotAdds, BookedNumbers DEF Accounted
    <3>2. Moved(w) = Amount[on[h]]
      BY <2>4, AccountNames
    <3>3. Booked(a)' = OpeningBalance[a] - D + (C + Amount[on[h]]) + R
      BY <1>1, <1>8, <2>1, <2>4, <3>1 DEF Booked
    <3> HIDE DEF D, C, R
    <3>4. Booked(a) = OpeningBalance[a] - D + C + R
      BY DEF Booked, D, C, R
    <3> QED BY <2>2, <3>2, <3>3, <3>4
  <2>5. CASE h \in Webhooks /\ w = CreditOf(h)
    <3>1. SumFunction(Spent(RefundsOf(a) \cup {h})) = R + Total(on[h])
      BY <1>2, <1>4, <1>8, <2>5, SpentAdds, BookedNumbers DEF Accounted
    <3>2. Moved(w) = Total(on[h])
      BY <2>5, AccountNames
    <3>3. Booked(a)' = OpeningBalance[a] - D + C + (R + Total(on[h]))
      BY <1>1, <1>8, <2>1, <2>5, <3>1 DEF Booked
    <3> HIDE DEF D, C, R
    <3>4. Booked(a) = OpeningBalance[a] - D + C + R
      BY DEF Booked, D, C, R
    <3> QED BY <2>2, <3>2, <3>3, <3>4
  <2> QED BY <1>3, <2>3, <2>4, <2>5
<1>11. a \in overlapped \/ balance'[a] = Booked(a)'
  <2>1. a \in overlapped \/ (balance[a] = Booked(a) /\ seen[w] = balance[a])
    BY <1>1, <1>4 DEF Accounted, UnderWay
  <2>2. balance'[a] = seen[w] + Moved(w)
    BY <1>1, <1>4 DEF CustodyTypeOK
  <2> QED BY <1>10, <2>1, <2>2
<1>12. a \in overlapped \/ \A v \in Writes : ~ UnderWay(v, a)'
  BY <1>1, <1>4, <1>6 DEF Accounted, UnderWay
<1>13. \A b \in Accounts : b # a => balance'[b] = balance[b]
  BY <1>1, <1>4 DEF CustodyTypeOK
<1>14. ASSUME NEW b \in Accounts, b # a
       PROVE  /\ IsFiniteSet(DebitsOf(b))' /\ IsFiniteSet(CreditsOf(b))'
              /\ IsFiniteSet(RefundsOf(b))'
              /\ b \in overlapped'
                 \/ /\ balance'[b] = Booked(b)'
                    /\ \A v \in Writes : UnderWay(v, b)' => seen'[v] = balance'[b]
                    /\ \A u, v \in Writes : UnderWay(u, b)' /\ UnderWay(v, b)' => u = v
  BY <1>1, <1>6, <1>7, <1>13, <1>14 DEF Accounted
<1> QED BY <1>1, <1>9, <1>11, <1>12, <1>14 DEF Accounted

\* The accounts stay exact, or two writes have held one at once.
LEMMA AccountedStep ==
  ASSUME CustodyTypeOK, Shape, Course, Accounted, [CustodyNext]_vars
  PROVE  Accounted'
<1> USE DEF Handlers, Writers
<1>1. CASE UNCHANGED <<balance, write, seen, overlapped, on>>
  BY <1>1, AccountsLeft
<1>2. CASE UNCHANGED <<balances, request>>
  BY <1>1, <1>2 DEF balances, request
<1>3. CASE UNCHANGED vars
  BY <1>2, <1>3 DEF vars, custodyVars
<1>4. ASSUME NEW t \in Transfers, Initiate(t) \/ Expire(t)  PROVE Accounted'
  BY <1>2, <1>4 DEF Initiate, Expire
<1>5. ASSUME NEW h \in Handlers, pc[h] = "idle", NEW t, on' = [on EXCEPT ![h] = t],
             UNCHANGED balances
      PROVE  Accounted'
  BY <1>5, AccountsLeft DEF CustodyTypeOK, balances
<1>6. ASSUME NEW a \in AuthRequests, NEW t \in Transfers, AuthRead(a, t)  PROVE Accounted'
  BY <1>5, <1>6 DEF AuthRead
<1>7. ASSUME NEW r \in TransferRequests, NEW t \in Transfers, TransferRead(r, t)
      PROVE  Accounted'
  BY <1>5, <1>7 DEF TransferRead
<1>8. ASSUME NEW a \in AuthRequests, AuthStep(a)  PROVE Accounted'
  BY <1>1, <1>8 DEF AuthStep, ComparePin, AuthSave, balances
<1>9. ASSUME NEW r \in TransferRequests,
             Swapped(r) \/ SwapRejected(r) \/ Complete(r) \/ Closed(r) \/ Withdraw(r)
             \/ SavePending(r)
      PROVE  Accounted'
  BY <1>1, <1>9 DEF Swapped, SwapRejected, Complete, Closed, Withdraw, SavePending,
     balances
<1>10. ASSUME NEW r \in TransferRequests, NEW e \in {"success", "failed"},
              CustodianReports(r, e)
       PROVE  Accounted'
  BY <1>2, <1>10 DEF CustodianReports
<1>11. ASSUME NEW r \in TransferRequests, NEW e \in {"success", "failed"},
              NEW h \in Webhooks, HookRead(h, r, e)
       PROVE  Accounted'
  BY <1>5, <1>11 DEF HookRead
<1>12. ASSUME NEW h \in Webhooks, HookClose(h) \/ HookSave(h)  PROVE Accounted'
  BY <1>1, <1>12 DEF HookClose, HookSave, balances
<1>13. ASSUME NEW d \in Deposits, Deposit(d)  PROVE Accounted'
  BY <1>2, <1>13 DEF Deposit
<1>14. ASSUME NEW c \in Calls, LedgerRuns(c)  PROVE Accounted'
  BY <1>2, <1>14 DEF LedgerRuns, custodyVars
<1>15. ASSUME UNCHANGED <<balance, seen, overlapped, on>>,
              \A w \in Writes :
                \/ write'[w] = write[w]
                \/ write[w] # "saved" /\ write'[w] \notin {"held", "saving", "saved"}
       PROVE  Accounted'
  BY <1>15, AccountsLeft
<1>16. ASSUME NEW h, Drop(h), UNCHANGED <<balance, seen, overlapped, on>>
       PROVE  Accounted'
  BY <1>15, <1>16 DEF Drop
<1>17. ASSUME NEW h \in Handlers, RequestFails(h)  PROVE Accounted'
  BY <1>16, <1>17 DEF RequestFails
<1>18. ASSUME NEW r \in TransferRequests, WithdrawFails(r)  PROVE Accounted'
  BY <1>16, <1>18 DEF WithdrawFails
<1>19. CASE ProcessEnds
  BY <1>15, <1>19 DEF ProcessEnds
<1>20. ASSUME NEW w \in Writes, SwapFails(w)  PROVE Accounted'
  BY <1>15, <1>20 DEF CustodyTypeOK, SwapFails, request
<1>21. ASSUME NEW h \in Webhooks, HookEnd(h)  PROVE Accounted'
  <2>1. write[CreditOf(h)] = "none"
    BY <1>21 DEF Shape, HookEnd
  <2> QED BY <1>15, <1>21, <2>1 DEF CustodyTypeOK, HookEnd
<1>22. ASSUME NEW r \in TransferRequests, StartDebit(r)  PROVE Accounted'
  <2>1. write[DebitOf(r)] = "held"
    BY <1>22 DEF Course, StartDebit
  <2> QED BY <1>22, <2>1, AccountsLeft DEF CustodyTypeOK, StartDebit
<1>23. ASSUME NEW r \in TransferRequests, ReadSender(r)  PROVE Accounted'
  <2>1. pc[r] = "sender" /\ Reads(DebitOf(r), Sender[on[r]], {DebitOf(r)}, "held")
        /\ UNCHANGED <<balance, on>>
    BY <1>23 DEF ReadSender
  <2>2. write[DebitOf(r)] = "none" /\ on[r] \in Transfers
    BY <2>1 DEF Course, Unmoved, Shape
  <2>3. Sender[on[r]] \in Accounts /\ AccountOf(DebitOf(r)) = Sender[on[r]]
    BY <2>2, AccountNames, CustodyAssumption
  <2>4. DebitOf(r) \in Writes
    BY WriteNames
  <2> QED BY <2>1, <2>2, <2>3, <2>4, ReadsKeepAccounted
<1>24. ASSUME NEW r \in TransferRequests, ReadRecipient(r)  PROVE Accounted'
  <2>1. /\ pc[r] = "recipient" /\ UNCHANGED <<balance, on>>
        /\ Reads(CreditOf(r), Recipient[on[r]], {DebitOf(r), CreditOf(r)}, "saving")
    BY <1>24 DEF ReadRecipient
  <2>2. /\ write[CreditOf(r)] = "none" /\ write[DebitOf(r)] = "held"
        /\ on[r] \in InternalTransfers
    BY <2>1 DEF Course, Shape, Internal
  <2>3. Recipient[on[r]] \in Accounts /\ AccountOf(CreditOf(r)) = Recipient[on[r]]
    BY <2>2, AccountNames, CustodyAssumption
  <2>4. DebitOf(r) \in Writes /\ CreditOf(r) \in Writes
    BY WriteNames
  <2> QED BY <2>1, <2>2, <2>3, <2>4, ReadsKeepAccounted
<1>25. ASSUME NEW h \in Webhooks, ReadRefund(h)  PROVE Accounted'
  <2>1. /\ write[CreditOf(h)] = "wanted" /\ UNCHANGED <<balance, on>>
        /\ Reads(CreditOf(h), Sender[on[h]], {CreditOf(h)}, "saving")
    BY <1>25 DEF ReadRefund, request
  <2>2. on[h] \in Transfers
    BY <2>1 DEF Shape
  <2>3. Sender[on[h]] \in Accounts /\ AccountOf(CreditOf(h)) = Sender[on[h]]
    BY <2>2, AccountNames, CustodyAssumption
  <2>4. CreditOf(h) \in Writes
    BY WriteNames
  <2> QED BY <2>1, <2>3, <2>4, ReadsKeepAccounted
<1> QED
  BY <1>3, <1>4, <1>6, <1>7, <1>8, <1>9, <1>10, <1>11, <1>12, <1>13, <1>14, <1>17, <1>18,
     <1>19, <1>20, <1>21, <1>22, <1>23, <1>24, <1>25, SaveKeepsAccounted
  DEF CustodyNext, TransferStep, HookStep, UnawaitedFails, Crash

\* Each account holds what was saved in it, unless two writes held the same balance.
THEOREM BalancesAreAccounted == CustodySpec => []BalancesExact
<1>1. CustodyInit => Accounted
  <2> SUFFICES ASSUME CustodyInit  PROVE Accounted
    OBVIOUS
  <2>1. balance = OpeningBalance /\ \A w \in Writes : write[w] = "none"
    BY DEF CustodyInit
  <2>2. ASSUME NEW a \in Accounts
        PROVE  DebitsOf(a) = {} /\ CreditsOf(a) = {} /\ RefundsOf(a) = {}
    BY <2>1, WriteNames DEF DebitsOf, CreditsOf, RefundsOf, Writers
  <2>3. IsFiniteSet({}) /\ SumFunction(Spent({})) = 0 /\ SumFunction(Got({})) = 0
    <3>1. DOMAIN Spent({}) = {} /\ DOMAIN Got({}) = {} /\ IsFiniteSet({})
      BY FS_EmptySet DEF Spent, Got
    <3> QED BY <3>1, SumFolds DEF SumFunction
  <2>4. \A a \in Accounts : OpeningBalance[a] \in Int
    BY CustodyAssumption
  <2>5. ASSUME NEW a \in Accounts  PROVE Booked(a) = OpeningBalance[a]
    <3>1. Booked(a) = OpeningBalance[a] - 0 + 0 + 0
      BY <2>2, <2>3 DEF Booked
    <3> QED BY <2>4, <3>1
  <2>6. \A w \in Writes, a \in Accounts : ~ UnderWay(w, a)
    BY <2>1 DEF UnderWay
  <2> QED BY <2>1, <2>2, <2>3, <2>5, <2>6 DEF Accounted
<1>2. CustodyInv /\ Accounted /\ [CustodyNext]_vars => Accounted'
  BY AccountedStep DEF CustodyInv
<1>3. Accounted => BalancesExact
  BY DEF Accounted, BalancesExact
<1> QED BY <1>1, <1>2, <1>3, CustodyInvariant, PTL DEF CustodySpec
=============================================================================
