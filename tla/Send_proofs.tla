---------------------------- MODULE Send_proofs ----------------------------
(***************************************************************************)
(* The safety of Send for any payments, requests, webhooks, prices and     *)
(* failures, and that it implements PayoutPromise.                         *)
(*                                                                         *)
(* SendInv is the inductive invariant: the types, the ledger's own         *)
(* invariant, and                                                          *)
(*   Shape       what a handler's program counter says about it,           *)
(*   Authorised  how far anything gets without a correct pin,              *)
(*   Evidence    what stands behind a status or a provider event,          *)
(*   Alone       what a request may count on while its payment is neither  *)
(*               contended nor faulted: the status it read still holds.    *)
(* Further invariants rest on it: Refused, that a payment to be funded     *)
(* from outside gets no further than its reads; Recording, how far the     *)
(* ledger of a withdrawal has got while one send works on it alone; and    *)
(* Balanced, that a send about to take coins holds the balance there is.   *)
(***************************************************************************)
EXTENDS Send, Ledger_proofs, Sums

Spending == {"record", "close", "saveFunded", "unsaved"}

Shape ==
  /\ \A h \in Handlers : pc[h] # "idle" => pay[h] \in Payments
  /\ \A a \in AuthRequests : pc[a] \in AuthSteps \cup {"idle", "done"}
  /\ \A r \in SendRequests :
       /\ pc[r] \in SendSteps \cup {"idle", "done"}
       /\ pc[r] \in Spending => r \in debits
       /\ r \in debits => pc[r] \in Spending \cup {"done"}
       /\ background[r] # "none" => r \in debits
  /\ \A h \in Webhooks : pc[h] \in {"idle", "saveStatus", "done"}
  /\ \A p \in Payments :
       stage[p] = "new" => offramp[p] = "none" /\ \A h \in Handlers : pay[h] # p

Authorised ==
  /\ \A a \in pinOk : pc[a] # "idle"
  /\ \A a \in AuthRequests : pc[a] \in {"saveWithdrawal", "saveOfframp"} => a \in pinOk
  /\ \A p \in Payments :
       offramp[p] \notin {"none", "initiated"} => p \in PaymentsOf(pinOk)
  /\ \A r \in SendRequests :
       pc[r] \notin {"idle", "read", "done"} \/ r \in debits
         => pay[r] \in PaymentsOf(pinOk)
  /\ payouts \subseteq debits

Backed(s, p) ==
  /\ s \in Settled
  /\ s = "completed" => "complete" \in rail[p]
  /\ s = "failed" => rail[p] \cap {"failed", "pendingApproval"} # {}

Evidence ==
  /\ StatusEvidence
  /\ \A p \in Payments : rail[p] # {} => p \in PaymentsOf(payouts)
  /\ \A h \in Webhooks :
       pc[h] = "saveStatus" =>
         Backed(statusTo[h], pay[h]) /\ pay[h] \in PaymentsOf(debits)

Calm(p) == p \notin contended \cup faulted

Alone ==
  /\ \A g, h \in Requests :
       g # h /\ pay[g] = pay[h] /\ pc[g] \notin Resting /\ pc[h] \notin Resting
         => pay[g] \in contended
  /\ \A r \in SendRequests : pc[r] = "unsaved" => pay[r] \in faulted
  /\ \A r \in debits :
       pc[r] \in Resting /\ Calm(pay[r]) => offramp[pay[r]] \in Settled
  /\ \A a \in AuthRequests :
       pc[a] \in AuthSteps \ {"read"} /\ Calm(pay[a])
         => offramp[pay[a]] = "initiated"
  /\ \A r \in SendRequests :
       pc[r] \in {"readWithdrawal", "readTransfer", "readWallet", "debit"}
         /\ Calm(pay[r]) => offramp[pay[r]] = "authorized"
  /\ AtMostOneDebit

SendInv ==
  SendTypeOK /\ LedgerInv /\ Shape /\ Authorised /\ Evidence /\ Alone

-----------------------------------------------------------------------------
\* Each step assigns values of the right types; the ledger's are its own matter.
LEMMA TypesStep ==
  ASSUME SendTypeOK, LedgerTypeOK', Shape, Evidence, [SendNext]_vars
  PROVE  SendTypeOK'
<1>1. CASE UNCHANGED sendVars
  BY <1>1 DEF SendTypeOK, sendVars, docs, request, outside, history
<1>2. ASSUME NEW p \in Payments, CreateOfframp(p)  PROVE SendTypeOK'
  BY <1>2 DEF SendTypeOK, OfframpStatuses, CreateOfframp, request, history
<1>3. ASSUME NEW p \in Payments, CheckBalance(p)  PROVE SendTypeOK'
  BY <1>3 DEF SendTypeOK, CheckBalance, docs, request, history
<1>4. ASSUME NEW p \in Payments, CreateWithdrawal(p)  PROVE SendTypeOK'
  BY <1>4 DEF SendTypeOK, WithdrawalStatuses, CreateWithdrawal, request,
     history
<1>5. ASSUME NEW p \in Payments, IssueToken(p)  PROVE SendTypeOK'
  BY <1>5 DEF SendTypeOK, IssueToken, docs, request, history
<1>6. ASSUME NEW p \in Payments, InitiationFails(p)  PROVE SendTypeOK'
  BY <1>6 DEF SendTypeOK, InitiationFails, docs, request, history
<1>7. ASSUME NEW p \in Payments, GrowOld(p)  PROVE SendTypeOK'
  BY <1>7, SendAssumption DEF SendTypeOK, GrowOld, docs, request, history
<1>8. ASSUME NEW p \in Payments, NEW h \in Requests, Arrive(h, p)
      PROVE  SendTypeOK'
  BY <1>8 DEF SendTypeOK, SendSteps, Handlers, Arrive, docs, outside, Goes
<1>9. ASSUME NEW a \in AuthRequests, AuthRead(a)  PROVE SendTypeOK'
  BY <1>9 DEF SendTypeOK, SendSteps, Handlers, Requests, AuthRead, docs,
     outside, history, Goes
<1>10. ASSUME NEW a \in AuthRequests, AuthReadWithdrawal(a)  PROVE SendTypeOK'
  BY <1>10 DEF SendTypeOK, AuthSteps, Handlers, Requests, AuthReadWithdrawal,
     docs, outside, history, Goes
<1>11. ASSUME NEW a \in AuthRequests, ComparePin(a)  PROVE SendTypeOK'
  BY <1>11 DEF SendTypeOK, AuthSteps, ComparePin, docs, outside, Goes
<1>12. ASSUME NEW a \in AuthRequests, AuthSaveWithdrawal(a)  PROVE SendTypeOK'
  BY <1>12 DEF SendTypeOK, Shape, WithdrawalStatuses, AuthSteps, Handlers,
     Requests, AuthSaveWithdrawal, outside, history, Goes
<1>13. ASSUME NEW a \in AuthRequests, AuthSaveOfframp(a)  PROVE SendTypeOK'
  BY <1>13 DEF SendTypeOK, Shape, OfframpStatuses, Handlers, Requests,
     AuthSaveOfframp, outside, history, Goes
<1>14. ASSUME NEW r \in SendRequests, SendRead(r)  PROVE SendTypeOK'
  BY <1>14 DEF SendTypeOK, SendSteps, Handlers, Requests, SendRead, docs,
     outside, history, Goes
<1>15. ASSUME NEW r \in SendRequests, SendReadWithdrawal(r)  PROVE SendTypeOK'
  BY <1>15 DEF SendTypeOK, SendSteps, Handlers, Requests, SendReadWithdrawal,
     docs, outside, history, Goes
<1>16. ASSUME NEW r \in SendRequests, SendReadTransfer(r)  PROVE SendTypeOK'
  BY <1>16 DEF SendTypeOK, Shape, SendSteps, Handlers, Requests,
     SendReadTransfer, docs, outside, history, Goes
<1>17. ASSUME NEW r \in SendRequests, SendReadWallet(r)  PROVE SendTypeOK'
  BY <1>17 DEF SendTypeOK, SendSteps, Handlers, Requests, SendReadWallet,
     docs, outside, Goes
<1>18. ASSUME NEW r \in SendRequests, Debit(r)  PROVE SendTypeOK'
  BY <1>18, SendAssumption DEF SendTypeOK, Shape, SendSteps, Handlers,
     Requests, Debit, outside, Goes
<1>19. ASSUME NEW r \in SendRequests, CompleteWithdrawal(r)  PROVE SendTypeOK'
  BY <1>19 DEF SendTypeOK, Shape, WithdrawalStatuses, SendSteps, Handlers,
     Requests, CompleteWithdrawal, outside, history, Goes
<1>20. ASSUME NEW r \in SendRequests, Fund(r)  PROVE SendTypeOK'
  BY <1>20 DEF SendTypeOK, SendSteps, Handlers, Requests, Fund, docs, outside,
     history, Goes
<1>21. ASSUME NEW r \in SendRequests, SaveFunded(r)  PROVE SendTypeOK'
  BY <1>21 DEF SendTypeOK, Shape, OfframpStatuses, Handlers, Requests,
     Settled, SaveFunded, outside, history, Goes
<1>22. ASSUME NEW h \in Requests, RequestFails(h)  PROVE SendTypeOK'
  BY <1>22 DEF SendTypeOK, OfframpStatuses, SendSteps, Handlers, Settled,
     RequestFails, outside, Goes
<1>23. ASSUME NEW r \in SendRequests, Quote(r)  PROVE SendTypeOK'
  BY <1>23 DEF SendTypeOK, Quote, docs, request, outside, history, Works
<1>24. ASSUME NEW r \in SendRequests, Payout(r)  PROVE SendTypeOK'
  BY <1>24 DEF SendTypeOK, Payout, docs, request, outside, Works
<1>25. ASSUME NEW r \in SendRequests, PayoutUnanswered(r)  PROVE SendTypeOK'
  BY <1>25 DEF SendTypeOK, PayoutUnanswered, docs, request, outside, Works
<1>26. ASSUME NEW r \in SendRequests, BackgroundFails(r)  PROVE SendTypeOK'
  BY <1>26 DEF SendTypeOK, BackgroundFails, docs, request, outside, history,
     Works
<1>27. ASSUME NEW r \in SendRequests, BackgroundSave(r)  PROVE SendTypeOK'
  BY <1>27 DEF SendTypeOK, Shape, OfframpStatuses, Handlers, Requests,
     Settled, BackgroundSave, request, outside, history, Works
<1>28. ASSUME NEW p \in Payments, NEW e \in Events, ProviderEmits(p, e)
      PROVE  SendTypeOK'
  BY <1>28 DEF SendTypeOK, ProviderEmits, docs, request, history
<1>29. ASSUME NEW p \in Payments, NEW h \in Webhooks, NEW e \in Events, HookRead(h, p, e)
      PROVE  SendTypeOK'
  BY <1>29 DEF SendTypeOK, OfframpStatuses, Handlers, HookRead, docs, outside,
     history, Goes, StatusesFor
<1>30. ASSUME NEW h \in Webhooks, HookSave(h)  PROVE SendTypeOK'
  BY <1>30 DEF SendTypeOK, Shape, Handlers, HookSave, outside, history, Goes
<1>31. CASE Crash
  BY <1>31 DEF SendTypeOK, Crash, docs
<1> QED  BY <1>1, <1>2, <1>3, <1>4, <1>5, <1>6, <1>7, <1>8, <1>9, <1>10,
   <1>11, <1>12, <1>13, <1>14, <1>15, <1>16, <1>17, <1>18, <1>19, <1>20,
   <1>21, <1>22, <1>23, <1>24, <1>25, <1>26, <1>27, <1>28, <1>29, <1>30, <1>31
   DEF SendNext, AuthStep, SendStep, BackgroundStep, LedgerRuns, vars

\* The program counters keep telling what they told.
LEMMA ShapeStep ==
  ASSUME SendTypeOK, Shape, Authorised, Evidence, [SendNext]_vars
  PROVE  Shape'
<1>1. CASE UNCHANGED <<stage, offramp, pc, pay, debits, background>>
  BY <1>1 DEF Shape
<1>2. ASSUME NEW p \in Payments, GrowOld(p)
      PROVE  Shape'
  BY <1>1, <1>2 DEF GrowOld, docs, request, history
<1>3. ASSUME NEW p \in Payments, NEW e \in Events, ProviderEmits(p, e)
      PROVE  Shape'
  BY <1>1, <1>3 DEF ProviderEmits, docs, request, history
<1>4. CASE UNCHANGED sendVars
  BY <1>1, <1>4 DEF sendVars, docs, request, outside, history
<1>5. ASSUME NEW p \in Payments, CreateOfframp(p)  PROVE Shape'
  BY <1>5 DEF SendTypeOK, Shape, CreateOfframp, request, history
<1>6. ASSUME NEW p \in Payments, CheckBalance(p)  PROVE Shape'
  BY <1>6 DEF Shape, CheckBalance, docs, request, history
<1>7. ASSUME NEW p \in Payments, CreateWithdrawal(p)  PROVE Shape'
  BY <1>7 DEF Shape, CreateWithdrawal, request, history
<1>8. ASSUME NEW p \in Payments, IssueToken(p)  PROVE Shape'
  BY <1>8 DEF Shape, IssueToken, docs, request, history
<1>9. ASSUME NEW p \in Payments, InitiationFails(p)  PROVE Shape'
  BY <1>9 DEF Shape, InitiationFails, docs, request, history
<1>10. ASSUME NEW p \in Payments, NEW h \in Requests, Arrive(h, p)
      PROVE  Shape'
  BY <1>10, SendAssumption DEF SendTypeOK, Shape, AuthSteps, SendSteps,
     Spending, Arrive, docs, outside, Goes
<1>11. ASSUME NEW a \in AuthRequests, AuthRead(a)  PROVE Shape'
  BY <1>11 DEF Shape, AuthSteps, SendSteps, Spending, AuthRead, docs, outside,
     history, Goes
<1>12. ASSUME NEW a \in AuthRequests, AuthReadWithdrawal(a)  PROVE Shape'
  BY <1>12, SendAssumption DEF Shape, AuthSteps, AuthReadWithdrawal, docs,
     outside, history, Goes
<1>13. ASSUME NEW a \in AuthRequests, ComparePin(a)  PROVE Shape'
  BY <1>13 DEF SendTypeOK, Shape, AuthSteps, SendSteps, Handlers, Requests,
     ComparePin, docs, outside, Goes
<1>14. ASSUME NEW a \in AuthRequests, AuthSaveWithdrawal(a)  PROVE Shape'
  BY <1>14 DEF Shape, AuthSteps, SendSteps, AuthSaveWithdrawal, outside,
     history, Goes
<1>15. ASSUME NEW a \in AuthRequests, AuthSaveOfframp(a)  PROVE Shape'
  BY <1>15 DEF Shape, Spending, Handlers, Requests, AuthSaveOfframp, outside,
     history, Goes
<1>16. ASSUME NEW r \in SendRequests, SendRead(r)  PROVE Shape'
  BY <1>16 DEF Shape, AuthSteps, SendSteps, Spending, SendRead, docs, outside,
     history, Goes
<1>17. ASSUME NEW r \in SendRequests, SendReadWithdrawal(r)  PROVE Shape'
  BY <1>17, SendAssumption DEF Shape, SendSteps, Spending, SendReadWithdrawal,
     docs, outside, history, Goes
<1>18. ASSUME NEW r \in SendRequests, SendReadTransfer(r)  PROVE Shape'
  BY <1>18 DEF Shape, AuthSteps, SendSteps, Spending, SendReadTransfer, docs,
     outside, history, Goes
<1>19. ASSUME NEW r \in SendRequests, SendReadWallet(r)  PROVE Shape'
  BY <1>19 DEF Shape, AuthSteps, SendSteps, Spending, SendReadWallet, docs,
     outside, Goes
<1>20. ASSUME NEW r \in SendRequests, Debit(r)  PROVE Shape'
  BY <1>20 DEF SendTypeOK, Shape, AuthSteps, SendSteps, Spending, Handlers,
     Requests, Debit, outside, Goes
<1>21. ASSUME NEW r \in SendRequests, CompleteWithdrawal(r)  PROVE Shape'
  BY <1>21 DEF Shape, AuthSteps, SendSteps, Spending, CompleteWithdrawal,
     outside, history, Goes
<1>22. ASSUME NEW r \in SendRequests, Fund(r)  PROVE Shape'
  BY <1>22 DEF Shape, AuthSteps, SendSteps, Spending, Fund, docs, outside,
     history, Goes
<1>23. ASSUME NEW r \in SendRequests, SaveFunded(r)  PROVE Shape'
  BY <1>23 DEF Shape, Spending, Handlers, Requests, SaveFunded, outside,
     history, Goes
<1>24. ASSUME NEW h \in Requests, RequestFails(h)  PROVE Shape'
  BY <1>24 DEF SendTypeOK, Shape, AuthSteps, SendSteps, Spending, Handlers,
     Resting, RequestFails, outside, Goes
<1>25. ASSUME NEW r \in SendRequests, Quote(r)  PROVE Shape'
  BY <1>25 DEF Shape, Quote, docs, request, outside, history, Works
<1>26. ASSUME NEW r \in SendRequests, Payout(r)  PROVE Shape'
  BY <1>26 DEF Shape, Payout, docs, request, outside, Works
<1>27. ASSUME NEW r \in SendRequests, PayoutUnanswered(r)  PROVE Shape'
  BY <1>27 DEF Shape, PayoutUnanswered, docs, request, outside, Works
<1>28. ASSUME NEW r \in SendRequests, BackgroundFails(r)  PROVE Shape'
  BY <1>28 DEF Shape, BackgroundFails, docs, request, outside, history, Works
<1>29. ASSUME NEW r \in SendRequests, BackgroundSave(r)  PROVE Shape'
  BY <1>29 DEF Shape, Handlers, Requests, BackgroundSave, request, outside,
     history, Works
<1>30. ASSUME NEW p \in Payments, NEW h \in Webhooks, NEW e \in Events, HookRead(h, p, e)
      PROVE  Shape'
  BY <1>30, SendAssumption DEF SendTypeOK, Shape, Evidence, Handlers,
     Requests, PaymentsOf, HookRead, docs, outside, history, Goes
<1>31. ASSUME NEW h \in Webhooks, HookSave(h)  PROVE Shape'
  BY <1>31 DEF Shape, Spending, Handlers, HookSave, outside, history, Goes
<1>32. CASE Crash
  BY <1>32 DEF Shape, Spending, Handlers, Requests, Crash, docs
<1> QED  BY <1>1, <1>2, <1>3, <1>4, <1>5, <1>6, <1>7, <1>8, <1>9, <1>10,
   <1>11, <1>12, <1>13, <1>14, <1>15, <1>16, <1>17, <1>18, <1>19, <1>20,
   <1>21, <1>22, <1>23, <1>24, <1>25, <1>26, <1>27, <1>28, <1>29, <1>30,
   <1>31, <1>32 DEF SendNext, AuthStep, SendStep, BackgroundStep, LedgerRuns,
   vars

\* Nothing gets past the pin without one that was right.
LEMMA AuthorisedStep ==
  ASSUME SendTypeOK, Shape, Authorised, Evidence, [SendNext]_vars
  PROVE  Authorised'
<1>1. CASE UNCHANGED <<offramp, pc, pay, pinOk, debits, payouts>>
  BY <1>1 DEF Authorised, PaymentsOf
<1>2. ASSUME NEW p \in Payments, CheckBalance(p) \/ CreateWithdrawal(p) \/
   IssueToken(p) \/ InitiationFails(p) \/ GrowOld(p)
      PROVE  Authorised'
  BY <1>1, <1>2 DEF CheckBalance, docs, request, history, CreateWithdrawal,
     IssueToken, InitiationFails, GrowOld
<1>3. ASSUME NEW r \in SendRequests, Quote(r) \/ BackgroundFails(r)
      PROVE  Authorised'
  BY <1>1, <1>3 DEF Quote, docs, request, outside, history, Works,
     BackgroundFails
<1>4. ASSUME NEW p \in Payments, NEW e \in Events, ProviderEmits(p, e)
      PROVE  Authorised'
  BY <1>1, <1>4 DEF ProviderEmits, docs, request, history
<1>5. CASE UNCHANGED sendVars
  BY <1>1, <1>5 DEF sendVars, docs, request, outside, history
<1>6. ASSUME NEW p \in Payments, CreateOfframp(p)  PROVE Authorised'
  BY <1>6 DEF Authorised, PaymentsOf, CreateOfframp, request, history
<1>7. ASSUME NEW p \in Payments, NEW h \in Requests, Arrive(h, p)
      PROVE  Authorised'
  BY <1>7 DEF Shape, Authorised, Spending, PaymentsOf, Arrive, docs, Goes
<1>8. ASSUME NEW a \in AuthRequests, AuthRead(a)  PROVE Authorised'
  BY <1>8, SendAssumption DEF Authorised, PaymentsOf, AuthRead, docs, history,
     Goes
<1>9. ASSUME NEW a \in AuthRequests, AuthReadWithdrawal(a)  PROVE Authorised'
  BY <1>9 DEF Authorised, PaymentsOf, AuthReadWithdrawal, docs, history, Goes
<1>10. ASSUME NEW a \in AuthRequests, ComparePin(a)  PROVE Authorised'
  BY <1>10 DEF SendTypeOK, Authorised, Handlers, Requests, PaymentsOf,
     ComparePin, docs, Goes
<1>11. ASSUME NEW a \in AuthRequests, AuthSaveWithdrawal(a)  PROVE Authorised'
  BY <1>11 DEF Authorised, PaymentsOf, AuthSaveWithdrawal, history, Goes
<1>12. ASSUME NEW a \in AuthRequests, AuthSaveOfframp(a)  PROVE Authorised'
  BY <1>12 DEF Authorised, PaymentsOf, AuthSaveOfframp, history, Goes
<1>13. ASSUME NEW r \in SendRequests, SendRead(r)  PROVE Authorised'
  BY <1>13 DEF Shape, Authorised, Handlers, Requests, PaymentsOf, SendRead,
     docs, history, Goes
<1>14. ASSUME NEW r \in SendRequests, SendReadWithdrawal(r)  PROVE Authorised'
  BY <1>14 DEF Authorised, PaymentsOf, SendReadWithdrawal, docs, history, Goes
<1>15. ASSUME NEW r \in SendRequests, SendReadTransfer(r)  PROVE Authorised'
  BY <1>15 DEF Authorised, PaymentsOf, SendReadTransfer, docs, history, Goes
<1>16. ASSUME NEW r \in SendRequests, SendReadWallet(r)  PROVE Authorised'
  BY <1>16 DEF Authorised, PaymentsOf, SendReadWallet, docs, Goes
<1>17. ASSUME NEW r \in SendRequests, Debit(r)  PROVE Authorised'
  BY <1>17 DEF Authorised, PaymentsOf, Debit, Goes
<1>18. ASSUME NEW r \in SendRequests, CompleteWithdrawal(r)  PROVE Authorised'
  BY <1>18 DEF Authorised, PaymentsOf, CompleteWithdrawal, history, Goes
<1>19. ASSUME NEW r \in SendRequests, Fund(r)  PROVE Authorised'
  BY <1>19 DEF Authorised, PaymentsOf, Fund, docs, history, Goes
<1>20. ASSUME NEW r \in SendRequests, SaveFunded(r)  PROVE Authorised'
  BY <1>20 DEF Authorised, PaymentsOf, SaveFunded, history, Goes
<1>21. ASSUME NEW h \in Requests, RequestFails(h)  PROVE Authorised'
  <2>1. CASE UNCHANGED offramp
    BY <1>21, <2>1, SendAssumption DEF Authorised, Shape, Spending, AuthSteps,
       SendTypeOK, Handlers, Requests, PaymentsOf, Settled, RequestFails,
       Goes, Resting
  <2>2. CASE pc[h] = "saveFunded" /\ offramp' = [offramp EXCEPT ![pay[h]] = "funded"]
    BY <1>21, <2>2, SendAssumption DEF Authorised, Shape, Spending, AuthSteps,
       SendTypeOK, Handlers, Requests, PaymentsOf, Settled, RequestFails,
       Goes, Resting
  <2> QED  BY <1>21, <2>1, <2>2 DEF RequestFails
<1>22. ASSUME NEW r \in SendRequests, Payout(r)  PROVE Authorised'
  BY <1>22 DEF Shape, Authorised, PaymentsOf, Payout, docs, request
<1>23. ASSUME NEW r \in SendRequests, PayoutUnanswered(r)  PROVE Authorised'
  BY <1>23 DEF Shape, Authorised, PaymentsOf, PayoutUnanswered, docs, request
<1>24. ASSUME NEW r \in SendRequests, BackgroundSave(r)  PROVE Authorised'
  BY <1>24 DEF Authorised, PaymentsOf, BackgroundSave, request, history
<1>25. ASSUME NEW p \in Payments, NEW h \in Webhooks, NEW e \in Events, HookRead(h, p, e)
      PROVE  Authorised'
  BY <1>25 DEF SendTypeOK, Authorised, Evidence, PaymentsOf, HookRead, docs,
     history, Goes
<1>26. ASSUME NEW h \in Webhooks, HookSave(h)  PROVE Authorised'
  BY <1>26 DEF SendTypeOK, Authorised, Evidence, PaymentsOf, HookSave,
     history, Goes
<1>27. CASE Crash
  BY <1>27 DEF SendTypeOK, Authorised, Handlers, Requests, PaymentsOf, Crash,
     docs
<1> QED  BY <1>1, <1>2, <1>3, <1>4, <1>5, <1>6, <1>7, <1>8, <1>9, <1>10,
   <1>11, <1>12, <1>13, <1>14, <1>15, <1>16, <1>17, <1>18, <1>19, <1>20,
   <1>21, <1>22, <1>23, <1>24, <1>25, <1>26, <1>27 DEF SendNext, AuthStep,
   SendStep, BackgroundStep, LedgerRuns, vars

\* A status is written only by who has the evidence for it.
LEMMA EvidenceStep ==
  ASSUME SendTypeOK, Shape, Authorised, Evidence, [SendNext]_vars
  PROVE  Evidence'
<1>1. CASE UNCHANGED <<offramp, pc, pay, debits, payouts, rail, statusTo>>
  BY <1>1 DEF Evidence, StatusEvidence, Backed, PaymentsOf
<1>2. ASSUME NEW p \in Payments, CheckBalance(p) \/ CreateWithdrawal(p) \/
   IssueToken(p) \/ InitiationFails(p) \/ GrowOld(p)
      PROVE  Evidence'
  BY <1>1, <1>2 DEF CheckBalance, docs, request, history, CreateWithdrawal,
     IssueToken, InitiationFails, GrowOld
<1>3. ASSUME NEW r \in SendRequests, Quote(r) \/ BackgroundFails(r)
      PROVE  Evidence'
  BY <1>1, <1>3 DEF Quote, docs, request, outside, history, Works,
     BackgroundFails
<1>4. CASE UNCHANGED sendVars
  BY <1>1, <1>4 DEF sendVars, docs, request, outside, history
<1>5. ASSUME NEW p \in Payments, CreateOfframp(p)  PROVE Evidence'
  BY <1>5 DEF Evidence, StatusEvidence, Backed, PaymentsOf, Settled,
     CreateOfframp, request, history
<1>6. ASSUME NEW p \in Payments, NEW h \in Requests, Arrive(h, p)
      PROVE  Evidence'
  BY <1>6 DEF SendTypeOK, Shape, Authorised, Evidence, StatusEvidence,
     Spending, Backed, Handlers, PaymentsOf, Arrive, docs, outside, Goes
<1>7. ASSUME NEW a \in AuthRequests, AuthRead(a)  PROVE Evidence'
  BY <1>7 DEF Evidence, StatusEvidence, Backed, PaymentsOf, AuthRead, docs,
     outside, history, Goes
<1>8. ASSUME NEW a \in AuthRequests, AuthReadWithdrawal(a)  PROVE Evidence'
  BY <1>8 DEF Evidence, StatusEvidence, Backed, PaymentsOf,
     AuthReadWithdrawal, docs, outside, history, Goes
<1>9. ASSUME NEW a \in AuthRequests, ComparePin(a)  PROVE Evidence'
  BY <1>9 DEF SendTypeOK, Evidence, StatusEvidence, Backed, Handlers,
     PaymentsOf, ComparePin, docs, outside, Goes
<1>10. ASSUME NEW a \in AuthRequests, AuthSaveWithdrawal(a)  PROVE Evidence'
  BY <1>10 DEF Evidence, StatusEvidence, Backed, PaymentsOf,
     AuthSaveWithdrawal, outside, history, Goes
<1>11. ASSUME NEW a \in AuthRequests, AuthSaveOfframp(a)  PROVE Evidence'
  BY <1>11 DEF Evidence, StatusEvidence, Backed, PaymentsOf, Settled,
     AuthSaveOfframp, outside, history, Goes
<1>12. ASSUME NEW r \in SendRequests, SendRead(r)  PROVE Evidence'
  BY <1>12 DEF Evidence, StatusEvidence, Backed, PaymentsOf, SendRead, docs,
     outside, history, Goes
<1>13. ASSUME NEW r \in SendRequests, SendReadWithdrawal(r)  PROVE Evidence'
  BY <1>13 DEF Evidence, StatusEvidence, Backed, PaymentsOf,
     SendReadWithdrawal, docs, outside, history, Goes
<1>14. ASSUME NEW r \in SendRequests, SendReadTransfer(r)  PROVE Evidence'
  BY <1>14 DEF Evidence, StatusEvidence, Backed, PaymentsOf, SendReadTransfer,
     docs, outside, history, Goes
<1>15. ASSUME NEW r \in SendRequests, SendReadWallet(r)  PROVE Evidence'
  BY <1>15 DEF Evidence, StatusEvidence, Backed, PaymentsOf, SendReadWallet,
     docs, outside, Goes
<1>16. ASSUME NEW r \in SendRequests, Debit(r)  PROVE Evidence'
  BY <1>16 DEF Evidence, StatusEvidence, Backed, PaymentsOf, Debit, outside,
     Goes
<1>17. ASSUME NEW r \in SendRequests, CompleteWithdrawal(r)  PROVE Evidence'
  BY <1>17 DEF Evidence, StatusEvidence, Backed, PaymentsOf,
     CompleteWithdrawal, outside, history, Goes
<1>18. ASSUME NEW r \in SendRequests, Fund(r)  PROVE Evidence'
  BY <1>18 DEF Evidence, StatusEvidence, Backed, PaymentsOf, Fund, docs,
     outside, history, Goes
<1>19. ASSUME NEW r \in SendRequests, SaveFunded(r)  PROVE Evidence'
  BY <1>19 DEF Shape, Evidence, StatusEvidence, Spending, Backed, PaymentsOf,
     SaveFunded, outside, history, Goes
<1>20. ASSUME NEW h \in Requests, RequestFails(h)  PROVE Evidence'
  <2>1. CASE UNCHANGED offramp
    BY <1>20, <2>1, SendAssumption DEF Shape, Spending, AuthSteps, SendTypeOK,
       Evidence, StatusEvidence, Backed, Settled, Handlers, Requests,
       PaymentsOf, RequestFails, outside, Goes, Resting
  <2>2. CASE pc[h] = "saveFunded" /\ offramp' = [offramp EXCEPT ![pay[h]] = "funded"]
    BY <1>20, <2>2, SendAssumption DEF Shape, Spending, AuthSteps, SendTypeOK,
       Evidence, StatusEvidence, Backed, Settled, Handlers, Requests,
       PaymentsOf, RequestFails, outside, Goes, Resting
  <2> QED  BY <1>20, <2>1, <2>2 DEF RequestFails
<1>21. ASSUME NEW r \in SendRequests, Payout(r)  PROVE Evidence'
  BY <1>21 DEF Evidence, StatusEvidence, Backed, PaymentsOf, Payout, docs,
     request, outside
<1>22. ASSUME NEW r \in SendRequests, PayoutUnanswered(r)  PROVE Evidence'
  BY <1>22 DEF Evidence, StatusEvidence, Backed, PaymentsOf, PayoutUnanswered,
     docs, request, outside
<1>23. ASSUME NEW r \in SendRequests, BackgroundSave(r)  PROVE Evidence'
  BY <1>23 DEF Shape, Evidence, StatusEvidence, Backed, PaymentsOf,
     BackgroundSave, request, outside, history
<1>24. ASSUME NEW p \in Payments, NEW e \in Events, ProviderEmits(p, e)
      PROVE  Evidence'
  BY <1>24 DEF Evidence, StatusEvidence, Backed, PaymentsOf, ProviderEmits,
     docs, request, history
<1>25. ASSUME NEW p \in Payments, NEW h \in Webhooks, NEW e \in Events, HookRead(h, p, e)
      PROVE  Evidence'
  BY <1>25 DEF SendTypeOK, Shape, Authorised, Evidence, StatusEvidence,
     Spending, Backed, PaymentsOf, Settled, HookRead, docs, outside, history,
     Goes, StatusesFor
<1>26. ASSUME NEW h \in Webhooks, HookSave(h)  PROVE Evidence'
  BY <1>26 DEF Evidence, StatusEvidence, Backed, PaymentsOf, HookSave,
     outside, history, Goes
<1>27. CASE Crash
  BY <1>27 DEF Evidence, StatusEvidence, Handlers, PaymentsOf, Crash, docs
<1> QED  BY <1>1, <1>2, <1>3, <1>4, <1>5, <1>6, <1>7, <1>8, <1>9, <1>10,
   <1>11, <1>12, <1>13, <1>14, <1>15, <1>16, <1>17, <1>18, <1>19, <1>20,
   <1>21, <1>22, <1>23, <1>24, <1>25, <1>26, <1>27 DEF SendNext, AuthStep,
   SendStep, BackgroundStep, LedgerRuns, vars

\* While a payment is calm, the statuses its one request read stay as read.
LEMMA AloneStep ==
  ASSUME SendTypeOK, Shape, Authorised, Evidence, Alone, [SendNext]_vars
  PROVE  Alone'
<1>1. CASE UNCHANGED <<offramp, pc, pay, debits, contended, faulted>>
  BY <1>1 DEF Alone, AtMostOneDebit, Calm
<1>2. ASSUME NEW p \in Payments, CheckBalance(p) \/ CreateWithdrawal(p) \/
   IssueToken(p) \/ InitiationFails(p) \/ GrowOld(p)
      PROVE  Alone'
  BY <1>1, <1>2 DEF CheckBalance, docs, request, history, CreateWithdrawal,
     IssueToken, InitiationFails, GrowOld
<1>3. ASSUME NEW r \in SendRequests, Quote(r) \/ Payout(r) \/
   PayoutUnanswered(r) \/ BackgroundFails(r)
      PROVE  Alone'
  BY <1>1, <1>3 DEF Quote, docs, request, outside, history, Works, Payout,
     PayoutUnanswered, BackgroundFails
<1>4. ASSUME NEW p \in Payments, NEW e \in Events, ProviderEmits(p, e)
      PROVE  Alone'
  BY <1>1, <1>4 DEF ProviderEmits, docs, request, history
<1>5. CASE UNCHANGED sendVars
  BY <1>1, <1>5 DEF sendVars, docs, request, outside, history
<1>6. ASSUME NEW p \in Payments, CreateOfframp(p)  PROVE Alone'
  BY <1>6 DEF Shape, Alone, AtMostOneDebit, Calm, Settled, CreateOfframp,
     request, history
<1>7. ASSUME NEW p \in Payments, NEW h \in Requests, Arrive(h, p)  PROVE Alone'
  BY <1>7 DEF SendTypeOK, Shape, Spending, Alone, AtMostOneDebit, Calm,
     Arrive, docs, Goes, Active
<1>8. ASSUME NEW a \in AuthRequests, AuthRead(a)  PROVE Alone'
  BY <1>8, SendAssumption DEF SendTypeOK, Alone, AtMostOneDebit, Calm,
     AuthSteps, Resting, AuthRead, docs, history, Goes
<1>9. ASSUME NEW a \in AuthRequests, AuthReadWithdrawal(a)  PROVE Alone'
  BY <1>9 DEF SendTypeOK, Alone, AtMostOneDebit, Calm, AuthSteps, Resting,
     AuthReadWithdrawal, docs, history, Goes
<1>10. ASSUME NEW a \in AuthRequests, ComparePin(a)  PROVE Alone'
  BY <1>10 DEF SendTypeOK, Shape, Spending, Alone, AtMostOneDebit, Calm,
     Handlers, Requests, Resting, ComparePin, docs, Goes
<1>11. ASSUME NEW a \in AuthRequests, AuthSaveWithdrawal(a)  PROVE Alone'
  BY <1>11 DEF Alone, AtMostOneDebit, Calm, AuthSteps, Resting,
     AuthSaveWithdrawal, history, Goes
<1>12. ASSUME NEW a \in AuthRequests, AuthSaveOfframp(a)  PROVE Alone'
  BY <1>12 DEF SendTypeOK, Shape, Spending, Alone, AtMostOneDebit, Calm,
     AuthSteps, Handlers, Requests, Resting, Settled, AuthSaveOfframp,
     history, Goes
<1>13. ASSUME NEW r \in SendRequests, SendRead(r)  PROVE Alone'
  BY <1>13, SendAssumption DEF Shape, Spending, Alone, AtMostOneDebit, Calm,
     Resting, SendRead, docs, history, Goes
<1>14. ASSUME NEW r \in SendRequests, SendReadWithdrawal(r)  PROVE Alone'
  BY <1>14 DEF Shape, Spending, Alone, AtMostOneDebit, Calm, Resting,
     SendReadWithdrawal, docs, history, Goes
<1>15. ASSUME NEW r \in SendRequests, SendReadTransfer(r)  PROVE Alone'
  BY <1>15 DEF Shape, Spending, Alone, AtMostOneDebit, Calm, Resting,
     SendReadTransfer, docs, history, Goes
<1>16. ASSUME NEW r \in SendRequests, SendReadWallet(r)  PROVE Alone'
  BY <1>16 DEF Alone, AtMostOneDebit, Calm, AuthSteps, Resting,
     SendReadWallet, docs, Goes
<1>17. ASSUME NEW r \in SendRequests, Debit(r)  PROVE Alone'
  BY <1>17 DEF SendTypeOK, Alone, AtMostOneDebit, Calm, AuthSteps, Requests,
     Resting, Settled, Debit, Goes
<1>18. ASSUME NEW r \in SendRequests, CompleteWithdrawal(r)  PROVE Alone'
  BY <1>18 DEF Alone, AtMostOneDebit, Calm, AuthSteps, Resting,
     CompleteWithdrawal, history, Goes
<1>19. ASSUME NEW r \in SendRequests, Fund(r)  PROVE Alone'
  BY <1>19 DEF Alone, AtMostOneDebit, Calm, AuthSteps, Resting, Fund, docs,
     history, Goes
<1>20. ASSUME NEW r \in SendRequests, SaveFunded(r)  PROVE Alone'
  BY <1>20 DEF SendTypeOK, Shape, Alone, AtMostOneDebit, Calm, AuthSteps,
     Requests, Resting, Settled, SaveFunded, history, Goes
<1>21. ASSUME NEW h \in Requests, RequestFails(h)  PROVE Alone'
  BY <1>21 DEF SendTypeOK, Shape, Spending, Alone, AtMostOneDebit, Calm,
     AuthSteps, Handlers, Requests, RequestFails, Goes
<1>22. ASSUME NEW r \in SendRequests, BackgroundSave(r)  PROVE Alone'
  BY <1>22 DEF Alone, AtMostOneDebit, Calm, BackgroundSave, request, history
<1>23. ASSUME NEW p \in Payments, NEW h \in Webhooks, NEW e \in Events, HookRead(h, p, e)
      PROVE  Alone'
  BY <1>23, SendAssumption DEF SendTypeOK, Alone, AtMostOneDebit, Calm,
     Requests, HookRead, docs, history, Goes
<1>24. ASSUME NEW h \in Webhooks, HookSave(h)  PROVE Alone'
  BY <1>24, SMTT(30) DEF SendTypeOK, Shape, Evidence, Spending, Backed, Alone,
     AtMostOneDebit, Calm, AuthSteps, Handlers, Requests, Resting, PaymentsOf,
     Settled, HookSave, history, Goes
<1>25. CASE Crash
  BY <1>25 DEF SendTypeOK, Shape, Alone, AtMostOneDebit, Calm, Handlers,
     Requests, Resting, Crash, docs, Active
<1> QED  BY <1>1, <1>2, <1>3, <1>4, <1>5, <1>6, <1>7, <1>8, <1>9, <1>10,
   <1>11, <1>12, <1>13, <1>14, <1>15, <1>16, <1>17, <1>18, <1>19, <1>20,
   <1>21, <1>22, <1>23, <1>24, <1>25 DEF SendNext, AuthStep, SendStep,
   BackgroundStep, LedgerRuns, vars

-----------------------------------------------------------------------------
\* Every step of Send is a step of the ledger service, or does not touch it.
LEMMA LedgerUsed ==
  ASSUME Shape, SendTypeOK, [SendNext]_vars
  PROVE  [LedgerNext]_ledgerVars
<1>1. CASE UNCHANGED ledgerVars
  BY <1>1
<1>2. ASSUME NEW c \in Calls, NEW t \in Transactions, Begin(c, t)
      PROVE  LedgerNext
  BY <1>2 DEF LedgerNext
<1>3. ASSUME NEW C, AbortCalls(C)  PROVE LedgerNext
  <2>1. AbortCalls(C \cap Calls)
    BY <1>3 DEF AbortCalls
  <2> QED  BY <2>1 DEF LedgerNext
<1>4. ASSUME NEW c \in Calls, LedgerRuns(c)  PROVE LedgerNext
  BY <1>4 DEF LedgerRuns, LedgerNext
<1>5. ASSUME NEW r \in SendRequests, pc[r] # "idle"
      PROVE  /\ {DebitCall(r), CloseCall(r), FundedCall(r)} \subseteq Calls
             /\ {WithdrawalOf(pay[r]), OfframpOf(pay[r])} \subseteq Transactions
  BY <1>5, SendAssumption
  DEF Shape, Handlers, Requests, Calls, DebitCall, CloseCall, FundedCall,
      WithdrawalOf, OfframpOf
<1>6. ASSUME NEW r \in SendRequests, Debit(r) \/ CompleteWithdrawal(r) \/ Payout(r)
      PROVE  LedgerNext
  BY <1>2, <1>5, <1>6
  DEF Debit, CompleteWithdrawal, Payout, Shape, Spending
<1>7. CASE (\E h \in Requests : RequestFails(h)) \/ Crash
           \/ \E r \in SendRequests : BackgroundFails(r)
  BY <1>3, <1>7 DEF RequestFails, Crash, BackgroundFails
<1> QED
  BY <1>1, <1>4, <1>6, <1>7
  DEF SendNext, AuthStep, SendStep, BackgroundStep, vars, CreateOfframp,
      CheckBalance, CreateWithdrawal, IssueToken, InitiationFails, GrowOld,
      Arrive, AuthRead, AuthReadWithdrawal, ComparePin, AuthSaveWithdrawal,
      AuthSaveOfframp, SendRead, SendReadWithdrawal, SendReadTransfer,
      SendReadWallet, Fund, SaveFunded, Quote, PayoutUnanswered,
      BackgroundSave, ProviderEmits, HookRead, HookSave

\* Before any request the inductive invariant holds.
LEMMA SendInvInit == SendInit => SendInv
<1> SUFFICES ASSUME SendInit  PROVE SendInv
  OBVIOUS
<1>1. LedgerInv
  BY LedgerInvInit DEF SendInit
<1>2. SendTypeOK
  <2>1. overlapped \in BOOLEAN
    BY Zenon DEF SendInit
  <2> QED
    BY <1>1, <2>1, SendAssumption
    DEF SendInit, SendTypeOK, LedgerInv, OfframpStatuses, WithdrawalStatuses,
        AuthSteps, SendSteps, Handlers, Requests, Settled, Events
<1>3. Shape
  BY SendAssumption DEF SendInit, Shape, Handlers, Requests, AuthSteps, SendSteps,
     Spending
<1>4. Authorised /\ Evidence /\ Alone
  BY SendAssumption
  DEF SendInit, Authorised, Evidence, StatusEvidence, Alone, AtMostOneDebit,
      Handlers, Requests, AuthSteps, Resting, Settled
<1> QED  BY <1>1, <1>2, <1>3, <1>4 DEF SendInv

\* Every step of every handler, and every stutter, keeps the invariant.
LEMMA SendInvStep == SendInv /\ [SendNext]_vars => SendInv'
<1> SUFFICES ASSUME SendInv, [SendNext]_vars  PROVE SendInv'
  OBVIOUS
<1>1. LedgerInv'
  BY LedgerUsed, LedgerInvStep DEF SendInv
<1>2. LedgerTypeOK'
  BY <1>1 DEF LedgerInv
<1> QED
  BY <1>1, <1>2, TypesStep, ShapeStep, AuthorisedStep, EvidenceStep, AloneStep
  DEF SendInv

\* The inductive invariant holds in every reachable state.
THEOREM SendInvariant == SendSpec => []SendInv
  BY SendInvInit, SendInvStep, PTL DEF SendSpec

\* Type correctness of the whole of a send.
THEOREM SendTypeCorrect == SendSpec => []SendTypeOK
  BY SendInvariant, PTL DEF SendInv

\* A payout is made only for a send that took coins, for a payment that a
\* correct pin authorised.
THEOREM PayoutsAreBacked == SendSpec => []PayoutBacked
<1>1. SendInv => PayoutBacked
  BY DEF SendInv, SendTypeOK, Authorised, PayoutBacked
<1> QED  BY <1>1, SendInvariant, PTL

\* A status is never shown without what it reports having happened.
THEOREM StatusesHaveEvidence == SendSpec => []StatusEvidence
  BY SendInvariant, PTL DEF SendInv, Evidence

\* A payment is debited twice only if its requests overlapped or one was cut
\* short.
THEOREM DebitsAreSingle == SendSpec => []AtMostOneDebit
  BY SendInvariant, PTL DEF SendInv, Alone

-----------------------------------------------------------------------------
(***************************************************************************)
(* Send implements PayoutPromise.  The abstract state is the history of a  *)
(* send and the COMPLETED statuses; the steps that change it are the pin's *)
(* comparison, the debit, the payout, and any save of an offramp status.   *)
(***************************************************************************)

\* The handlers in the history have begun: which payment they are about stays.
LEMMA HistoryStays ==
  ASSUME SendTypeOK, Shape, Authorised, [SendNext]_vars
  PROVE  \A h \in pinOk \cup debits \cup payouts : pay'[h] = pay[h]
<1>1. \A h \in pinOk \cup debits \cup payouts : h \in Requests /\ pc[h] # "idle"
  BY SendAssumption DEF SendTypeOK, Shape, Authorised, Spending, Requests
<1>2. CASE UNCHANGED pay
  BY <1>2
<1>3. ASSUME NEW p \in Payments, NEW g \in Requests, Arrive(g, p)
      PROVE  \A h \in pinOk \cup debits \cup payouts : pay'[h] = pay[h]
  BY <1>1, <1>3 DEF Arrive, SendTypeOK, Handlers, Requests
<1>4. ASSUME NEW p \in Payments, NEW g \in Webhooks, NEW e \in Events, HookRead(g, p, e)
      PROVE  \A h \in pinOk \cup debits \cup payouts : pay'[h] = pay[h]
  BY <1>1, <1>4, SendAssumption DEF HookRead, SendTypeOK, Handlers, Requests
<1> QED
  BY <1>2, <1>3, <1>4
  DEF SendNext, AuthStep, SendStep, BackgroundStep, LedgerRuns, vars, sendVars,
      request, CreateOfframp, CheckBalance, CreateWithdrawal, IssueToken,
      InitiationFails, GrowOld, AuthRead, AuthReadWithdrawal, ComparePin,
      AuthSaveWithdrawal, AuthSaveOfframp, SendRead, SendReadWithdrawal,
      SendReadTransfer, SendReadWallet, Debit, CompleteWithdrawal, Fund,
      SaveFunded, RequestFails, Quote, Payout, PayoutUnanswered,
      BackgroundFails, BackgroundSave, ProviderEmits, HookSave, Crash

\* Every step of a send is a step of the promise, or none of its business.
LEMMA PromiseStep ==
  SendInv /\ [SendNext]_vars => [Promise!PromiseNext]_(Promise!promise)
<1> SUFFICES ASSUME SendInv, [SendNext]_vars
             PROVE  [Promise!PromiseNext]_(Promise!promise)
  OBVIOUS
<1>1. \A h \in pinOk \cup debits \cup payouts : pay'[h] = pay[h]
  BY HistoryStays DEF SendInv
<1>2. \A h \in Handlers : pc[h] # "idle" => pay[h] \in Payments
  BY DEF SendInv, Shape
<1>3. CASE UNCHANGED <<offramp, pinOk, debits, payouts>>
  BY <1>1, <1>3 DEF Promise!promise, PaymentsOf, TakenBy
<1>4. ASSUME NEW a \in AuthRequests, ComparePin(a)
      PROVE  [Promise!PromiseNext]_(Promise!promise)
  <2>1. CASE pinOk' = pinOk
    BY <1>3, <1>4, <2>1 DEF ComparePin, docs
  <2>2. CASE pinOk' = pinOk \cup {a}
    <3>1. Promise!Authorise(pay[a])
      BY <1>4, <2>2 DEF ComparePin, docs, Promise!Authorise, PaymentsOf, TakenBy
    <3>2. pay[a] \in Payments
      BY <1>2, <1>4 DEF ComparePin, Handlers, Requests
    <3> QED  BY <3>1, <3>2 DEF Promise!PromiseNext
  <2> QED  BY <1>4, <2>1, <2>2 DEF ComparePin
<1>5. ASSUME NEW r \in SendRequests, Debit(r)
      PROVE  [Promise!PromiseNext]_(Promise!promise)
  <2>1. r \notin debits /\ pay[r] \in PaymentsOf(pinOk) /\ pay[r] \in Payments
    BY <1>2, <1>5 DEF Debit, SendInv, Shape, Authorised, Spending, Handlers, Requests
  <2>2. Promise!TakeCoins(r, pay[r])
    BY <1>5, <2>1 DEF Debit, Promise!TakeCoins, PaymentsOf, TakenBy
  <2> QED  BY <2>1, <2>2 DEF Promise!PromiseNext
<1>6. ASSUME NEW r \in SendRequests, Payout(r) \/ PayoutUnanswered(r)
      PROVE  [Promise!PromiseNext]_(Promise!promise)
  <2>1. r \in debits /\ pay[r] \in Payments
    BY <1>2, <1>6
    DEF Payout, PayoutUnanswered, SendInv, Shape, Spending, Handlers, Requests
  <2>2. Promise!PayOut(r, pay[r])
    BY <1>6, <2>1
    DEF Payout, PayoutUnanswered, docs, request, Promise!PayOut, PaymentsOf, TakenBy
  <2> QED  BY <2>1, <2>2 DEF Promise!PromiseNext
<1>7. ASSUME NEW q \in Payments, NEW s,
             offramp' = [offramp EXCEPT ![q] = s],
             UNCHANGED <<pinOk, debits, payouts>>,
             s = "completed" => q \in PaymentsOf(payouts)
      PROVE  [Promise!PromiseNext]_(Promise!promise)
  <2>1. UNCHANGED <<PaymentsOf(pinOk), TakenBy(debits), TakenBy(payouts)>>
    BY <1>1, <1>7 DEF PaymentsOf, TakenBy
  <2>2. CASE s = "completed"
    <3>1. PICK r \in payouts : pay[r] = q
      BY <1>7, <2>2 DEF PaymentsOf
    <3>2. r \in SendRequests /\ <<r, q>> \in TakenBy(payouts)
      BY <3>1 DEF SendInv, SendTypeOK, TakenBy
    <3>3. {p \in Payments : offramp'[p] = "completed"}
            = {p \in Payments : offramp[p] = "completed"} \cup {q}
      BY <1>7, <2>2 DEF SendInv, SendTypeOK
    <3>4. Promise!Show(q)
      BY <2>1, <3>2, <3>3 DEF Promise!Show
    <3> QED  BY <3>4 DEF Promise!PromiseNext
  <2>3. CASE s # "completed"
    BY <1>7, <2>1, <2>3
    DEF SendInv, SendTypeOK, Promise!PromiseNext, Promise!Hide
  <2> QED  BY <2>2, <2>3
<1>8. ASSUME NEW h \in Handlers, pc[h] # "idle",
             offramp' = [offramp EXCEPT ![pay[h]] = "authorized"]
             \/ offramp' = [offramp EXCEPT ![pay[h]] = "funded"],
             UNCHANGED <<pinOk, debits, payouts>>
      PROVE  [Promise!PromiseNext]_(Promise!promise)
  BY <1>2, <1>7, <1>8
<1>9. ASSUME NEW p \in Payments, CreateOfframp(p)
      PROVE  [Promise!PromiseNext]_(Promise!promise)
  BY <1>7, <1>9 DEF CreateOfframp, history
<1>10. ASSUME NEW a \in AuthRequests, AuthSaveOfframp(a)
       PROVE  [Promise!PromiseNext]_(Promise!promise)
  BY <1>8, <1>10 DEF AuthSaveOfframp, history, Handlers, Requests
<1>11. ASSUME NEW r \in SendRequests, SaveFunded(r)
       PROVE  [Promise!PromiseNext]_(Promise!promise)
  BY <1>8, <1>11 DEF SaveFunded, history, Handlers, Requests
<1>12. ASSUME NEW h \in Requests, RequestFails(h)
       PROVE  [Promise!PromiseNext]_(Promise!promise)
  BY <1>3, <1>8, <1>12 DEF RequestFails, Handlers
<1>13. ASSUME NEW r \in SendRequests, BackgroundSave(r)
       PROVE  [Promise!PromiseNext]_(Promise!promise)
  BY <1>3, <1>8, <1>13 DEF BackgroundSave, history, Handlers, Requests
<1>14. ASSUME NEW h \in Webhooks, HookSave(h)
       PROVE  [Promise!PromiseNext]_(Promise!promise)
  <2>1. pay[h] \in Payments
    BY <1>2, <1>14 DEF HookSave, Handlers
  <2>2. statusTo[h] = "completed" => pay[h] \in PaymentsOf(payouts)
    BY <1>14, <2>1 DEF HookSave, SendInv, Evidence, Backed
  <2> QED  BY <1>7, <1>14, <2>1, <2>2 DEF HookSave, history
<1> QED
  BY <1>3, <1>4, <1>5, <1>6, <1>9, <1>10, <1>11, <1>12, <1>13, <1>14
  DEF SendNext, AuthStep, SendStep, BackgroundStep, LedgerRuns, vars, sendVars,
      docs, history, CheckBalance, CreateWithdrawal, IssueToken,
      InitiationFails, GrowOld, Arrive, AuthRead, AuthReadWithdrawal,
      AuthSaveWithdrawal, SendRead, SendReadWithdrawal, SendReadTransfer,
      SendReadWallet, CompleteWithdrawal, Fund, Quote, BackgroundFails,
      ProviderEmits, HookRead, Crash

\* Send implements PayoutPromise: whatever overlaps, fails or restarts.
THEOREM SendKeepsPromise == SendSpec => KeepsPromise
<1>1. SendInit => Promise!PromiseInit
  BY DEF SendInit, Promise!PromiseInit, PaymentsOf, TakenBy
<1> QED
  BY <1>1, PromiseStep, SendInvariant, PTL
  DEF SendSpec, KeepsPromise, Promise!PromiseSpec
-----------------------------------------------------------------------------
(***************************************************************************)
(* A payment to be funded from outside: no withdrawal is created for it,   *)
(* so its authorisation ends before the pin, and nothing is ever written   *)
(* in its offramp document.                                                *)
(***************************************************************************)
Refused ==
  \A p \in ExternalPayments :
    /\ stage[p] \in {"new", "created", "ready", "rejected"}
    /\ offramp[p] \in {"none", "initiated"}
    /\ withdrawal[p] = "none"
    /\ \A h \in Handlers : pay[h] = p => pc[h] \in {"read", "readWithdrawal", "done"}
    /\ \A r \in debits : pay[r] # p

\* The reads find no withdrawal: no handler of such a payment gets to a write.
LEMMA RefusedStep ==
  ASSUME SendTypeOK, Shape, Refused, [SendNext]_vars
  PROVE  Refused'
<1> USE SendAssumption
<1>1. CASE UNCHANGED <<stage, offramp, withdrawal, pc, pay, debits>>
  BY <1>1 DEF Refused
<1>2. ASSUME NEW p \in Payments, GrowOld(p) \/ \E e \in Events : ProviderEmits(p, e)
      PROVE  Refused'
  BY <1>1, <1>2 DEF GrowOld, ProviderEmits, docs, request, history
<1>3. ASSUME NEW r \in SendRequests, Quote(r) \/ Payout(r) \/ PayoutUnanswered(r)
                                     \/ BackgroundFails(r)
      PROVE  Refused'
  BY <1>1, <1>3 DEF Quote, Payout, PayoutUnanswered, BackgroundFails, docs, request,
     outside, history
<1>4. CASE UNCHANGED sendVars
  BY <1>1, <1>4 DEF sendVars, docs, request, outside, history
<1>5. ASSUME NEW p \in Payments, CreateOfframp(p) \/ CheckBalance(p) \/ CreateWithdrawal(p)
                                 \/ IssueToken(p) \/ InitiationFails(p)
      PROVE  Refused'
  BY <1>5 DEF SendTypeOK, Refused, CreateOfframp, CheckBalance, CreateWithdrawal,
     IssueToken, InitiationFails, docs, request, history
<1>6. ASSUME NEW p \in Payments, NEW h \in Requests, Arrive(h, p)  PROVE Refused'
  BY <1>6 DEF SendTypeOK, Shape, Refused, Spending, Handlers, Arrive, docs, outside, Goes
<1>7. ASSUME NEW a \in AuthRequests, AuthStep(a)  PROVE Refused'
  <2>1. a \in Handlers
    BY DEF Handlers, Requests
  <2>2. CASE AuthRead(a) \/ AuthReadWithdrawal(a)
    BY <2>1, <2>2 DEF SendTypeOK, Refused, AuthRead, AuthReadWithdrawal, docs, outside,
       history, Goes
  <2>3. CASE ComparePin(a) \/ AuthSaveWithdrawal(a) \/ AuthSaveOfframp(a)
    <3>1. pay[a] \notin ExternalPayments
      BY <2>1, <2>3 DEF Refused, ComparePin, AuthSaveWithdrawal, AuthSaveOfframp
    <3> QED BY <2>1, <2>3, <3>1 DEF SendTypeOK, Refused, ComparePin, AuthSaveWithdrawal,
            AuthSaveOfframp, docs, outside, history, Goes
  <2> QED BY <1>7, <2>2, <2>3 DEF AuthStep
<1>8. ASSUME NEW r \in SendRequests, SendStep(r)  PROVE Refused'
  <2>1. r \in Handlers
    BY DEF Handlers, Requests
  <2>2. CASE SendRead(r) \/ SendReadWithdrawal(r)
    BY <2>1, <2>2 DEF SendTypeOK, Refused, SendRead, SendReadWithdrawal, docs, outside,
       history, Goes
  <2>3. CASE SendReadTransfer(r) \/ SendReadWallet(r) \/ Debit(r) \/ CompleteWithdrawal(r)
             \/ Fund(r) \/ SaveFunded(r)
    <3>1. pay[r] \notin ExternalPayments
      BY <2>1, <2>3 DEF Refused, SendReadTransfer, SendReadWallet, Debit,
         CompleteWithdrawal, Fund, SaveFunded
    <3> QED BY <2>1, <2>3, <3>1 DEF SendTypeOK, Refused, SendReadTransfer, SendReadWallet,
            Debit, CompleteWithdrawal, Fund, SaveFunded, docs, outside, history, Goes
  <2> QED BY <1>8, <2>2, <2>3 DEF SendStep
<1>9. ASSUME NEW h \in Requests, RequestFails(h)  PROVE Refused'
  BY <1>9 DEF SendTypeOK, Refused, RequestFails, Handlers, outside, Goes, Resting
<1>10. ASSUME NEW r \in SendRequests, BackgroundSave(r)  PROVE Refused'
  BY <1>10 DEF SendTypeOK, Shape, Refused, BackgroundSave, request, outside, history
<1>11. ASSUME NEW p \in Payments, NEW h \in Webhooks, NEW e \in Events, HookRead(h, p, e)
      PROVE  Refused'
  BY <1>11 DEF SendTypeOK, Shape, Refused, Spending, Handlers, Requests, HookRead, docs,
     outside, history, Goes
<1>12. ASSUME NEW h \in Webhooks, HookSave(h)  PROVE Refused'
  BY <1>12 DEF SendTypeOK, Refused, Handlers, HookSave, outside, history, Goes
<1>13. CASE Crash
  BY <1>13 DEF SendTypeOK, Refused, Crash, docs
<1> QED BY <1>1, <1>2, <1>3, <1>4, <1>5, <1>6, <1>7, <1>8, <1>9, <1>10, <1>11, <1>12,
   <1>13 DEF SendNext, BackgroundStep, LedgerRuns, vars

\* A payment initiated with walletUsed = "external" never gets past INITIATED.
THEOREM ExternalIsRefused == SendSpec => []ExternalStaysInitiated
<1>1. SendInit => Refused
  BY SendAssumption DEF SendInit, Refused
<1>2. SendInv /\ Refused /\ [SendNext]_vars => Refused'
  BY RefusedStep DEF SendInv
<1>3. Refused => ExternalStaysInitiated
  BY DEF Refused, ExternalStaysInitiated, PaymentsOf
<1> QED BY <1>1, <1>2, <1>3, SendInvariant, PTL DEF SendSpec
-----------------------------------------------------------------------------
(***************************************************************************)
(* The ledger of a withdrawal.  While its payment is calm, one send took   *)
(* its coins, so one call records entries in it: the ledger is the one     *)
(* that call opened.                                                       *)
(***************************************************************************)

\* Which call is about which document of which payment.
Calling ==
  \A r \in SendRequests :
    /\ step[DebitCall(r)] # "idle" =>
         r \in debits /\ about[DebitCall(r)] = WithdrawalOf(pay[r])
    /\ step[CloseCall(r)] # "idle" =>
         r \in debits /\ about[CloseCall(r)] = WithdrawalOf(pay[r])
    /\ step[FundedCall(r)] # "idle" =>
         r \in debits /\ about[FundedCall(r)] = OfframpOf(pay[r])
    /\ r \in debits => step[DebitCall(r)] # "idle"

\* How far the recording and the closing of send r have got.
Entered(r) ==
  /\ step[DebitCall(r)] \in Running => pc[r] = "record"
  /\ step[DebitCall(r)] = "append" => found[DebitCall(r)] = DebitCall(r)
  /\ step[DebitCall(r)] = "done" =>
       DebitCall(r) \in opened /\ DebitCall(r) \in recorded[DebitCall(r)]
Closed(r) ==
  /\ step[CloseCall(r)] # "idle" => step[DebitCall(r)] = "done"
  /\ step[CloseCall(r)] \in Running => pc[r] = "close"
  /\ step[CloseCall(r)] = "post" => found[CloseCall(r)] = DebitCall(r)
  /\ step[CloseCall(r)] = "done" => DebitCall(r) \in posted
  /\ pc[r] \in {"saveFunded", "done"} => step[CloseCall(r)] = "done"

Recording == \A r \in debits : Calm(pay[r]) => Entered(r) /\ Closed(r)

\* The calls of the sends are each of one kind.
LEMMA CallNames ==
  /\ RecordCalls = {DebitCall(r) : r \in SendRequests} \cup {FundedCall(r) : r \in SendRequests}
  /\ CloseCalls = {CloseCall(r) : r \in SendRequests}
  /\ \A r, s :
       /\ DebitCall(r) # FundedCall(s) /\ DebitCall(r) # CloseCall(s)
       /\ FundedCall(r) # CloseCall(s)
       /\ DebitCall(r) = DebitCall(s) => r = s
       /\ FundedCall(r) = FundedCall(s) => r = s
       /\ CloseCall(r) = CloseCall(s) => r = s
  /\ \A p, q :
       /\ WithdrawalOf(p) # OfframpOf(q)
       /\ WithdrawalOf(p) = WithdrawalOf(q) => p = q
<1>1. RecordCalls = SendRequests \X {"debit", "funded"} /\ CloseCalls = SendRequests \X {"close"}
  BY SendAssumption
<1>2. /\ \A c \in SendRequests \X {"debit", "funded"} :
           \E r \in SendRequests : c \in {DebitCall(r), FundedCall(r)}
      /\ \A c \in SendRequests \X {"close"} : \E r \in SendRequests : c = CloseCall(r)
  BY DEF DebitCall, FundedCall, CloseCall
<1>3. \A r \in SendRequests :
        /\ DebitCall(r) \in SendRequests \X {"debit", "funded"}
        /\ FundedCall(r) \in SendRequests \X {"debit", "funded"}
        /\ CloseCall(r) \in SendRequests \X {"close"}
  BY DEF DebitCall, FundedCall, CloseCall
<1> QED BY <1>1, <1>2, <1>3 DEF DebitCall, FundedCall, CloseCall, WithdrawalOf, OfframpOf

\* A call begins once, about the payment its send took the coins for.
LEMMA CallingStep ==
  ASSUME SendTypeOK, Shape, CallsInStep, Calling, [SendNext]_vars
  PROVE  Calling'
<1> USE SendAssumption, CallNames
<1>1. CASE UNCHANGED <<step, about, debits, pay>>
  BY <1>1 DEF Calling
<1>2. CASE UNCHANGED vars
  BY <1>1, <1>2 DEF vars, sendVars, request, history, ledgerVars
<1>3. ASSUME NEW p \in Payments,
             CreateOfframp(p) \/ CheckBalance(p) \/ CreateWithdrawal(p) \/ IssueToken(p)
             \/ InitiationFails(p) \/ GrowOld(p) \/ \E e \in Events : ProviderEmits(p, e)
      PROVE  Calling'
  BY <1>1, <1>3 DEF CreateOfframp, CheckBalance, CreateWithdrawal, IssueToken,
     InitiationFails, GrowOld, ProviderEmits, request, history, ledgerVars
<1>4. ASSUME NEW a \in AuthRequests, AuthStep(a)  PROVE Calling'
  BY <1>1, <1>4 DEF AuthStep, AuthRead, AuthReadWithdrawal, ComparePin,
     AuthSaveWithdrawal, AuthSaveOfframp, history, ledgerVars
<1>5. ASSUME NEW r \in SendRequests,
             SendRead(r) \/ SendReadWithdrawal(r) \/ SendReadTransfer(r) \/ SendReadWallet(r)
             \/ Fund(r) \/ SaveFunded(r) \/ Quote(r) \/ PayoutUnanswered(r) \/ BackgroundSave(r)
      PROVE  Calling'
  BY <1>1, <1>5 DEF SendRead, SendReadWithdrawal, SendReadTransfer, SendReadWallet, Fund,
     SaveFunded, Quote, PayoutUnanswered, BackgroundSave, request, history, ledgerVars
<1>6. ASSUME NEW h \in Handlers, pc[h] = "idle", UNCHANGED <<step, about, debits>>,
             NEW p, pay' = [pay EXCEPT ![h] = p]
      PROVE  Calling'
  BY <1>6 DEF SendTypeOK, Shape, Spending, Calling, Handlers, Requests
<1>7. ASSUME NEW p \in Payments, NEW h \in Requests, Arrive(h, p)  PROVE Calling'
  BY <1>6, <1>7 DEF Arrive, Handlers, ledgerVars
<1>8. ASSUME NEW p \in Payments, NEW h \in Webhooks, NEW e \in Events, HookRead(h, p, e)
      PROVE  Calling'
  BY <1>6, <1>8 DEF HookRead, Handlers, history, ledgerVars
<1>9. ASSUME NEW h \in Webhooks, HookSave(h)  PROVE Calling'
  BY <1>1, <1>9 DEF HookSave, history, ledgerVars
<1>10. ASSUME NEW c \in Calls, NEW t, Begin(c, t)
       PROVE  /\ \A b \in Calls \ {c} : step'[b] = step[b] /\ about'[b] = about[b]
              /\ step'[c] # "idle" /\ about'[c] = t
  BY <1>10 DEF SendTypeOK, LedgerTypeOK, Begin, Goto
<1>11. \A r \in SendRequests : {DebitCall(r), CloseCall(r), FundedCall(r)} \subseteq Calls
  BY DEF Calls
<1>12. ASSUME NEW r \in SendRequests, Debit(r)  PROVE Calling'
  BY <1>10, <1>11, <1>12 DEF Debit, Calling
<1>13. ASSUME NEW r \in SendRequests, CompleteWithdrawal(r)  PROVE Calling'
  BY <1>10, <1>11, <1>13 DEF CompleteWithdrawal, Calling, Shape, Spending, history
<1>14. ASSUME NEW r \in SendRequests, Payout(r)  PROVE Calling'
  BY <1>10, <1>11, <1>14 DEF Payout, Calling, Shape, request
<1>15. ASSUME NEW C, AbortCalls(C), UNCHANGED <<pay, debits>>  PROVE Calling'
  BY <1>11, <1>15 DEF AbortCalls, Calling, Running
<1>16. ASSUME NEW h \in Requests, RequestFails(h)  PROVE Calling'
  BY <1>15, <1>16 DEF RequestFails
<1>17. ASSUME NEW r \in SendRequests, BackgroundFails(r)  PROVE Calling'
  BY <1>15, <1>17 DEF BackgroundFails, request, history
<1>18. CASE Crash
  BY <1>15, <1>18 DEF Crash
<1>19. ASSUME NEW c \in Calls, LedgerRuns(c)  PROVE Calling'
  <2>1. /\ \A b \in Calls : step'[b] = "idle" <=> step[b] = "idle"
        /\ UNCHANGED <<about, pay, debits>>
    BY <1>19 DEF LedgerRuns, LedgerStep, Find, Open, Append, LookUp, Post, Goto,
       SendTypeOK, LedgerTypeOK, sendVars, request, history
  <2> QED BY <1>11, <2>1 DEF Calling
<1> QED BY <1>2, <1>3, <1>4, <1>5, <1>7, <1>8, <1>9, <1>12, <1>13, <1>14, <1>16, <1>17,
   <1>18, <1>19 DEF SendNext, SendStep, BackgroundStep

\* Only the one debit of a calm payment opens a ledger of its withdrawal.
LEMMA OwnLedger ==
  ASSUME SendTypeOK, CallsInStep, Alone, Calling, NEW r \in debits, Calm(pay[r])
  PROVE  LedgersOf(WithdrawalOf(pay[r])) \subseteq {DebitCall(r)}
<1> SUFFICES ASSUME NEW d \in opened, about[d] = WithdrawalOf(pay[r])  PROVE d = DebitCall(r)
  BY DEF LedgersOf
<1>1. d \in RecordCalls /\ step[d] # "idle" /\ r \in SendRequests
  BY DEF SendTypeOK, LedgerTypeOK, CallsInStep
<1>2. PICK s \in SendRequests : d \in {DebitCall(s), FundedCall(s)}
  BY <1>1, CallNames
<1>3. d = DebitCall(s) /\ s \in debits /\ pay[s] = pay[r]
  BY <1>1, <1>2, CallNames DEF Calling
<1> QED BY <1>3 DEF Alone, AtMostOneDebit, Calm

\* What happened to a payment stays.
LEMMA CalmStays ==
  ASSUME [SendNext]_vars
  PROVE  contended \subseteq contended' /\ faulted \subseteq faulted'
  BY DEF SendNext, AuthStep, SendStep, BackgroundStep, LedgerRuns, vars, sendVars,
     history, CreateOfframp, CheckBalance, CreateWithdrawal, IssueToken,
     InitiationFails, GrowOld, Arrive, AuthRead, AuthReadWithdrawal, ComparePin,
     AuthSaveWithdrawal, AuthSaveOfframp, SendRead, SendReadWithdrawal,
     SendReadTransfer, SendReadWallet, Debit, CompleteWithdrawal, Fund, SaveFunded,
     RequestFails, Quote, Payout, PayoutUnanswered, BackgroundFails, BackgroundSave,
     ProviderEmits, HookRead, HookSave, Crash

\* The ledger of a calm payment's withdrawal is closed with the entries in it.
LEMMA RecordingStep ==
  ASSUME SendTypeOK, Shape, CallsInStep, Alone, Calling, Recording, [SendNext]_vars
  PROVE  Recording'
<1> USE SendAssumption, CallNames
<1>1. /\ \A r \in SendRequests : r \in Handlers /\ r \in Requests
      /\ \A r \in SendRequests : {DebitCall(r), CloseCall(r), FundedCall(r)} \subseteq Calls
      /\ \A r \in SendRequests : DebitCall(r) \in RecordCalls
  BY DEF Calls, Handlers, Requests
<1>2. /\ \A r \in debits : r \in SendRequests /\ pc[r] # "idle"
      /\ contended \subseteq contended' /\ faulted \subseteq faulted'
  BY CalmStays DEF SendTypeOK, Shape, Spending
\* The steps that leave the debited sends, their calls and the ledgers alone.
<1>3. ASSUME UNCHANGED <<ledgerVars, debits>>,
             \A r \in debits : pc'[r] = pc[r] /\ pay'[r] = pay[r]
      PROVE  Recording'
  BY <1>2, <1>3 DEF Recording, Entered, Closed, Calm, ledgerVars
<1>4. ASSUME NEW h \in Handlers, h \notin debits, UNCHANGED <<ledgerVars, debits>>,
             NEW s, Goes(h, s), pay' = pay \/ \E p : pay' = [pay EXCEPT ![h] = p]
      PROVE  Recording'
  BY <1>1, <1>2, <1>3, <1>4 DEF Goes, SendTypeOK
<1>5. CASE UNCHANGED vars
  BY <1>3, <1>5 DEF vars, sendVars, request, history
<1>6. ASSUME NEW p \in Payments,
             CreateOfframp(p) \/ CheckBalance(p) \/ CreateWithdrawal(p) \/ IssueToken(p)
             \/ InitiationFails(p) \/ GrowOld(p) \/ \E e \in Events : ProviderEmits(p, e)
      PROVE  Recording'
  BY <1>3, <1>6 DEF CreateOfframp, CheckBalance, CreateWithdrawal, IssueToken,
     InitiationFails, GrowOld, ProviderEmits, request, history
<1>7. ASSUME NEW r \in SendRequests, Quote(r) \/ PayoutUnanswered(r) \/ BackgroundSave(r)
      PROVE  Recording'
  BY <1>3, <1>7 DEF Quote, PayoutUnanswered, BackgroundSave, request, history
<1>8. ASSUME NEW a \in AuthRequests, AuthStep(a)  PROVE Recording'
  <2>1. a \in Handlers /\ a \notin debits /\ UNCHANGED <<ledgerVars, debits, pay>>
    BY <1>8 DEF AuthStep, AuthRead, AuthReadWithdrawal, ComparePin, AuthSaveWithdrawal,
       AuthSaveOfframp, history, Handlers, Requests, SendTypeOK
  <2>2. \E s : Goes(a, s)
    BY <1>8 DEF AuthStep, AuthRead, AuthReadWithdrawal, ComparePin, AuthSaveWithdrawal,
       AuthSaveOfframp
  <2> QED BY <1>4, <2>1, <2>2
<1>9. ASSUME NEW r \in SendRequests,
             SendRead(r) \/ SendReadWithdrawal(r) \/ SendReadTransfer(r) \/ SendReadWallet(r)
      PROVE  Recording'
  <2>1. r \notin debits /\ UNCHANGED <<ledgerVars, debits, pay>>
    BY <1>9 DEF Shape, Spending, SendRead, SendReadWithdrawal, SendReadTransfer,
       SendReadWallet, history
  <2>2. \E s : Goes(r, s)
    BY <1>9 DEF SendRead, SendReadWithdrawal, SendReadTransfer, SendReadWallet
  <2> QED BY <1>1, <1>4, <2>1, <2>2
<1>10. ASSUME NEW p \in Payments, NEW h \in Requests, Arrive(h, p)  PROVE Recording'
  BY <1>2, <1>4, <1>10 DEF Arrive, Handlers
<1>11. ASSUME NEW p \in Payments, NEW h \in Webhooks, NEW e \in Events, HookRead(h, p, e)
       PROVE  Recording'
  <2>1. h \in Handlers /\ h \notin debits /\ UNCHANGED <<ledgerVars, debits>>
        /\ pay' = [pay EXCEPT ![h] = p]
    BY <1>1, <1>2, <1>11 DEF HookRead, history, Handlers
  <2>2. \E s : Goes(h, s)
    BY <1>11 DEF HookRead
  <2> QED BY <1>4, <2>1, <2>2
<1>12. ASSUME NEW h \in Webhooks, HookSave(h)  PROVE Recording'
  BY <1>1, <1>2, <1>4, <1>12 DEF HookSave, history, Handlers
\* The steps of the debited sends.
<1>13. ASSUME NEW r \in SendRequests, Debit(r)  PROVE Recording'
  <2>1. /\ \A s \in debits \ {r} : pc'[s] = pc[s]
        /\ pc'[r] = "record" /\ debits' = debits \cup {r}
        /\ UNCHANGED <<pay, contended, faulted>>
    BY <1>1, <1>2, <1>13 DEF Debit, Goes, SendTypeOK
  <2>6. r \notin debits
    BY <1>13 DEF Debit, Shape, Spending
  <2>7. /\ UNCHANGED <<found, opened, posted, recorded>>
        /\ \A c \in Calls \ {DebitCall(r)} : step'[c] = step[c]
        /\ step'[DebitCall(r)] = "find"
    BY <1>1, <1>13 DEF Debit, Begin, Goto, SendTypeOK, LedgerTypeOK
  <2>2. step[CloseCall(r)] = "idle"
    BY <2>6 DEF Calling
  <2>3. \A s \in debits : Calm(pay[s]) => (Entered(s) /\ Closed(s))'
    BY <1>1, <1>2, <2>1, <2>6, <2>7 DEF Recording, Entered, Closed, Calm
  <2>4. (Entered(r) /\ Closed(r))'
    BY <1>1, <2>1, <2>2, <2>7 DEF Entered, Closed, Running
  <2> QED BY <2>1, <2>3, <2>4 DEF Recording, Calm
<1>14. ASSUME NEW r \in SendRequests, CompleteWithdrawal(r)  PROVE Recording'
  <2>1. /\ \A s \in debits \ {r} : pc'[s] = pc[s]
        /\ pc'[r] = "close" /\ r \in debits /\ step[DebitCall(r)] = "done"
        /\ UNCHANGED <<found, opened, posted, recorded, contended, faulted, debits, pay>>
        /\ \A c \in Calls \ {CloseCall(r)} : step'[c] = step[c]
        /\ step'[CloseCall(r)] = "lookup"
    BY <1>1, <1>2, <1>14 DEF CompleteWithdrawal, Goes, Begin, Goto, SendTypeOK,
       LedgerTypeOK, Shape, Spending, history, LedgerAssumption
  <2> QED BY <1>1, <1>2, <2>1 DEF Recording, Entered, Closed, Calm, Running
<1>15. ASSUME NEW r \in SendRequests, Fund(r) \/ SaveFunded(r)  PROVE Recording'
  <2>1. /\ \A s \in debits \ {r} : pc'[s] = pc[s]
        /\ \/ pc'[r] = "saveFunded" /\ step[CloseCall(r)] = "done"
           \/ pc'[r] = "done" /\ pc[r] = "saveFunded"
        /\ UNCHANGED <<ledgerVars, contended, faulted, debits, pay>>
    BY <1>1, <1>2, <1>15 DEF Fund, SaveFunded, Goes, SendTypeOK, history
  <2> QED BY <1>1, <1>2, <2>1 DEF Recording, Entered, Closed, Calm, Running, ledgerVars
<1>16. ASSUME NEW r \in SendRequests, Payout(r)  PROVE Recording'
  <2>1. /\ UNCHANGED <<found, opened, posted, recorded, contended, faulted, debits, pay, pc>>
        /\ \A c \in Calls \ {FundedCall(r)} : step'[c] = step[c]
    BY <1>1, <1>16 DEF Payout, Begin, Goto, SendTypeOK, LedgerTypeOK, request
  <2> QED BY <1>1, <1>2, <2>1 DEF Recording, Entered, Closed, Calm
<1>17. ASSUME NEW r \in SendRequests, BackgroundFails(r)  PROVE Recording'
  <2>1. /\ UNCHANGED <<found, opened, posted, recorded, contended, faulted, debits, pay, pc>>
        /\ \A c \in Calls \ {FundedCall(r)} : step'[c] = step[c]
    BY <1>1, <1>17 DEF BackgroundFails, AbortCalls, request, history
  <2> QED BY <1>1, <1>2, <2>1 DEF Recording, Entered, Closed, Calm
\* The ends of requests: the payment is faulted.
<1>18. ASSUME NEW h \in Requests, RequestFails(h)  PROVE Recording'
  <2>1. /\ UNCHANGED <<found, opened, posted, recorded, contended, debits, pay>>
        /\ faulted' = faulted \cup {pay[h]}
        /\ \A c \in Calls \ {DebitCall(h), CloseCall(h)} : step'[c] = step[c]
        /\ \A g \in Handlers \ {h} : pc'[g] = pc[g]
    BY <1>1, <1>18 DEF RequestFails, AbortCalls, Goes, SendTypeOK
  <2> QED BY <1>1, <1>2, <2>1 DEF Recording, Entered, Closed, Calm
<1>19. CASE Crash
  <2>1. /\ UNCHANGED <<found, opened, posted, recorded, contended, debits, pay>>
        /\ faulted' = faulted \cup {p \in Payments : Active(p) # {}}
        /\ \A c \in Calls : step'[c] = IF step[c] \in Running THEN "failed" ELSE step[c]
        /\ \A g \in Handlers : pc'[g] = IF pc[g] = "idle" THEN "idle" ELSE "done"
    BY <1>19 DEF Crash, AbortCalls
  <2>2. ASSUME NEW r \in debits, Calm(pay[r])'
        PROVE  pc[r] = "done" /\ pc'[r] = "done" /\ Calm(pay[r])
    BY <1>1, <1>2, <2>1, <2>2 DEF Calm, Active, Resting, Alone, Shape
  <2>3. ASSUME NEW r \in debits, Calm(pay[r])'
        PROVE  (Entered(r) /\ Closed(r))'
    <3>1. pc[r] = "done" /\ pc'[r] = "done" /\ Entered(r) /\ Closed(r)
      BY <2>2, <2>3 DEF Recording
    <3>2. step[CloseCall(r)] = "done" /\ step[DebitCall(r)] = "done"
      BY <3>1 DEF Closed
    <3>3. step'[CloseCall(r)] = "done" /\ step'[DebitCall(r)] = "done"
      BY <1>1, <1>2, <2>1, <3>2 DEF Running
    <3> QED BY <2>1, <3>1, <3>3 DEF Entered, Closed, Running
  <2> QED BY <2>1, <2>3 DEF Recording
\* The calls' own steps.
<1>20. ASSUME NEW c \in Calls, LedgerRuns(c)  PROVE Recording'
  <2>1. UNCHANGED <<about, debits, pay, pc, contended, faulted>>
        /\ \A b \in Calls \ {c} : step'[b] = step[b] /\ found'[b] = found[b]
    BY <1>20 DEF LedgerRuns, LedgerStep, Find, Open, Append, LookUp, Post, Goto,
       SendTypeOK, LedgerTypeOK, sendVars, request, history
  <2>2. /\ opened \subseteq opened' /\ posted \subseteq posted'
        /\ \A d \in RecordCalls : recorded[d] \subseteq recorded'[d]
    <3>1. CASE Append(c)
      BY <3>1 DEF Append, SendTypeOK, LedgerTypeOK
    <3>2. CASE Find(c) \/ Open(c) \/ LookUp(c) \/ Post(c)
      BY <3>2 DEF Find, Open, LookUp, Post
    <3> QED BY <1>20, <3>1, <3>2 DEF LedgerRuns, LedgerStep
  <2>3. ASSUME NEW r \in debits, Calm(pay[r]), c # DebitCall(r), c # CloseCall(r)
        PROVE  (Entered(r) /\ Closed(r))'
    BY <1>1, <1>2, <2>1, <2>2, <2>3 DEF Recording, Entered, Closed
  <2>4. ASSUME NEW r \in debits, Calm(pay[r]), c = DebitCall(r)
        PROVE  (Entered(r) /\ Closed(r))'
    <3>1. Entered(r) /\ Closed(r) /\ c \in RecordCalls /\ CloseCall(r) # c
      BY <1>1, <1>2, <2>4 DEF Recording
    <3>2. about[c] = WithdrawalOf(pay[r])
      BY <1>2, <2>4 DEF Calling
    <3>3. LedgersOf(about[c]) \subseteq {c}
      BY <2>4, <3>2, OwnLedger
    <3>4. CASE Find(c)
      <4>1. step'[c] = "open" /\ step[c] = "find"
        BY <3>1, <3>3, <3>4 DEF Find, Goto, CallsInStep, LedgersOf, SendTypeOK,
           LedgerTypeOK
      <4> QED BY <1>1, <1>2, <2>1, <2>4, <3>1, <4>1 DEF Entered, Closed, Running
    <3>5. CASE Open(c)
      <4>1. step'[c] = "append" /\ step[c] = "open" /\ found'[c] = c
        BY <3>5 DEF Open, Goto, SendTypeOK, LedgerTypeOK
      <4> QED BY <1>1, <1>2, <2>1, <2>4, <3>1, <4>1 DEF Entered, Closed, Running
    <3>6. CASE Append(c)
      <4>1. step'[c] = "done" /\ step[c] = "append" /\ c \in opened' /\ c \in recorded'[c]
        BY <2>4, <3>1, <3>6 DEF Append, Goto, SendTypeOK, LedgerTypeOK, Entered,
           CallsInStep, LedgersOf
      <4> QED BY <1>1, <1>2, <2>1, <2>4, <3>1, <4>1 DEF Entered, Closed, Running
    <3>7. ~LookUp(c) /\ ~Post(c)
      BY <3>1 DEF LookUp, Post, CallsInStep
    <3> QED BY <1>20, <3>4, <3>5, <3>6, <3>7 DEF LedgerRuns, LedgerStep
  <2>5. ASSUME NEW r \in debits, Calm(pay[r]), c = CloseCall(r)
        PROVE  (Entered(r) /\ Closed(r))'
    <3>1. Entered(r) /\ Closed(r) /\ c \in CloseCalls /\ DebitCall(r) # c
      BY <1>1, <1>2, <2>5 DEF Recording
    <3>2. step[c] # "idle"
      BY <1>20 DEF LedgerRuns, LedgerStep, Find, Open, Append, LookUp, Post
    <3>3. /\ about[c] = WithdrawalOf(pay[r]) /\ about[DebitCall(r)] = about[c]
          /\ step[DebitCall(r)] = "done" /\ DebitCall(r) \in opened
      BY <1>2, <2>5, <3>1, <3>2 DEF Calling, Closed, Entered
    <3>4. LedgersOf(about[c]) = {DebitCall(r)}
      BY <2>5, <3>3, OwnLedger DEF LedgersOf
    <3>5. Entered(r)'
      BY <1>1, <1>2, <2>1, <2>2, <2>5, <3>1, <3>3 DEF Entered, Running
    <3>6. CASE LookUp(c)
      <4>1. step'[c] = "post" /\ step[c] = "lookup" /\ found'[c] = DebitCall(r)
        BY <3>4, <3>6 DEF LookUp, Goto, SendTypeOK, LedgerTypeOK
      <4> QED BY <1>1, <1>2, <2>1, <2>5, <3>1, <3>3, <3>5, <4>1 DEF Closed, Running
    <3>7. CASE Post(c)
      <4>1. step'[c] = "done" /\ step[c] = "post" /\ DebitCall(r) \in posted'
        BY <2>5, <3>1, <3>7 DEF Post, Goto, SendTypeOK, LedgerTypeOK, Closed
      <4> QED BY <1>1, <1>2, <2>1, <2>5, <3>1, <3>3, <3>5, <4>1 DEF Closed, Running
    <3>8. ~Find(c) /\ ~Open(c) /\ ~Append(c)
      BY <3>1 DEF Find, Open, Append, CallsInStep
    <3> QED BY <1>20, <3>6, <3>7, <3>8 DEF LedgerRuns, LedgerStep
  <2> QED BY <2>1, <2>3, <2>4, <2>5 DEF Recording, Calm
<1> QED BY <1>5, <1>6, <1>7, <1>8, <1>9, <1>10, <1>11, <1>12, <1>13, <1>14, <1>15, <1>16,
   <1>17, <1>18, <1>19, <1>20 DEF SendNext, SendStep, BackgroundStep

\* Coins taken by a send that ran alone and to its end are in a posted ledger of the
\* withdrawal: the recording is complete before the closing.
THEOREM FundedSendsAreRecorded == SendSpec => []FundedIsRecorded
<1>1. SendInit => Calling /\ Recording
  <2>1. \A r \in SendRequests : {DebitCall(r), CloseCall(r), FundedCall(r)} \subseteq Calls
    BY CallNames DEF Calls
  <2> QED BY <2>1 DEF SendInit, LedgerInit, Calling, Recording
<1>2. SendInv /\ Calling /\ Recording /\ [SendNext]_vars => (Calling /\ Recording)'
  BY CallingStep, RecordingStep DEF SendInv, LedgerInv
<1>3. SendInv /\ Calling /\ Recording => FundedIsRecorded
  <2> SUFFICES ASSUME SendInv, Calling, Recording, NEW r \in debits,
                      pc[r] = "done", pay[r] \notin contended \cup faulted
               PROVE  \E d \in LedgersOf(WithdrawalOf(pay[r])) \cap posted :
                        DebitCall(r) \in recorded[d]
    BY DEF FundedIsRecorded
  <2>1. r \in SendRequests /\ Entered(r) /\ Closed(r)
    BY DEF Recording, Calm, SendInv, SendTypeOK
  <2>2. /\ DebitCall(r) \in opened \cap posted /\ DebitCall(r) \in recorded[DebitCall(r)]
        /\ step[DebitCall(r)] = "done"
    BY <2>1 DEF Entered, Closed
  <2>3. DebitCall(r) \in LedgersOf(WithdrawalOf(pay[r])) \cap posted
    BY <2>1, <2>2 DEF Calling, LedgersOf
  <2> QED BY <2>2, <2>3
<1> QED BY <1>1, <1>2, <1>3, SendInvariant, PTL DEF SendSpec
-----------------------------------------------------------------------------
(***************************************************************************)
(* The balance.  While no two sends held the same balance to subtract      *)
(* from, the one about to subtract holds the balance there is.             *)
(***************************************************************************)
Holding ==
  /\ \A r \in SendRequests : pc[r] = "debit" => walletSeen[r] = balance
  /\ \A r, s \in SendRequests : pc[r] = "debit" /\ pc[s] = "debit" => r = s

Balanced == IsFiniteSet(debits) /\ BalanceExact /\ (overlapped \/ Holding)

\* What the debits of a payment are numbers of.
LEMMA CoinsAreNumbers ==
  ASSUME SendTypeOK, Shape
  PROVE  \A r \in debits : pay[r] \in Payments /\ CoinsTaken[r] \in Int
<1>1. \A r \in debits : pay[r] \in Payments
  BY DEF SendTypeOK, Shape, Spending, Handlers, Requests
<1> QED BY <1>1, SendAssumption DEF CoinsTaken, Coins

\* A step that takes no coins and gives nobody a balance to subtract from.
LEMMA BalanceLeft ==
  ASSUME Balanced, UNCHANGED <<balance, debits>>, overlapped => overlapped',
         \A r \in debits : pay'[r] = pay[r],
         \A r \in SendRequests :
           pc'[r] = "debit" => pc[r] = "debit" /\ walletSeen'[r] = walletSeen[r]
  PROVE  Balanced'
<1>1. CoinsTaken' = CoinsTaken
  BY DEF CoinsTaken, Coins
<1> QED BY <1>1 DEF Balanced, BalanceExact, Holding

\* The one send that holds the balance takes its coins from it.
LEMMA DebitKeepsBalanced ==
  ASSUME SendTypeOK, Shape, Balanced, NEW r \in SendRequests, Debit(r)
  PROVE  Balanced'
<1>1. /\ r \notin debits /\ debits' = debits \cup {r}
      /\ UNCHANGED <<pay, overlapped>> /\ balance' = walletSeen[r] - Coins(pay[r])
  BY DEF Shape, Spending, Debit, docs, outside
<1>2. \A s \in debits' : pay[s] \in Payments /\ CoinsTaken'[s] \in Int
  <2>1. pay[r] \in Payments
    BY DEF SendTypeOK, Shape, Handlers, Requests, Debit
  <2> QED BY <1>1, <2>1, CoinsAreNumbers, SendAssumption DEF CoinsTaken, Coins
<1>3. \A s \in debits : CoinsTaken[s] \in Int /\ CoinsTaken'[s] = CoinsTaken[s]
  BY <1>1, <1>2 DEF CoinsTaken, Coins
<1>4. IsFiniteSet(debits) /\ IsFiniteSet(debits')
  BY <1>1, FS_AddElement DEF Balanced
<1>5. SumFunctionOnSet(CoinsTaken', debits)
        = SumFunctionOnSet(CoinsTaken, debits)
  BY <1>3, <1>4, SumSame
<1>6. SumFunctionOnSet(CoinsTaken', debits')
        = SumFunctionOnSet(CoinsTaken', debits) + CoinsTaken'[r]
  BY <1>1, <1>2, <1>4, SumAdds
<1>7. DOMAIN CoinsTaken = debits /\ DOMAIN CoinsTaken' = debits'
  BY DEF CoinsTaken
<1>8. CoinsTaken'[r] = Coins(pay[r]) /\ Coins(pay[r]) \in Int
  BY <1>1, <1>2 DEF CoinsTaken, Coins
<1>9. SumFunctionOnSet(CoinsTaken, debits) \in Int
  BY <1>3, <1>4, SumFolds
<1>10. ~ overlapped => balance' = OpeningBalance - SumFunction(CoinsTaken')
  <2>1. ~ overlapped =>
          walletSeen[r] = OpeningBalance - SumFunctionOnSet(CoinsTaken, debits)
    BY <1>7 DEF Balanced, BalanceExact, Holding, SumFunction, Debit
  <2> QED BY <1>1, <1>5, <1>6, <1>7, <1>8, <1>9, <2>1, SendAssumption DEF SumFunction
<1>11. ~ overlapped => \A s \in SendRequests : pc'[s] # "debit"
  <2>1. r \in Handlers /\ pc' = [pc EXCEPT ![r] = "record"] /\ DOMAIN pc = Handlers
        /\ pc[r] = "debit" /\ SendRequests \subseteq Handlers
    BY DEF SendTypeOK, Debit, Goes, Handlers, Requests
  <2> QED BY <2>1 DEF Balanced, Holding
<1> QED BY <1>1, <1>4, <1>10, <1>11 DEF Balanced, BalanceExact, Holding

\* The balance stays exact, or two sends have held it at once.
LEMMA BalancedStep ==
  ASSUME SendTypeOK, Shape, Balanced, [SendNext]_vars
  PROVE  Balanced'
<1> USE SendAssumption DEF Handlers, Requests
<1>1. CASE UNCHANGED <<balance, debits, pay, pc, walletSeen, overlapped>>
  BY <1>1, BalanceLeft
<1>2. ASSUME UNCHANGED <<balance, debits, pay, walletSeen, overlapped>>,
             \E s : \E h \in Handlers : s # "debit" /\ Goes(h, s)
      PROVE  Balanced'
  BY <1>2, BalanceLeft DEF SendTypeOK, Goes
<1>3. ASSUME NEW p \in Payments, CreateOfframp(p) \/ CheckBalance(p) \/ CreateWithdrawal(p)
                                 \/ IssueToken(p) \/ InitiationFails(p) \/ GrowOld(p)
                                 \/ \E e \in Events : ProviderEmits(p, e)
      PROVE  Balanced'
  BY <1>1, <1>3 DEF CreateOfframp, CheckBalance, CreateWithdrawal, IssueToken,
     InitiationFails, GrowOld, ProviderEmits, docs, request, history
<1>4. ASSUME NEW h \in Requests, NEW p \in Payments, Arrive(h, p)  PROVE Balanced'
  BY <1>4, BalanceLeft DEF SendTypeOK, Shape, Spending, Arrive, Goes, docs
<1>5. ASSUME NEW a \in AuthRequests, AuthStep(a)  PROVE Balanced'
  <2>1. UNCHANGED <<balance, debits, pay, walletSeen, overlapped>>
    BY <1>5 DEF AuthStep, AuthRead, AuthReadWithdrawal, ComparePin, AuthSaveWithdrawal,
       AuthSaveOfframp, docs, history
  <2>2. \E s : s # "debit" /\ Goes(a, s)
    BY <1>5 DEF AuthStep, AuthRead, AuthReadWithdrawal, ComparePin, AuthSaveWithdrawal,
       AuthSaveOfframp
  <2> QED BY <1>2, <2>1, <2>2
<1>6. ASSUME NEW r \in SendRequests,
             SendRead(r) \/ SendReadWithdrawal(r) \/ SendReadTransfer(r)
             \/ CompleteWithdrawal(r) \/ Fund(r) \/ SaveFunded(r)
      PROVE  Balanced'
  <2>1. UNCHANGED <<balance, debits, pay, walletSeen, overlapped>>
    BY <1>6 DEF SendRead, SendReadWithdrawal, SendReadTransfer, CompleteWithdrawal, Fund,
       SaveFunded, docs, history
  <2>2. \E s : s # "debit" /\ Goes(r, s)
    BY <1>6 DEF SendRead, SendReadWithdrawal, SendReadTransfer, CompleteWithdrawal, Fund,
       SaveFunded
  <2> QED BY <1>2, <2>1, <2>2
<1>7. ASSUME NEW r \in SendRequests, SendReadWallet(r)  PROVE Balanced'
  <2>1. UNCHANGED <<balance, debits, pay>> /\ CoinsTaken' = CoinsTaken
    BY <1>7 DEF SendReadWallet, docs, CoinsTaken, Coins
  <2>2. overlapped' \/ Holding'
    BY <1>7 DEF SendTypeOK, SendReadWallet, docs, Goes, Holding
  <2>3. overlapped => overlapped'
    BY <1>7 DEF SendReadWallet
  <2> QED BY <2>1, <2>2, <2>3 DEF Balanced, BalanceExact
<1>8. ASSUME NEW h \in Requests, RequestFails(h)  PROVE Balanced'
  BY <1>2, <1>8 DEF RequestFails, outside
<1>9. ASSUME NEW r \in SendRequests, BackgroundStep(r)  PROVE Balanced'
  <2>1. UNCHANGED <<balance, debits, pay, walletSeen, overlapped>>
    BY <1>9 DEF BackgroundStep, Quote, Payout, PayoutUnanswered, BackgroundFails,
       BackgroundSave, docs, request, history
  <2>2. CASE UNCHANGED pc
    BY <1>1, <2>1, <2>2
  <2> QED BY <1>9, <2>2 DEF BackgroundStep, Quote, Payout, PayoutUnanswered,
          BackgroundFails, BackgroundSave, request
<1>10. ASSUME NEW h \in Webhooks, NEW p \in Payments, NEW e \in Events, HookRead(h, p, e)
       PROVE  Balanced'
  BY <1>10, BalanceLeft DEF SendTypeOK, Shape, Spending, HookRead, Goes, docs, history
<1>11. ASSUME NEW h \in Webhooks, HookSave(h)  PROVE Balanced'
  BY <1>2, <1>11 DEF HookSave, outside, history
<1>12. CASE Crash
  BY <1>12, BalanceLeft DEF Crash, docs
<1>13. CASE UNCHANGED sendVars
  BY <1>1, <1>13 DEF sendVars, docs, request, history
<1> QED BY <1>3, <1>4, <1>5, <1>6, <1>7, <1>8, <1>9, <1>10, <1>11, <1>12, <1>13,
       DebitKeepsBalanced DEF SendNext, SendStep, LedgerRuns, vars

\* The wallet holds what the sends left in it, unless two of them held the same balance.
THEOREM CoinsAreAccounted == SendSpec => []BalanceExact
<1>1. SendInit => Balanced
  <2> SUFFICES ASSUME SendInit  PROVE Balanced
    OBVIOUS
  <2>1. debits = {} /\ balance = OpeningBalance /\ \A r \in SendRequests : pc[r] = "idle"
    BY DEF SendInit, Handlers, Requests
  <2>2. DOMAIN CoinsTaken = {} /\ IsFiniteSet({}) /\ \A r \in {} : CoinsTaken[r] \in Int
    BY <2>1, FS_EmptySet DEF CoinsTaken
  <2>3. SumFunction(CoinsTaken) = 0
    BY <2>2, SumFolds DEF SumFunction
  <2> QED BY <2>1, <2>2, <2>3, SendAssumption DEF Balanced, BalanceExact, Holding
<1>2. SendInv /\ Balanced /\ [SendNext]_vars => Balanced'
  BY BalancedStep DEF SendInv
<1>3. Balanced => BalanceExact
  BY DEF Balanced
<1> QED BY <1>1, <1>2, <1>3, SendInvariant, PTL DEF SendSpec
=============================================================================
