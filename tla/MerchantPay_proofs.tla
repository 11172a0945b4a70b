------------------------- MODULE MerchantPay_proofs -------------------------
(***************************************************************************)
(* The safety of MerchantPay for any payments, deliveries, prices, orders  *)
(* and failures.                                                           *)
(*                                                                         *)
(* MerchantInv is the inductive invariant: the types, the ledger's own     *)
(* invariant, and                                                          *)
(*   Shape      what a handler's program counter says about it,            *)
(*   Documents  what it says about the offramp document it works on,       *)
(*   Linking    which document the merchant transaction names,             *)
(*   Evidence   what stands behind a status or a provider event,           *)
(*   Calling    what each ledger call is about, and when it begins,        *)
(*   Closing    what is in a ledger when it is closed,                     *)
(*   Alone      what an activity may count on while its payment is neither *)
(*              contended nor faulted,                                     *)
(*   Meeting    what a webhook may count on while it met nobody,           *)
(*   Agreement  what the webhooks of a document have saved or will save.   *)
(***************************************************************************)
EXTENDS MerchantPay, Ledger_proofs

\* Where an activity can be once it has handed its document to the background.
Paying == {"saveFunded", "record", "unsaved", "done", "failed"}
Ends == {"completed", "failed"}
Calm(m) == m \notin contended \cup faulted

Shape ==
  /\ \A m \in Payments : received[m] > 0 => stage[m] = "ready"
  /\ \A h \in Activities :
       /\ pc[h] \in ActivitySteps \cup Resting
       /\ IF pc[h] = "idle" THEN pay[h] = None
          ELSE pay[h] \in Payments /\ stage[pay[h]] = "ready"
       /\ pc[h] \in {"idle", "balance", "transaction"} => doc[h] = None
       /\ pc[h] \in {"create", "link", "authorise"} => doc[h] = h
       /\ pc[h] = "offramp" => doc[h] # h
       /\ pc[h] \in {"offramp", "process", "saveFunded", "record", "unsaved"} =>
            doc[h] \in Activities
       /\ doc[h] # None => pay[doc[h]] = pay[h]
       /\ pc[h] \in {"saveFunded", "record", "unsaved"} => background[h] # "none"
       /\ background[h] # "none" => doc[h] \in Activities /\ pc[h] \in Paying
       /\ unawaited[h] # "none" =>
            background[h] # "none" /\ pc[h] \in {"record", "done", "failed"}
       /\ h \in payouts => background[h] \in {"record", "done", "failed"}
       /\ background[h] = "record" => h \in payouts
  /\ \A w \in Webhooks :
       /\ pc[w] \in HookSteps \cup {"idle", "done", "failed"}
       /\ pc[w] = "idle" => doc[w] = None /\ statusTo[w] = "none"
       /\ pc[w] \in {"idle", "transaction"} => merchantTo[w] = "none"
       /\ pc[w] \in {"idle", "transaction", "record", "close"} => unawaited[w] = "none"
       /\ pc[w] # "idle" => doc[w] \in DocsOf(payouts)

Documents ==
  /\ \A g, h \in payouts : g # h => doc[g] # doc[h]
  /\ \A o \in Activities :
       /\ offramp[o] # "none" => doc[o] = o
       /\ pc[o] \in {"idle", "balance", "transaction", "create"} => offramp[o] = "none"
       /\ pc[o] \in {"link", "authorise"} => offramp[o] = "initiated"
       /\ rail[o] # {} => o \in DocsOf(payouts)
       /\ background[o] # "none" => offramp[doc[o]] \notin {"none", "initiated"}
       /\ pc[o] \in {"offramp", "process"} => offramp[doc[o]] # "none"
  /\ \A m \in Payments :
       offrampId[m] # None =>
         /\ offrampId[m] \in Activities
         /\ pay[offrampId[m]] = m /\ offramp[offrampId[m]] # "none"

Linking ==
  /\ \A g, h \in Activities :
       g # h /\ pay[g] = pay[h] /\ pc[g] \notin Resting /\ pc[h] \notin Resting
         => pay[g] \in contended
  /\ \A h \in Activities :
       pc[h] \in {"create", "link"} => offrampId[pay[h]] = None \/ pay[h] \in contended
  /\ \A o \in Activities :
       pc[o] = "authorise" \/ offramp[o] \notin {"none", "initiated"}
         => offrampId[pay[o]] = o \/ pay[o] \in contended

Evidence ==
  /\ StatusEvidence
  /\ \A h \in Activities :
       pc[h] = "record" \/ unawaited[h] # "none" => offramp[doc[h]] \in Settled
  /\ \A w \in Webhooks :
       /\ pc[w] \in HookSteps => statusTo[w] \in Settled \ {"funded"}
       /\ statusTo[w] = "completed" => "complete" \in rail[doc[w]]
       /\ statusTo[w] = "failed" => rail[doc[w]] \cap {"failed", "pendingApproval"} # {}
       /\ merchantTo[w] \in Ends => statusTo[w] = merchantTo[w]
  /\ \A o \in Activities : ~({"complete", "failed"} \subseteq rail[o])

Calling ==
  /\ \A h \in Activities :
       /\ about[ReceivedCall(h)] \in {None, doc[h]}
       /\ pc[h] \notin {"record", "done", "failed"} => about[ReceivedCall(h)] = None
       /\ pc[h] = "record" => about[ReceivedCall(h)] = doc[h]
       /\ about[FundedCall(h)] \in {None, doc[h]}
       /\ background[h] \notin {"record", "done", "failed"} => about[FundedCall(h)] = None
       /\ background[h] = "record" => about[FundedCall(h)] = doc[h]
  /\ \A w \in Webhooks :
       /\ about[SettleCall(w)] \in {None, doc[w]}
       /\ about[SettleCall(w)] # None => statusTo[w] \in Ends
       /\ pc[w] \in {"idle", "transaction"} => about[SettleCall(w)] = None
       /\ pc[w] = "record" => about[SettleCall(w)] = doc[w]
       /\ about[CloseCall(w)] \in {None, doc[w]}
       /\ pc[w] \in {"idle", "transaction", "record"} => about[CloseCall(w)] = None
       /\ pc[w] = "close" => about[CloseCall(w)] = doc[w]
  /\ \A d \in posted : \E w \in Webhooks : about[CloseCall(w)] = about[d]

\* A webhook's settlement of o is in a ledger of o.
SettledIn(o) ==
  \E v \in Webhooks, d \in LedgersOf(o) :
    doc[v] = o /\ statusTo[v] \in Ends /\ SettleCall(v) \in recorded[d]

Closing ==
  /\ \A w \in Webhooks :
       /\ about[CloseCall(w)] # None => SettledIn(doc[w])
       /\ step[CloseCall(w)] = "done" => LedgersOf(doc[w]) \cap posted # {}
       /\ merchantTo[w] \in Ends /\ unawaited[w] # "none" => step[CloseCall(w)] = "done"
  /\ \A m \in Payments :
       transaction[m] = "completed" =>
         \E w \in Webhooks :
           /\ pc[w] # "idle" /\ pay[doc[w]] = m
           /\ merchantTo[w] = "completed" /\ unawaited[w] = "done"

Alone ==
  \A h \in Activities :
    Calm(pay[h]) =>
      /\ background[h] # "none" => doc[h] = h /\ pc[h] \notin {"unsaved", "failed"}
      /\ pc[h] = "process" /\ doc[h] = h => offramp[h] = "authorized"
      /\ pc[h] \in Resting \/ doc[h] # h =>
           doc[h] = None \/ offramp[doc[h]] \in Settled \/ doc[h] \in expired
      /\ background[h] \in {"done", "failed"} =>
           h \in payouts /\ step[FundedCall(h)] = "done"
      /\ pc[h] = "done" /\ background[h] # "none" => step[ReceivedCall(h)] = "done"

\* The entries of call c are in a ledger of o.
Written(c, o) == \E d \in LedgersOf(o) : c \in recorded[d]

Meeting ==
  \A w \in Webhooks :
    LET o == doc[w]
    IN pc[w] # "idle" /\ o \notin crossed =>
         /\ \A v \in Webhooks \ {w} : doc[v] = o => ~(AtWork(v) /\ AtWork(w))
         /\ Calm(pay[o]) => ~AtWork(o)
         /\ Calm(pay[o]) /\ o \notin raced =>
              Written(ReceivedCall(o), o) /\ Written(FundedCall(o), o)

Said(s) == MerchantStatus(s, "none")
Told == {"pending", "completed", "failed"}

\* What a webhook w that works on o has still to save, and what it has saved.
Saying(w, o) ==
  /\ pc[w] # "failed"
  /\ pc[w] \in HookSteps => offramp[o] = docSeen[w]
  /\ pc[w] \in {"record", "close", "save"} =>
       /\ merchantTo[w] \in {"none", Said(statusTo[w])}
       /\ merchantTo[w] = "none" /\ statusTo[w] \in Told =>
            transaction[pay[o]] = Said(statusTo[w])
       /\ merchantTo[w] = "none" => unawaited[w] = "none"
  /\ pc[w] = "save" /\ merchantTo[w] # "none" =>
       /\ unawaited[w] \in {"sent", "done"}
       /\ unawaited[w] = "done" => transaction[pay[o]] = Said(statusTo[w])
  /\ pc[w] = "done" /\ unawaited[w] = "sent" =>
       /\ offramp[o] = statusTo[w] /\ merchantTo[w] = Said(statusTo[w])

Agreement ==
  \A o \in Activities :
    offramp[o] # "none" /\ Calm(pay[o]) /\ o \notin crossed =>
      /\ \A w \in Webhooks : doc[w] = o => Saying(w, o)
      /\ offramp[o] \in Told /\ (\A w \in Webhooks : doc[w] = o => ~AtWork(w)) =>
           transaction[pay[o]] = Said(offramp[o])

MerchantInv ==
  /\ MerchantTypeOK /\ LedgerInv
  /\ Shape /\ Documents /\ Linking /\ Evidence
  /\ Calling /\ Closing /\ Alone /\ Meeting /\ Agreement

-----------------------------------------------------------------------------
\* What the assumptions say of the constants, without the names of the calls.
LEMMA Names ==
  /\ Activities \cap Webhooks = {} /\ Transactions = Activities
  /\ Handlers = Activities \cup Webhooks
  /\ None \notin Payments \cup Activities \cup Calls
  /\ Emitted \subseteq Events /\ Deposits \subseteq Nat
  /\ RecordCalls \cap CloseCalls = {} /\ Calls = RecordCalls \cup CloseCalls
<1>1. None \notin Payments \cup Activities \cup Calls
  BY MerchantAssumption, LedgerAssumption, Zenon DEF MerchantAssumption, LedgerAssumption
<1> QED  BY <1>1, MerchantAssumption, LedgerAssumption
  DEF MerchantAssumption, LedgerAssumption, Events, Calls, Handlers

\* The calls of the handlers are distinct, and there are no others.
LEMMA CallNames ==
  /\ \A h \in Activities : {ReceivedCall(h), FundedCall(h)} \subseteq RecordCalls
  /\ \A w \in Webhooks : SettleCall(w) \in RecordCalls /\ CloseCall(w) \in CloseCalls
  /\ \A g, h \in Handlers :
       /\ ReceivedCall(g) = ReceivedCall(h) => g = h
       /\ FundedCall(g) = FundedCall(h) => g = h
       /\ SettleCall(g) = SettleCall(h) => g = h
       /\ CloseCall(g) = CloseCall(h) => g = h
       /\ FundedCall(g) \notin {ReceivedCall(h), SettleCall(h), CloseCall(h)}
       /\ ReceivedCall(g) \notin {SettleCall(h), CloseCall(h)}
       /\ SettleCall(g) # CloseCall(h)
  /\ \A c \in RecordCalls :
       \/ \E h \in Activities : c = ReceivedCall(h) \/ c = FundedCall(h)
       \/ \E w \in Webhooks : c = SettleCall(w)
  /\ \A c \in CloseCalls : \E w \in Webhooks : c = CloseCall(w)
<1>1. /\ RecordCalls = (Activities \X {"received", "funded"})
                           \cup (Webhooks \X {"settle"})
      /\ CloseCalls = Webhooks \X {"close"}
  BY MerchantAssumption DEF MerchantAssumption
<1> QED  BY <1>1 DEF ReceivedCall, FundedCall, SettleCall, CloseCall

\* What the ledger holds stays: calls stay about their transaction and stay done,
\* documents stay, and so do their entries.
LedgerKept ==
  /\ \A c \in Calls :
       /\ about[c] # None => about'[c] = about[c]
       /\ step[c] = "done" => step'[c] = "done"
  /\ opened \subseteq opened' /\ posted \subseteq posted' /\ raced \subseteq raced'
  /\ \A d \in RecordCalls : recorded[d] \subseteq recorded'[d]

\* Every step of the ledger service keeps them.
LEMMA LedgerKeeps ==
  ASSUME LedgerInv, [LedgerNext]_ledgerVars  PROVE LedgerKept
<1> USE DEF LedgerKept, LedgerInv, LedgerTypeOK, CallsInStep
<1>1. ASSUME NEW c \in Calls, NEW t \in Transactions, Begin(c, t)  PROVE LedgerKept
  BY <1>1 DEF Begin, Goto
<1>2. ASSUME NEW c \in Calls, LedgerStep(c)  PROVE LedgerKept
  BY <1>2 DEF LedgerStep, Find, Open, Append, LookUp, Post, Goto, LedgersOf
<1>3. ASSUME NEW S \in SUBSET Calls, AbortCalls(S)  PROVE LedgerKept
  BY <1>3 DEF AbortCalls, Running
<1>4. CASE UNCHANGED ledgerVars
  BY <1>4 DEF ledgerVars
<1> QED  BY <1>1, <1>2, <1>3, <1>4 DEF LedgerNext

\* Every step is a step of the ledger service, or does not touch it.
LEMMA LedgerUsed ==
  ASSUME MerchantTypeOK, Shape, [MerchantNext]_vars
  PROVE  [LedgerNext]_ledgerVars
<1>1. CASE UNCHANGED ledgerVars
  BY <1>1
<1>2. ASSUME NEW c \in Calls, NEW t \in Transactions, Begin(c, t)
      PROVE  LedgerNext
  BY <1>2 DEF LedgerNext
<1>3. ASSUME NEW C, AbortCalls(C)  PROVE LedgerNext
  <2>1. AbortCalls(C \cap Calls)
    BY <1>3 DEF AbortCalls
  <2> QED  BY <2>1 DEF LedgerNext
<1>4. ASSUME NEW c \in Calls, LedgerRuns(c)  PROVE LedgerNext
  BY <1>4 DEF LedgerRuns, LedgerNext
<1>5. ASSUME NEW h \in Activities, SaveFunded(h) \/ Payout(h)
      PROVE  [LedgerNext]_ledgerVars
  <2>1. doc[h] \in Transactions
    BY <1>5, Names DEF Shape, SaveFunded, Payout
  <2> QED  BY <1>2, <1>5, <2>1, CallNames, Names DEF SaveFunded, Payout
<1>6. ASSUME NEW h \in Webhooks, HookTransaction(h) \/ HookClose(h)
      PROVE  [LedgerNext]_ledgerVars
  <2>1. doc[h] \in Transactions
    BY <1>6, Names
    DEF Shape, DocsOf, HookTransaction, HookClose, MerchantTypeOK
  <2> QED  BY <1>2, <1>6, <2>1, CallNames, Names DEF HookTransaction, HookClose
<1>7. CASE (\E h \in Handlers : RequestFails(h)) \/ ProcessEnds
           \/ \E h \in Activities : BackgroundFails(h)
  BY <1>3, <1>7 DEF RequestFails, ProcessEnds, BackgroundFails
<1> QED
  BY <1>1, <1>4, <1>5, <1>6, <1>7
  DEF MerchantNext, Initiation, ActivityStep, BackgroundStep, HookStep,
      UnawaitedFails, Crash, vars, CreateWallet, CreateTransaction, InitiationFails,
      CustomerPays, Expire, ActivityRead, ReadBalance, ReadTransaction,
      CreateOfframp, Link, Authorise, ReadOfframp, Process, SettleWallet, Recorded,
      Quote, BackgroundSave, ProviderEmits, HookRead, HookClosed, SaveTransaction,
      HookSave

-----------------------------------------------------------------------------
\* Each step assigns values of the right types; the ledger's are its own matter.
LEMMA TypesStep ==
  ASSUME MerchantTypeOK, LedgerTypeOK', Shape, Documents, Evidence,
         [MerchantNext]_vars
  PROVE  MerchantTypeOK'
<1>1. CASE UNCHANGED merchantVars
  BY <1>1 DEF MerchantTypeOK, merchantVars, docs, request, hook, outside, history
<1>2. ASSUME NEW m \in Payments, CreateWallet(m)  PROVE MerchantTypeOK'
  BY <1>2 DEF MerchantTypeOK, WalletStatuses, CreateWallet, request, history, hook
<1>3. ASSUME NEW m \in Payments, CreateTransaction(m)  PROVE MerchantTypeOK'
  BY <1>3 DEF MerchantTypeOK, MerchantStatuses, CreateTransaction, request, history,
     hook
<1>4. ASSUME NEW m \in Payments, InitiationFails(m)  PROVE MerchantTypeOK'
  BY <1>4 DEF MerchantTypeOK, InitiationFails, docs, request, history, hook
<1>5. ASSUME NEW m \in Payments, NEW n \in Deposits, CustomerPays(m, n)
      PROVE  MerchantTypeOK'
  BY <1>5, Names DEF MerchantTypeOK, CustomerPays, docs, request, history, hook
<1>6. ASSUME NEW m \in Payments, NEW h \in Activities, ActivityRead(h, m)
      PROVE  MerchantTypeOK'
  BY <1>6, Names DEF MerchantTypeOK, Resting, ActivitySteps, ActivityRead, hook,
     docs, outside, Goes
<1>7. ASSUME NEW h \in Activities, ReadBalance(h)  PROVE MerchantTypeOK'
  BY <1>7, Names DEF MerchantTypeOK, Resting, HookSteps, ReadBalance, hook, docs,
     outside, history, Goes
<1>8. ASSUME NEW h \in Activities, ReadTransaction(h)  PROVE MerchantTypeOK'
  BY <1>8, Names DEF MerchantTypeOK, Shape, ActivitySteps, ReadTransaction, hook,
     docs, outside, history, Goes
<1>9. ASSUME NEW h \in Activities, CreateOfframp(h)  PROVE MerchantTypeOK'
  BY <1>9, Names DEF MerchantTypeOK, ActivitySteps, OfframpStatuses, CreateOfframp,
     hook, outside, history, Goes
<1>10. ASSUME NEW h \in Activities, Link(h)  PROVE MerchantTypeOK'
  BY <1>10, Names DEF MerchantTypeOK, Shape, ActivitySteps, Link, hook, outside,
     history, Goes
<1>11. ASSUME NEW h \in Activities, Authorise(h)  PROVE MerchantTypeOK'
  BY <1>11, Names DEF MerchantTypeOK, ActivitySteps, OfframpStatuses, Authorise,
     hook, outside, history, Goes
<1>12. ASSUME NEW h \in Activities, ReadOfframp(h)  PROVE MerchantTypeOK'
  BY <1>12, Names DEF MerchantTypeOK, Resting, ActivitySteps, ReadOfframp, hook,
     docs, outside, history, Goes
<1>13. ASSUME NEW h \in Activities, Process(h)  PROVE MerchantTypeOK'
  BY <1>13, Names DEF MerchantTypeOK, Resting, Working, ActivitySteps, Process,
     hook, docs, outside, history, Goes
<1>14. ASSUME NEW h \in Activities, SaveFunded(h)  PROVE MerchantTypeOK'
  BY <1>14, Names DEF MerchantTypeOK, Shape, HookSteps, OfframpStatuses, Settled,
     SaveFunded, hook, outside, history, Goes
<1>15. ASSUME NEW h \in Activities, Recorded(h)  PROVE MerchantTypeOK'
  BY <1>15, Names DEF MerchantTypeOK, Resting, Recorded, hook, docs, outside,
     history, Goes
<1>16. ASSUME NEW h \in Activities, SettleWallet(h)  PROVE MerchantTypeOK'
  BY <1>16, Names DEF MerchantTypeOK, Shape, WalletStatuses, SettleWallet, hook,
     outside, history
<1>17. ASSUME NEW h \in Activities, Quote(h)  PROVE MerchantTypeOK'
  BY <1>17 DEF MerchantTypeOK, Working, Quote, docs, request, outside, history,
     Works, hook
<1>18. ASSUME NEW h \in Activities, Payout(h)  PROVE MerchantTypeOK'
  BY <1>18, SMTT(30) DEF MerchantTypeOK, Shape, Evidence, Working, Paying,
     WalletStatuses, Payout, docs, request, outside, Works, hook
<1>19. ASSUME NEW h \in Activities, BackgroundFails(h)  PROVE MerchantTypeOK'
  BY <1>19 DEF MerchantTypeOK, Shape, Paying, BackgroundFails, docs, request,
     outside, Works, hook
<1>20. ASSUME NEW h \in Activities, BackgroundSave(h)  PROVE MerchantTypeOK'
  BY <1>20 DEF MerchantTypeOK, Shape, OfframpStatuses, Settled, BackgroundSave,
     request, outside, history, Works, hook
<1>21. ASSUME NEW h \in Activities, Expire(h)  PROVE MerchantTypeOK'
  BY <1>21 DEF MerchantTypeOK, Expire, docs, request, history, hook
<1>22. ASSUME NEW o \in Activities, NEW e \in Events, ProviderEmits(o, e)
      PROVE  MerchantTypeOK'
  BY <1>22 DEF MerchantTypeOK, ProviderEmits, docs, request, history, hook
<1>23. ASSUME NEW h \in Webhooks, NEW o \in Activities, NEW e \in Events,
             HookRead(h, o, e)
      PROVE  MerchantTypeOK'
  BY <1>23, Names DEF MerchantTypeOK, Resting, HookSteps, OfframpStatuses, Settled,
     HookRead, docs, outside, Goes, StatusesFor
<1>24. ASSUME NEW h \in Webhooks, HookTransaction(h)  PROVE MerchantTypeOK'
  BY <1>24 DEF MerchantTypeOK, HookSteps, MerchantStatuses, HookTransaction, docs,
     outside, history, Goes, Sends, MerchantStatus
<1>25. ASSUME NEW h \in Webhooks, HookClose(h)  PROVE MerchantTypeOK'
  BY <1>25, Names DEF MerchantTypeOK, HookSteps, HookClose, hook, docs, outside,
     history, Goes
<1>26. ASSUME NEW h \in Webhooks, HookClosed(h)  PROVE MerchantTypeOK'
  BY <1>26, Names DEF MerchantTypeOK, HookSteps, HookClosed, hook, docs, outside,
     history, Goes, Sends
<1>27. ASSUME NEW h \in Webhooks, HookSave(h)  PROVE MerchantTypeOK'
  BY <1>27, Names, SMTT(30) DEF MerchantTypeOK, Shape, Resting, DocsOf, HookSave,
     hook, outside, history, Goes
<1>28. ASSUME NEW h \in Webhooks, SaveTransaction(h)  PROVE MerchantTypeOK'
  BY <1>28, Names DEF MerchantTypeOK, Shape, DocsOf, SaveTransaction, hook, outside,
     history
<1>29. ASSUME NEW h \in Handlers, RequestFails(h)  PROVE MerchantTypeOK'
  BY <1>29, Names, SMTT(30) DEF MerchantTypeOK, Shape, Resting, DocsOf,
     OfframpStatuses, Settled, RequestFails, hook, outside, Goes, PaymentOf
<1>30. CASE ProcessEnds
  BY <1>30, Names, SMTT(30) DEF MerchantTypeOK, Shape, Resting, Working, DocsOf,
     MerchantStatuses, ProcessEnds, hook, docs, AtWork, PaymentOf
<1> QED  BY <1>1, <1>2, <1>3, <1>4, <1>5, <1>6, <1>7, <1>8, <1>9, <1>10, <1>11,
   <1>12, <1>13, <1>14, <1>15, <1>16, <1>17, <1>18, <1>19, <1>20, <1>21, <1>22,
   <1>23, <1>24, <1>25, <1>26, <1>27, <1>28, <1>29, <1>30 DEF MerchantNext,
   Initiation, ActivityStep, BackgroundStep, HookStep, UnawaitedFails, Crash,
   LedgerRuns, vars

\* The program counters keep telling what they told.
LEMMA ShapeStep ==
  ASSUME MerchantTypeOK, Shape, Documents, [MerchantNext]_vars
  PROVE  Shape'
<1>1. CASE UNCHANGED <<stage, received, pc, pay, doc, statusTo, merchantTo,
                        unawaited, background, payouts>>
  BY <1>1 DEF Shape, DocsOf
<1>2. CASE UNCHANGED vars
  BY <1>1, <1>2 DEF vars, merchantVars, docs, request, hook, outside, history,
     ledgerVars
<1>3. ASSUME NEW h \in Activities, Expire(h)
      PROVE  Shape'
  BY <1>1, <1>3 DEF Expire, docs, request, history, ledgerVars, hook
<1>4. ASSUME NEW o \in Activities, NEW e \in Events, ProviderEmits(o, e)
      PROVE  Shape'
  BY <1>1, <1>4 DEF ProviderEmits, docs, request, history, ledgerVars, hook
<1>5. ASSUME NEW c \in Calls, LedgerRuns(c)
      PROVE  Shape'
  BY <1>1, <1>5 DEF LedgerRuns, merchantVars, docs, request, outside, history, hook,
     LedgerStep, Find, Open, Append, LookUp, Post, Goto
<1>6. ASSUME NEW m \in Payments, CreateWallet(m)  PROVE Shape'
  BY <1>6 DEF Shape, DocsOf, CreateWallet, request, history, hook
<1>7. ASSUME NEW m \in Payments, CreateTransaction(m)  PROVE Shape'
  BY <1>7 DEF Shape, DocsOf, CreateTransaction, request, history, hook
<1>8. ASSUME NEW m \in Payments, InitiationFails(m)  PROVE Shape'
  BY <1>8 DEF Shape, DocsOf, InitiationFails, request, history, hook
<1>9. ASSUME NEW m \in Payments, NEW n \in Deposits, CustomerPays(m, n)
      PROVE  Shape'
  BY <1>9 DEF Shape, DocsOf, CustomerPays, request, history, hook
<1>10. ASSUME NEW m \in Payments, NEW h \in Activities, ActivityRead(h, m)
      PROVE  Shape'
  BY <1>10, Names DEF MerchantTypeOK, Shape, Resting, ActivitySteps, DocsOf,
     ActivityRead, hook, outside, Goes
<1>11. ASSUME NEW h \in Activities, ReadBalance(h)  PROVE Shape'
  BY <1>11 DEF Shape, Paying, Resting, ActivitySteps, HookSteps, DocsOf,
     ReadBalance, hook, outside, history, Goes
<1>12. ASSUME NEW h \in Activities, ReadTransaction(h)  PROVE Shape'
  BY <1>12, Names, SMTT(30) DEF MerchantTypeOK, Shape, Documents, ActivitySteps,
     DocsOf, ReadTransaction, hook, outside, history, Goes
<1>13. ASSUME NEW h \in Activities, CreateOfframp(h)  PROVE Shape'
  BY <1>13 DEF Shape, Paying, ActivitySteps, HookSteps, DocsOf, CreateOfframp, hook,
     outside, history, Goes
<1>14. ASSUME NEW h \in Activities, Link(h)  PROVE Shape'
  BY <1>14 DEF Shape, Paying, ActivitySteps, HookSteps, DocsOf, Link, hook, outside,
     history, Goes
<1>15. ASSUME NEW h \in Activities, Authorise(h)  PROVE Shape'
  BY <1>15 DEF Shape, Paying, ActivitySteps, HookSteps, DocsOf, Authorise, hook,
     outside, history, Goes
<1>16. ASSUME NEW h \in Activities, ReadOfframp(h)  PROVE Shape'
  BY <1>16 DEF Shape, Paying, Resting, ActivitySteps, HookSteps, DocsOf,
     ReadOfframp, hook, outside, history, Goes
<1>17. ASSUME NEW h \in Activities, Process(h)  PROVE Shape'
  BY <1>17, Names DEF MerchantTypeOK, Shape, Paying, Resting, ActivitySteps, DocsOf,
     Process, hook, outside, history, Goes
<1>18. ASSUME NEW h \in Activities, SaveFunded(h)  PROVE Shape'
  BY <1>18 DEF MerchantTypeOK, Shape, Paying, ActivitySteps, HookSteps, DocsOf,
     SaveFunded, hook, outside, history, Goes
<1>19. ASSUME NEW h \in Activities, Recorded(h)  PROVE Shape'
  BY <1>19 DEF Shape, Paying, Resting, DocsOf, Recorded, hook, outside, history,
     Goes
<1>20. ASSUME NEW h \in Activities, SettleWallet(h)  PROVE Shape'
  BY <1>20 DEF Shape, DocsOf, SettleWallet, hook, outside, history
<1>21. ASSUME NEW h \in Activities, Quote(h)  PROVE Shape'
  BY <1>21 DEF Shape, DocsOf, Quote, request, outside, history, Works, hook
<1>22. ASSUME NEW h \in Activities, Payout(h)  PROVE Shape'
  BY <1>22 DEF MerchantTypeOK, Shape, DocsOf, Payout, request, outside, Works, hook
<1>23. ASSUME NEW h \in Activities, BackgroundFails(h)  PROVE Shape'
  BY <1>23 DEF Shape, DocsOf, BackgroundFails, request, outside, Works, hook
<1>24. ASSUME NEW h \in Activities, BackgroundSave(h)  PROVE Shape'
  BY <1>24 DEF Shape, DocsOf, BackgroundSave, request, outside, history, Works, hook
<1>25. ASSUME NEW h \in Webhooks, NEW o \in Activities, NEW e \in Events,
             HookRead(h, o, e)
      PROVE  Shape'
  BY <1>25, Names, SMTT(30) DEF MerchantTypeOK, Shape, Documents, HookSteps, DocsOf,
     HookRead, outside, Goes
<1>26. ASSUME NEW h \in Webhooks, HookTransaction(h)  PROVE Shape'
  BY <1>26, Names, SMTT(30) DEF MerchantTypeOK, Shape, HookSteps, DocsOf,
     HookTransaction, outside, history, Goes, Sends
<1>27. ASSUME NEW h \in Webhooks, HookClose(h)  PROVE Shape'
  BY <1>27, Names DEF Shape, HookSteps, DocsOf, HookClose, hook, outside, history,
     Goes
<1>28. ASSUME NEW h \in Webhooks, HookClosed(h)  PROVE Shape'
  BY <1>28 DEF MerchantTypeOK, Shape, Resting, ActivitySteps, HookSteps, DocsOf,
     HookClosed, hook, outside, history, Goes, Sends
<1>29. ASSUME NEW h \in Webhooks, HookSave(h)  PROVE Shape'
  BY <1>29 DEF Shape, Resting, ActivitySteps, DocsOf, HookSave, hook, outside,
     history, Goes
<1>30. ASSUME NEW h \in Webhooks, SaveTransaction(h)  PROVE Shape'
  BY <1>30 DEF Shape, DocsOf, SaveTransaction, hook, outside, history
<1>31. ASSUME NEW h \in Handlers, RequestFails(h)  PROVE Shape'
  BY <1>31 DEF Shape, Paying, Resting, HookSteps, DocsOf, RequestFails, hook,
     outside, Goes
<1>32. CASE ProcessEnds
  BY <1>32, Names DEF Shape, Paying, Resting, Working, DocsOf, ProcessEnds, hook
<1> QED  BY <1>1, <1>2, <1>3, <1>4, <1>5, <1>6, <1>7, <1>8, <1>9, <1>10, <1>11,
   <1>12, <1>13, <1>14, <1>15, <1>16, <1>17, <1>18, <1>19, <1>20, <1>21, <1>22,
   <1>23, <1>24, <1>25, <1>26, <1>27, <1>28, <1>29, <1>30, <1>31, <1>32 DEF
   MerchantNext, Initiation, ActivityStep, BackgroundStep, HookStep, UnawaitedFails,
   Crash

\* Nothing in flight goes on, and no document changes.
LEMMA ProcessEndsKeepsDocuments ==
  ASSUME MerchantTypeOK, Shape, Documents, Evidence, ProcessEnds
  PROVE  Documents'
  BY Names, SMTT(30) DEF MerchantTypeOK, Shape, Documents, DocsOf, Paying, Resting,
     Working, ActivitySteps, ProcessEnds, docs

\* A document's status is where its handlers have brought it.
LEMMA DocumentsStep ==
  ASSUME MerchantTypeOK, Shape, Documents, Evidence, [MerchantNext]_vars
  PROVE  Documents'
<1>1. CASE UNCHANGED <<offrampId, offramp, pc, pay, doc, background, rail, payouts>>
  BY <1>1 DEF Documents, DocsOf
<1>2. CASE UNCHANGED vars
  BY <1>1, <1>2 DEF vars, merchantVars, docs, request, hook, outside, history,
     ledgerVars
<1>3. ASSUME NEW m \in Payments, CreateWallet(m) \/ CreateTransaction(m) \/
   InitiationFails(m)
      PROVE  Documents'
  BY <1>1, <1>3 DEF CreateWallet, request, history, ledgerVars, hook,
     CreateTransaction, InitiationFails, docs
<1>4. ASSUME NEW m \in Payments, NEW n \in Deposits, CustomerPays(m, n)
      PROVE  Documents'
  BY <1>1, <1>4 DEF CustomerPays, docs, request, history, ledgerVars, hook
<1>5. ASSUME NEW h \in Activities, SettleWallet(h) \/ Expire(h)
      PROVE  Documents'
  BY <1>1, <1>5 DEF SettleWallet, hook, outside, history, ledgerVars, Expire, docs,
     request
<1>6. ASSUME NEW h \in Webhooks, SaveTransaction(h)
      PROVE  Documents'
  BY <1>1, <1>6 DEF SaveTransaction, hook, outside, history, ledgerVars
<1>7. ASSUME NEW c \in Calls, LedgerRuns(c)
      PROVE  Documents'
  BY <1>1, <1>7 DEF LedgerRuns, merchantVars, docs, request, outside, history, hook,
     LedgerStep, Find, Open, Append, LookUp, Post, Goto
<1>8. ASSUME NEW m \in Payments, NEW h \in Activities, ActivityRead(h, m)
      PROVE  Documents'
  BY <1>8 DEF Documents, DocsOf, ActivityRead, docs, outside, Goes
<1>9. ASSUME NEW h \in Activities, ReadBalance(h)  PROVE Documents'
  BY <1>9 DEF Documents, DocsOf, ReadBalance, docs, outside, history, Goes
<1>10. ASSUME NEW h \in Activities, ReadTransaction(h)  PROVE Documents'
  BY <1>10, SMTT(30) DEF MerchantTypeOK, Shape, Documents, Paying, DocsOf,
     ReadTransaction, docs, outside, history, Goes
<1>11. ASSUME NEW h \in Activities, CreateOfframp(h)  PROVE Documents'
  BY <1>11, Names DEF MerchantTypeOK, Shape, Documents, DocsOf, CreateOfframp,
     outside, history, Goes
<1>12. ASSUME NEW h \in Activities, Link(h)  PROVE Documents'
  BY <1>12 DEF Documents, DocsOf, Link, outside, history, Goes
<1>13. ASSUME NEW h \in Activities, Authorise(h)  PROVE Documents'
  BY <1>13, Names, SMTT(30) DEF MerchantTypeOK, Documents, DocsOf, Authorise,
     outside, history, Goes
<1>14. ASSUME NEW h \in Activities, ReadOfframp(h)  PROVE Documents'
  BY <1>14 DEF Documents, DocsOf, ReadOfframp, docs, outside, history, Goes
<1>15. ASSUME NEW h \in Activities, Process(h)  PROVE Documents'
  BY <1>15 DEF Documents, DocsOf, Process, docs, outside, history, Goes
<1>16. ASSUME NEW h \in Activities, SaveFunded(h)  PROVE Documents'
  BY <1>16 DEF Shape, Documents, DocsOf, SaveFunded, outside, history, Goes
<1>17. ASSUME NEW h \in Activities, Recorded(h)  PROVE Documents'
  BY <1>17 DEF Documents, DocsOf, Recorded, docs, outside, history, Goes
<1>18. ASSUME NEW h \in Activities, Quote(h)  PROVE Documents'
  BY <1>18 DEF Documents, DocsOf, Quote, docs, request, outside, history, Works
<1>19. ASSUME NEW h \in Activities, Payout(h)  PROVE Documents'
  BY <1>19 DEF MerchantTypeOK, Documents, DocsOf, Payout, docs, request, outside,
     Works
<1>20. ASSUME NEW h \in Activities, BackgroundFails(h)  PROVE Documents'
  BY <1>20 DEF Documents, DocsOf, BackgroundFails, docs, request, outside, Works
<1>21. ASSUME NEW h \in Activities, BackgroundSave(h)  PROVE Documents'
  BY <1>21 DEF Documents, DocsOf, BackgroundSave, request, outside, history, Works
<1>22. ASSUME NEW o \in Activities, NEW e \in Events, ProviderEmits(o, e)
      PROVE  Documents'
  BY <1>22 DEF Documents, DocsOf, ProviderEmits, docs, request, history
<1>23. ASSUME NEW h \in Webhooks, NEW o \in Activities, NEW e \in Events,
             HookRead(h, o, e)
      PROVE  Documents'
  BY <1>23, SMTT(30) DEF MerchantTypeOK, Shape, Documents, Paying, DocsOf, HookRead,
     docs, outside, Goes
<1>24. ASSUME NEW h \in Webhooks, HookTransaction(h)  PROVE Documents'
  BY <1>24, Names, SMTT(30) DEF MerchantTypeOK, Documents, DocsOf, HookTransaction,
     docs, outside, history, Goes
<1>25. ASSUME NEW h \in Webhooks, HookClose(h)  PROVE Documents'
  BY <1>25 DEF Documents, DocsOf, HookClose, docs, outside, history, Goes
<1>26. ASSUME NEW h \in Webhooks, HookClosed(h)  PROVE Documents'
  BY <1>26 DEF Documents, DocsOf, HookClosed, docs, outside, history, Goes
<1>27. ASSUME NEW h \in Webhooks, HookSave(h)  PROVE Documents'
  BY <1>27, Names, SMTT(30) DEF MerchantTypeOK, Shape, Documents, Evidence, DocsOf,
     Settled, HookSave, outside, history, Goes
<1>28. ASSUME NEW h \in Handlers, RequestFails(h)  PROVE Documents'
  BY <1>28, Names, SMTT(30) DEF MerchantTypeOK, Shape, Documents, DocsOf,
     RequestFails, outside, Goes
<1>29. CASE ProcessEnds
  BY <1>29, ProcessEndsKeepsDocuments
<1> QED  BY <1>1, <1>2, <1>3, <1>4, <1>5, <1>6, <1>7, <1>8, <1>9, <1>10, <1>11,
   <1>12, <1>13, <1>14, <1>15, <1>16, <1>17, <1>18, <1>19, <1>20, <1>21, <1>22,
   <1>23, <1>24, <1>25, <1>26, <1>27, <1>28, <1>29 DEF MerchantNext, Initiation,
   ActivityStep, BackgroundStep, HookStep, UnawaitedFails, Crash

\* Two activities at work on one payment are contended, so each document that is
\* authorised is the one the merchant transaction names.
LEMMA LinkingStep ==
  ASSUME MerchantTypeOK, Shape, Documents, Linking, [MerchantNext]_vars
  PROVE  Linking'
<1>1. CASE UNCHANGED <<offrampId, offramp, pc, pay, contended>>
  BY <1>1 DEF Linking
<1>2. CASE UNCHANGED vars
  BY <1>1, <1>2 DEF vars, merchantVars, docs, request, hook, outside, history,
     ledgerVars
<1>3. ASSUME NEW m \in Payments, CreateWallet(m) \/ CreateTransaction(m) \/
   InitiationFails(m)
      PROVE  Linking'
  BY <1>1, <1>3 DEF CreateWallet, request, history, ledgerVars, hook,
     CreateTransaction, InitiationFails, docs
<1>4. ASSUME NEW m \in Payments, NEW n \in Deposits, CustomerPays(m, n)
      PROVE  Linking'
  BY <1>1, <1>4 DEF CustomerPays, docs, request, history, ledgerVars, hook
<1>5. ASSUME NEW h \in Activities, SettleWallet(h) \/ Quote(h) \/ Payout(h) \/
   BackgroundFails(h) \/ Expire(h)
      PROVE  Linking'
  BY <1>1, <1>5 DEF SettleWallet, hook, outside, history, ledgerVars, Quote, docs,
     request, Works, Payout, Begin, BackgroundFails, AbortCalls, Expire
<1>6. ASSUME NEW o \in Activities, NEW e \in Events, ProviderEmits(o, e)
      PROVE  Linking'
  BY <1>1, <1>6 DEF ProviderEmits, docs, request, history, ledgerVars, hook
<1>7. ASSUME NEW h \in Webhooks, SaveTransaction(h)
      PROVE  Linking'
  BY <1>1, <1>7 DEF SaveTransaction, hook, outside, history, ledgerVars
<1>8. ASSUME NEW c \in Calls, LedgerRuns(c)
      PROVE  Linking'
  BY <1>1, <1>8 DEF LedgerRuns, merchantVars, docs, request, outside, history, hook,
     LedgerStep, Find, Open, Append, LookUp, Post, Goto
<1>9. ASSUME NEW m \in Payments, NEW h \in Activities, ActivityRead(h, m)
      PROVE  Linking'
  BY <1>9 DEF MerchantTypeOK, Documents, Linking, ActivityRead, docs, Goes
<1>10. ASSUME NEW h \in Activities, ReadBalance(h)  PROVE Linking'
  BY <1>10 DEF Linking, Resting, ReadBalance, docs, history, Goes
<1>11. ASSUME NEW h \in Activities, ReadTransaction(h)  PROVE Linking'
  BY <1>11 DEF Linking, Resting, ReadTransaction, docs, history, Goes
<1>12. ASSUME NEW h \in Activities, CreateOfframp(h)  PROVE Linking'
  BY <1>12 DEF Linking, Resting, CreateOfframp, history, Goes
<1>13. ASSUME NEW h \in Activities, Link(h)  PROVE Linking'
  BY <1>13, Names, SMTT(30) DEF MerchantTypeOK, Shape, Linking, Resting, Link,
     history, Goes
<1>14. ASSUME NEW h \in Activities, Authorise(h)  PROVE Linking'
  BY <1>14 DEF Linking, Resting, Authorise, history, Goes
<1>15. ASSUME NEW h \in Activities, ReadOfframp(h)  PROVE Linking'
  BY <1>15 DEF Linking, Resting, ReadOfframp, docs, history, Goes
<1>16. ASSUME NEW h \in Activities, Process(h)  PROVE Linking'
  BY <1>16 DEF Linking, Resting, Process, docs, history, Goes
<1>17. ASSUME NEW h \in Activities, SaveFunded(h)  PROVE Linking'
  BY <1>17, SMTT(30) DEF Shape, Documents, Linking, Resting, SaveFunded, history,
     Goes
<1>18. ASSUME NEW h \in Activities, Recorded(h)  PROVE Linking'
  BY <1>18 DEF Linking, Resting, Recorded, docs, history, Goes
<1>19. ASSUME NEW h \in Activities, BackgroundSave(h)  PROVE Linking'
  BY <1>19 DEF Documents, Linking, BackgroundSave, request, history
<1>20. ASSUME NEW h \in Webhooks, NEW o \in Activities, NEW e \in Events,
             HookRead(h, o, e)
      PROVE  Linking'
  BY <1>20, Names DEF Linking, HookRead, docs, Goes
<1>21. ASSUME NEW h \in Webhooks, HookTransaction(h)  PROVE Linking'
  BY <1>21, Names, SMTT(30) DEF MerchantTypeOK, Shape, Documents, Linking, Paying,
     HookSteps, HookTransaction, docs, history, Goes
<1>22. ASSUME NEW h \in Webhooks, HookClose(h)  PROVE Linking'
  BY <1>22 DEF Linking, Resting, HookClose, docs, history, Goes
<1>23. ASSUME NEW h \in Webhooks, HookClosed(h)  PROVE Linking'
  BY <1>23 DEF Linking, Resting, HookClosed, docs, history, Goes
<1>24. ASSUME NEW h \in Webhooks, HookSave(h)  PROVE Linking'
  BY <1>24, SMTT(30) DEF MerchantTypeOK, Shape, Documents, Linking, Paying, Resting,
     DocsOf, HookSave, history, Goes
<1>25. ASSUME NEW h \in Handlers, RequestFails(h)  PROVE Linking'
  BY <1>25, Names, SMTT(30) DEF MerchantTypeOK, Shape, Documents, Linking, DocsOf,
     RequestFails, Goes
<1>26. CASE ProcessEnds
  BY <1>26, Names DEF Linking, ProcessEnds, docs
<1> QED  BY <1>1, <1>2, <1>3, <1>4, <1>5, <1>6, <1>7, <1>8, <1>9, <1>10, <1>11,
   <1>12, <1>13, <1>14, <1>15, <1>16, <1>17, <1>18, <1>19, <1>20, <1>21, <1>22,
   <1>23, <1>24, <1>25, <1>26 DEF MerchantNext, Initiation, ActivityStep,
   BackgroundStep, HookStep, UnawaitedFails, Crash

\* An event only adds to what is reported, and none follows the last one.
LEMMA ProviderEmitsKeepsEvidence ==
  ASSUME MerchantTypeOK, Shape, Documents, Linking, Evidence,
         NEW o \in Activities, NEW e \in Events, ProviderEmits(o, e)
  PROVE  Evidence'
<1> USE Names DEF MerchantTypeOK, Evidence
<1>1. /\ UNCHANGED <<wallet, transaction, offramp, pc, pay, doc, statusTo, merchantTo,
                     unawaited, background>>
      /\ rail' = [rail EXCEPT ![o] = @ \cup {e}]
      /\ rail[o] \cap {e, "complete", "failed"} = {}
  BY DEF ProviderEmits, docs, request, hook
<1>2. \A p \in Activities : rail[p] \subseteq rail'[p]
  BY <1>1
<1>3. StatusEvidence'
  <2>1. \A p \in Activities :
          /\ offramp'[p] \in Settled =>
               \E g \in Activities : doc'[g] = p /\ background'[g] # "none"
          /\ offramp'[p] = "completed" => "complete" \in rail'[p]
          /\ offramp'[p] = "failed" => rail'[p] \cap {"failed", "pendingApproval"} # {}
    BY <1>1, <1>2 DEF StatusEvidence
  <2>2. ASSUME NEW m \in Payments
        PROVE  LET events == UNION {rail'[p] : p \in {a \in Activities : pay'[a] = m}}
               IN /\ wallet'[m] = "settled" =>
                       \E p \in Activities : pay'[p] = m /\ offramp'[p] \in Settled
                  /\ transaction'[m] = "completed" => "complete" \in events
                  /\ transaction'[m] = "failed" => events \cap {"failed", "pendingApproval"} # {}
    <3>1. UNION {rail[p] : p \in {a \in Activities : pay[a] = m}}
            \subseteq UNION {rail'[p] : p \in {a \in Activities : pay'[a] = m}}
      BY <1>1, <1>2
    <3> QED  BY <1>1, <3>1, SMTT(30) DEF StatusEvidence 
  <2> QED  BY <2>1, <2>2 DEF StatusEvidence
<1>4. \A p \in Activities : ~({"complete", "failed"} \subseteq rail'[p])
  BY <1>1
<1>5. \A w \in Webhooks : pc[w] # "idle" => doc[w] \in Activities
  BY DEF Shape, DocsOf
<1>6. \A w \in Webhooks : pc[w] = "idle" => statusTo[w] = "none"
  BY DEF Shape
<1> QED  BY <1>1, <1>2, <1>3, <1>4, <1>5, <1>6 DEF Evidence

\* A webhook is about to save what the event it read says.
LEMMA HookReadKeepsEvidence ==
  ASSUME MerchantTypeOK, Shape, Documents, Linking, Evidence,
         NEW h \in Webhooks, NEW o \in Activities, NEW e \in Events, HookRead(h, o, e)
  PROVE  Evidence'
<1> USE Names DEF MerchantTypeOK
<1>1. /\ UNCHANGED <<wallet, transaction, offramp, pay, rail, merchantTo, unawaited,
                     background>>
      /\ doc' = [doc EXCEPT ![h] = o] /\ e \in rail[o]
      /\ pc[h] = "idle"
  BY DEF HookRead, docs, outside
<1>2. PICK s \in StatusesFor(e) :
        /\ statusTo' = [statusTo EXCEPT ![h] = s]
        /\ pc' = [pc EXCEPT ![h] = IF offramp[o] \in {"none", "initiated"} \/ s = "none"
                                   THEN "done" ELSE "transaction"]
  BY DEF HookRead, Goes
<1>3. /\ s \in {"none", "pending", "transit", "completed", "failed"}
      /\ s = "completed" => e = "complete"
      /\ s = "failed" => e \in {"failed", "pendingApproval"}
  BY DEF StatusesFor, Events
<1>4. \A g \in Activities : doc'[g] = doc[g] /\ pc'[g] = pc[g]
  BY <1>1, <1>2
<1>5. StatusEvidence'
  BY <1>1, <1>4 DEF Evidence, StatusEvidence
<1>6. merchantTo[h] = "none"
  BY <1>1 DEF Shape
<1>7. \A g \in Activities :
       (pc[g] = "record" \/ unawaited[g] # "none" => offramp[doc[g]] \in Settled)'
  BY <1>1, <1>4 DEF Evidence
<1>8. \A w \in Webhooks :
        (/\ pc[w] \in HookSteps => statusTo[w] \in Settled \ {"funded"}
         /\ statusTo[w] = "completed" => "complete" \in rail[doc[w]]
         /\ statusTo[w] = "failed" => rail[doc[w]] \cap {"failed", "pendingApproval"} # {}
         /\ merchantTo[w] \in Ends => statusTo[w] = merchantTo[w])'
  BY <1>1, <1>2, <1>3, <1>6 DEF Evidence, Handlers, HookSteps, Settled, Ends
<1> QED  BY <1>1, <1>5, <1>7, <1>8 DEF Evidence

\* A status is written only by who has the evidence for it.
LEMMA EvidenceStep ==
  ASSUME MerchantTypeOK, Shape, Documents, Linking, Evidence, [MerchantNext]_vars
  PROVE  Evidence'
<1>1. CASE UNCHANGED <<wallet, transaction, offramp, pc, pay, doc, statusTo,
                        merchantTo, unawaited, background, rail>>
  BY <1>1 DEF Evidence, StatusEvidence
<1>2. CASE UNCHANGED vars
  BY <1>1, <1>2 DEF vars, merchantVars, docs, request, hook, outside, history,
     ledgerVars
<1>3. ASSUME NEW m \in Payments, InitiationFails(m)
      PROVE  Evidence'
  BY <1>1, <1>3 DEF InitiationFails, docs, request, history, ledgerVars, hook
<1>4. ASSUME NEW m \in Payments, NEW n \in Deposits, CustomerPays(m, n)
      PROVE  Evidence'
  BY <1>1, <1>4 DEF CustomerPays, docs, request, history, ledgerVars, hook
<1>5. ASSUME NEW h \in Activities, Expire(h)
      PROVE  Evidence'
  BY <1>1, <1>5 DEF Expire, docs, request, history, ledgerVars, hook
<1>6. ASSUME NEW c \in Calls, LedgerRuns(c)
      PROVE  Evidence'
  BY <1>1, <1>6 DEF LedgerRuns, merchantVars, docs, request, outside, history, hook,
     LedgerStep, Find, Open, Append, LookUp, Post, Goto
<1>7. ASSUME NEW m \in Payments, CreateWallet(m)  PROVE Evidence'
  BY <1>7 DEF Evidence, StatusEvidence, CreateWallet, request, hook
<1>8. ASSUME NEW m \in Payments, CreateTransaction(m)  PROVE Evidence'
  BY <1>8 DEF Evidence, StatusEvidence, CreateTransaction, request, hook
<1>9. ASSUME NEW m \in Payments, NEW h \in Activities, ActivityRead(h, m)
      PROVE  Evidence'
  BY <1>9, SMTT(30) DEF MerchantTypeOK, Shape, Documents, Evidence, StatusEvidence,
     Paying, HookSteps, Resting, DocsOf, ActivityRead, hook, docs, outside, Goes
<1>10. ASSUME NEW h \in Activities, ReadBalance(h)  PROVE Evidence'
  BY <1>10 DEF Shape, Evidence, StatusEvidence, ReadBalance, hook, docs, outside,
     Goes
<1>11. ASSUME NEW h \in Activities, ReadTransaction(h)  PROVE Evidence'
  BY <1>11, Names DEF MerchantTypeOK, Shape, Evidence, StatusEvidence,
     ReadTransaction, hook, docs, outside, Goes
<1>12. ASSUME NEW h \in Activities, CreateOfframp(h)  PROVE Evidence'
  BY <1>12 DEF Documents, Evidence, StatusEvidence, HookSteps, Settled,
     CreateOfframp, hook, outside, Goes
<1>13. ASSUME NEW h \in Activities, Link(h)  PROVE Evidence'
  BY <1>13 DEF Evidence, StatusEvidence, HookSteps, Link, hook, outside, Goes
<1>14. ASSUME NEW h \in Activities, Authorise(h)  PROVE Evidence'
  BY <1>14 DEF Documents, Evidence, StatusEvidence, HookSteps, Settled, Authorise,
     hook, outside, Goes
<1>15. ASSUME NEW h \in Activities, ReadOfframp(h)  PROVE Evidence'
  BY <1>15 DEF Evidence, StatusEvidence, HookSteps, ReadOfframp, hook, docs,
     outside, Goes
<1>16. ASSUME NEW h \in Activities, Process(h)  PROVE Evidence'
  BY <1>16 DEF Evidence, StatusEvidence, HookSteps, Process, hook, docs, outside,
     Goes
<1>17. ASSUME NEW h \in Activities, SaveFunded(h)  PROVE Evidence'
  BY <1>17 DEF MerchantTypeOK, Shape, Evidence, StatusEvidence, ActivitySteps,
     DocsOf, Settled, SaveFunded, hook, outside, Goes
<1>18. ASSUME NEW h \in Activities, Recorded(h)  PROVE Evidence'
  BY <1>18, Names DEF Evidence, StatusEvidence, Recorded, hook, docs, outside, Goes
<1>19. ASSUME NEW h \in Activities, SettleWallet(h)  PROVE Evidence'
  BY <1>19, Names DEF Shape, Evidence, StatusEvidence, SettleWallet, hook, outside
<1>20. ASSUME NEW h \in Activities, Quote(h)  PROVE Evidence'
  BY <1>20 DEF Evidence, StatusEvidence, Quote, docs, request, outside, Works, hook
<1>21. ASSUME NEW h \in Activities, Payout(h)  PROVE Evidence'
  BY <1>21 DEF MerchantTypeOK, Evidence, StatusEvidence, Payout, docs, request,
     outside, Works, hook
<1>22. ASSUME NEW h \in Activities, BackgroundFails(h)  PROVE Evidence'
  BY <1>22 DEF Evidence, StatusEvidence, BackgroundFails, docs, request, outside,
     Works, hook
<1>23. ASSUME NEW h \in Activities, BackgroundSave(h)  PROVE Evidence'
  BY <1>23 DEF Evidence, StatusEvidence, Settled, BackgroundSave, request, outside,
     Works, hook
<1>24. ASSUME NEW o \in Activities, NEW e \in Events, ProviderEmits(o, e)
      PROVE  Evidence'
  BY <1>24, ProviderEmitsKeepsEvidence
<1>25. ASSUME NEW h \in Webhooks, NEW o \in Activities, NEW e \in Events,
             HookRead(h, o, e)
      PROVE  Evidence'
  BY <1>25, HookReadKeepsEvidence
<1>26. ASSUME NEW h \in Webhooks, HookTransaction(h)  PROVE Evidence'
  BY <1>26, Names, SMTT(30) DEF MerchantTypeOK, Evidence, StatusEvidence, Ends,
     HookSteps, HookTransaction, docs, outside, Goes, Sends, MerchantStatus
<1>27. ASSUME NEW h \in Webhooks, HookClose(h)  PROVE Evidence'
  BY <1>27 DEF Evidence, StatusEvidence, HookSteps, HookClose, hook, docs, outside,
     Goes
<1>28. ASSUME NEW h \in Webhooks, HookClosed(h)  PROVE Evidence'
  BY <1>28 DEF Shape, Evidence, StatusEvidence, ActivitySteps, Resting, HookClosed,
     hook, docs, outside, Goes, Sends
<1>29. ASSUME NEW h \in Webhooks, HookSave(h)  PROVE Evidence'
  BY <1>29, SMTT(30) DEF MerchantTypeOK, Shape, Evidence, StatusEvidence, Ends,
     ActivitySteps, DocsOf, HookSave, hook, outside, Goes
<1>30. ASSUME NEW h \in Webhooks, SaveTransaction(h)  PROVE Evidence'
  BY <1>30, SMTT(60) DEF MerchantTypeOK, Shape, Evidence, StatusEvidence, Ends,
     Paying, ActivitySteps, HookSteps, DocsOf, SaveTransaction, hook, outside
<1>31. ASSUME NEW h \in Handlers, RequestFails(h)  PROVE Evidence'
  BY <1>31, Names, SMTT(30) DEF MerchantTypeOK, Shape, Evidence, StatusEvidence,
     Resting, DocsOf, Settled, RequestFails, hook, outside, Goes, PaymentOf
<1>32. CASE ProcessEnds
  BY <1>32, Names DEF Evidence, StatusEvidence, HookSteps, ProcessEnds, hook, docs
<1> QED  BY <1>1, <1>2, <1>3, <1>4, <1>5, <1>6, <1>7, <1>8, <1>9, <1>10, <1>11,
   <1>12, <1>13, <1>14, <1>15, <1>16, <1>17, <1>18, <1>19, <1>20, <1>21, <1>22,
   <1>23, <1>24, <1>25, <1>26, <1>27, <1>28, <1>29, <1>30, <1>31, <1>32 DEF
   MerchantNext, Initiation, ActivityStep, BackgroundStep, HookStep, UnawaitedFails,
   Crash

\* The activity's call about its document begins with the save of FUNDED.
LEMMA SaveFundedKeepsCalling ==
  ASSUME MerchantTypeOK, Shape, Documents, LedgerInv, Evidence, Calling,
         NEW h \in Activities, SaveFunded(h)
  PROVE  Calling'
<1> USE Names, CallNames DEF MerchantTypeOK
<1>1. /\ about' = [about EXCEPT ![ReceivedCall(h)] = doc[h]]
      /\ pc' = [pc EXCEPT ![h] = "record"] /\ pc[h] = "saveFunded"
      /\ step[ReceivedCall(h)] = "idle"
      /\ UNCHANGED <<doc, statusTo, background, posted>>
  BY DEF SaveFunded, Begin, Goes, hook
<1>2. \A c \in Calls : c # ReceivedCall(h) => about'[c] = about[c]
  BY <1>1 DEF LedgerInv, LedgerTypeOK
<1>3. about'[ReceivedCall(h)] = doc[h]
  BY <1>1 DEF LedgerInv, LedgerTypeOK
<1>4. ReceivedCall(h) \notin posted
  BY <1>1 DEF LedgerInv, LedgerTypeOK, CallsInStep
<1>5. \A d \in posted : about'[d] = about[d]
  BY <1>2, <1>4 DEF LedgerInv, LedgerTypeOK
<1>11. \A w \in Webhooks : /\ about'[SettleCall(w)] = about[SettleCall(w)]
                            /\ about'[CloseCall(w)] = about[CloseCall(w)]
  BY <1>2
<1>12. \A g \in Activities : g # h => about'[ReceivedCall(g)] = about[ReceivedCall(g)]
                                     /\ about'[FundedCall(g)] = about[FundedCall(g)]
  BY <1>2
<1>13. about'[FundedCall(h)] = about[FundedCall(h)]
  BY <1>2
<1> HIDE Names, CallNames
<1>14. /\ pc'[h] = "record" /\ \A g \in Handlers : g # h => pc'[g] = pc[g]
       /\ h \notin Webhooks
  BY <1>1, Names
<1>15. \A d \in posted' : \E w \in Webhooks : about'[CloseCall(w)] = about'[d]
  BY <1>1, <1>5, <1>11 DEF Calling
<1> HIDE DEF MerchantTypeOK
<1> QED  BY <1>1, <1>3, <1>11, <1>12, <1>13, <1>14, <1>15 DEF Calling, Handlers

\* The background handler's call begins when the provider has accepted the payout.
LEMMA PayoutKeepsCalling ==
  ASSUME MerchantTypeOK, Shape, Documents, LedgerInv, Evidence, Calling,
         NEW h \in Activities, Payout(h)
  PROVE  Calling'
<1> USE Names, CallNames DEF MerchantTypeOK
<1>1. /\ background[h] = "payout"
      /\ UNCHANGED <<doc, statusTo, pc, posted>>
  BY DEF Payout, Begin, request, hook, ledgerVars
<1>2. CASE /\ background' = [background EXCEPT ![h] = "record"]
           /\ about' = [about EXCEPT ![FundedCall(h)] = doc[h]]
           /\ step[FundedCall(h)] = "idle"
  <2>1. \A c \in Calls : c # FundedCall(h) => about'[c] = about[c]
    BY <1>2 DEF LedgerInv, LedgerTypeOK
  <2>2. about'[FundedCall(h)] = doc[h]
    BY <1>2 DEF LedgerInv, LedgerTypeOK
  <2>3. FundedCall(h) \notin posted
    BY <1>2 DEF LedgerInv, LedgerTypeOK, CallsInStep
  <2>4. \A d \in posted : about'[d] = about[d]
    BY <2>1, <2>3 DEF LedgerInv, LedgerTypeOK
  <2>11. \A w \in Webhooks : /\ about'[SettleCall(w)] = about[SettleCall(w)]
                              /\ about'[CloseCall(w)] = about[CloseCall(w)]
    BY <2>1
  <2>12. \A g \in Activities : g # h => about'[ReceivedCall(g)] = about[ReceivedCall(g)]
                                       /\ about'[FundedCall(g)] = about[FundedCall(g)]
    BY <2>1
  <2>13. about'[ReceivedCall(h)] = about[ReceivedCall(h)]
    BY <2>1
  <2> HIDE Names, CallNames
  <2> QED  BY <1>1, <1>2, <2>2, <2>4, <2>11, <2>12, <2>13 DEF Calling, Handlers
<1>3. CASE /\ background' = [background EXCEPT ![h] = "failed"]
           /\ UNCHANGED about
  BY <1>1, <1>3 DEF Calling
<1> QED  BY <1>2, <1>3 DEF Payout, Works, Begin, ledgerVars

\* A webhook's settlement begins when it has read a final status.
LEMMA HookTransactionKeepsCalling ==
  ASSUME MerchantTypeOK, Shape, Documents, LedgerInv, Evidence, Calling,
         NEW h \in Webhooks, HookTransaction(h)
  PROVE  Calling'
<1> USE Names DEF MerchantTypeOK
<1>1. /\ pc[h] = "transaction" /\ h \notin Activities
      /\ UNCHANGED <<doc, statusTo, background, posted>>
  BY DEF HookTransaction, Begin, ledgerVars, hook
<1>2. CASE /\ about' = [about EXCEPT ![SettleCall(h)] = doc[h]]
           /\ pc' = [pc EXCEPT ![h] = "record"]
           /\ step[SettleCall(h)] = "idle" /\ statusTo[h] \in Ends
  <2>1. \A c \in Calls : c # SettleCall(h) => about'[c] = about[c]
    BY <1>2 DEF LedgerInv, LedgerTypeOK
  <2>2. about'[SettleCall(h)] = doc[h]
    BY <1>2, CallNames DEF LedgerInv, LedgerTypeOK
  <2>3. SettleCall(h) \notin posted
    BY <1>2, CallNames DEF LedgerInv, LedgerTypeOK, CallsInStep
  <2>4. \A d \in posted : about'[d] = about[d]
    BY <2>1, <2>3 DEF LedgerInv, LedgerTypeOK
  <2>5. \A g \in Activities : /\ about'[ReceivedCall(g)] = about[ReceivedCall(g)]
                              /\ about'[FundedCall(g)] = about[FundedCall(g)]
    BY <2>1, CallNames
  <2>6. \A w \in Webhooks : about'[CloseCall(w)] = about[CloseCall(w)]
    BY <2>1, CallNames
  <2>7. \A w \in Webhooks \ {h} : about'[SettleCall(w)] = about[SettleCall(w)]
    BY <2>1, CallNames
  <2>8. \A d \in posted' : \E w \in Webhooks : about'[CloseCall(w)] = about'[d]
    BY <1>1, <2>4, <2>6 DEF Calling
  <2>9. pc'[h] = "record" /\ \A g \in Handlers \ {h} : pc'[g] = pc[g]
    BY <1>2
  <2>10. \A g \in Activities :
           (/\ about[ReceivedCall(g)] \in {None, doc[g]}
            /\ pc[g] \notin {"record", "done", "failed"} => about[ReceivedCall(g)] = None
            /\ pc[g] = "record" => about[ReceivedCall(g)] = doc[g]
            /\ about[FundedCall(g)] \in {None, doc[g]}
            /\ background[g] \notin {"record", "done", "failed"} => about[FundedCall(g)] = None
            /\ background[g] = "record" => about[FundedCall(g)] = doc[g])'
    BY <1>1, <2>5, <2>9 DEF Calling
  <2>11. \A w \in Webhooks :
           (/\ about[SettleCall(w)] \in {None, doc[w]}
            /\ about[SettleCall(w)] # None => statusTo[w] \in Ends
            /\ pc[w] \in {"idle", "transaction"} => about[SettleCall(w)] = None
            /\ pc[w] = "record" => about[SettleCall(w)] = doc[w]
            /\ about[CloseCall(w)] \in {None, doc[w]}
            /\ pc[w] \in {"idle", "transaction", "record"} => about[CloseCall(w)] = None
            /\ pc[w] = "close" => about[CloseCall(w)] = doc[w])'
    BY <1>1, <1>2, <2>2, <2>6, <2>7, <2>9 DEF Calling
  <2> QED  BY <2>8, <2>10, <2>11 DEF Calling
<1>3. CASE UNCHANGED about /\ pc' = [pc EXCEPT ![h] = "save"]
  BY <1>1, <1>3 DEF Calling
<1> QED
  BY <1>1, <1>2, <1>3 DEF HookTransaction, Begin, Goes, ledgerVars, Ends

\* A handler's ledger calls are about its document, and begin when its program
\* counter says.
LEMMA CallingStep ==
  ASSUME MerchantTypeOK, Shape, Documents, LedgerInv, Evidence, Calling,
         [MerchantNext]_vars
  PROVE  Calling'
<1>1. CASE UNCHANGED <<pc, doc, statusTo, background, about, posted>>
  BY <1>1 DEF Calling
<1>2. CASE UNCHANGED vars
  BY <1>1, <1>2 DEF vars, merchantVars, docs, request, hook, outside, history,
     ledgerVars
<1>3. ASSUME NEW m \in Payments, CreateWallet(m) \/ CreateTransaction(m) \/
   InitiationFails(m)
      PROVE  Calling'
  BY <1>1, <1>3 DEF CreateWallet, request, history, ledgerVars, hook,
     CreateTransaction, InitiationFails, docs
<1>4. ASSUME NEW m \in Payments, NEW n \in Deposits, CustomerPays(m, n)
      PROVE  Calling'
  BY <1>1, <1>4 DEF CustomerPays, docs, request, history, ledgerVars, hook
<1>5. ASSUME NEW h \in Activities, SettleWallet(h) \/ Expire(h)
      PROVE  Calling'
  BY <1>1, <1>5 DEF SettleWallet, hook, outside, history, ledgerVars, Expire, docs,
     request
<1>6. ASSUME NEW o \in Activities, NEW e \in Events, ProviderEmits(o, e)
      PROVE  Calling'
  BY <1>1, <1>6 DEF ProviderEmits, docs, request, history, ledgerVars, hook
<1>7. ASSUME NEW h \in Webhooks, SaveTransaction(h)
      PROVE  Calling'
  BY <1>1, <1>7 DEF SaveTransaction, hook, outside, history, ledgerVars
<1>8. ASSUME NEW m \in Payments, NEW h \in Activities, ActivityRead(h, m)
      PROVE  Calling'
  BY <1>8 DEF Calling, ActivityRead, hook, ledgerVars, Goes
<1>9. ASSUME NEW h \in Activities, ReadBalance(h)  PROVE Calling'
  BY <1>9 DEF Shape, Calling, ReadBalance, hook, ledgerVars, Goes
<1>10. ASSUME NEW h \in Activities, ReadTransaction(h)  PROVE Calling'
  BY <1>10 DEF Shape, Calling, Paying, ReadTransaction, hook, ledgerVars, Goes
<1>11. ASSUME NEW h \in Activities, CreateOfframp(h)  PROVE Calling'
  BY <1>11 DEF Calling, CreateOfframp, hook, ledgerVars, Goes
<1>12. ASSUME NEW h \in Activities, Link(h)  PROVE Calling'
  BY <1>12 DEF Calling, Link, hook, ledgerVars, Goes
<1>13. ASSUME NEW h \in Activities, Authorise(h)  PROVE Calling'
  BY <1>13 DEF Calling, Authorise, hook, ledgerVars, Goes
<1>14. ASSUME NEW h \in Activities, ReadOfframp(h)  PROVE Calling'
  BY <1>14 DEF Calling, ReadOfframp, hook, ledgerVars, Goes
<1>15. ASSUME NEW h \in Activities, Process(h)  PROVE Calling'
  BY <1>15 DEF Shape, Calling, Paying, Process, hook, ledgerVars, Goes
<1>16. ASSUME NEW h \in Activities, SaveFunded(h)  PROVE Calling'
  BY <1>16, SaveFundedKeepsCalling
<1>17. ASSUME NEW h \in Activities, Recorded(h)  PROVE Calling'
  BY <1>17 DEF Calling, Recorded, hook, ledgerVars, Goes
<1>18. ASSUME NEW h \in Activities, Quote(h)  PROVE Calling'
  BY <1>18 DEF Calling, Quote, request, ledgerVars, Works, hook
<1>19. ASSUME NEW h \in Activities, Payout(h)  PROVE Calling'
  BY <1>19, PayoutKeepsCalling
<1>20. ASSUME NEW h \in Activities, BackgroundFails(h)  PROVE Calling'
  BY <1>20 DEF Calling, BackgroundFails, request, Works, AbortCalls, hook
<1>21. ASSUME NEW h \in Activities, BackgroundSave(h)  PROVE Calling'
  BY <1>21 DEF Calling, BackgroundSave, request, ledgerVars, Works, hook
<1>22. ASSUME NEW h \in Webhooks, NEW o \in Activities, NEW e \in Events,
             HookRead(h, o, e)
      PROVE  Calling'
  BY <1>22 DEF Shape, Calling, Paying, HookRead, ledgerVars, Goes
<1>23. ASSUME NEW h \in Webhooks, HookTransaction(h)  PROVE Calling'
  BY <1>23, HookTransactionKeepsCalling
<1>24. ASSUME NEW h \in Webhooks, HookClose(h)  PROVE Calling'
  BY <1>24, Names, CallNames DEF MerchantTypeOK, LedgerInv, CallsInStep,
     LedgerTypeOK, Calling, HookClose, hook, Goes, Begin
<1>25. ASSUME NEW h \in Webhooks, HookClosed(h)  PROVE Calling'
  BY <1>25 DEF Calling, HookClosed, hook, ledgerVars, Goes
<1>26. ASSUME NEW h \in Webhooks, HookSave(h)  PROVE Calling'
  BY <1>26 DEF Calling, HookSave, hook, ledgerVars, Goes
<1>27. ASSUME NEW h \in Handlers, RequestFails(h)  PROVE Calling'
  BY <1>27 DEF Calling, RequestFails, hook, Goes, AbortCalls
<1>28. ASSUME NEW c \in Calls, LedgerRuns(c)  PROVE Calling'
  BY <1>28, Names, CallNames DEF LedgerInv, CallsInStep, LedgersOf, Calling,
     LedgerRuns, merchantVars, request, hook, LedgerStep, Find, Open, Append,
     LookUp, Post
<1>29. CASE ProcessEnds
  BY <1>29, Names DEF Calling, ProcessEnds, hook, AbortCalls
<1> QED  BY <1>1, <1>2, <1>3, <1>4, <1>5, <1>6, <1>7, <1>8, <1>9, <1>10, <1>11,
   <1>12, <1>13, <1>14, <1>15, <1>16, <1>17, <1>18, <1>19, <1>20, <1>21, <1>22,
   <1>23, <1>24, <1>25, <1>26, <1>27, <1>28, <1>29 DEF MerchantNext, Initiation,
   ActivityStep, BackgroundStep, HookStep, UnawaitedFails, Crash

\* A webhook that begins has closed nothing and settled nothing.
LEMMA HookReadKeepsClosing ==
  ASSUME MerchantTypeOK, Shape, Documents, Evidence, Calling, LedgerInv, LedgerInv',
         LedgerKept, Closing,
         NEW h \in Webhooks, NEW o \in Activities, NEW e \in Events, HookRead(h, o, e)
  PROVE  Closing'
<1> USE Names DEF MerchantTypeOK
<1>1. /\ UNCHANGED <<transaction, pay, merchantTo, unawaited, step, about, opened,
                     posted, recorded>>
      /\ doc' = [doc EXCEPT ![h] = o] /\ pc[h] = "idle"
      /\ \A w \in Webhooks : pc[w] # "idle" => pc'[w] # "idle"
      /\ \A w \in Webhooks \ {h} : statusTo'[w] = statusTo[w]
  BY DEF HookRead, Goes, docs, ledgerVars
<1>2. about[CloseCall(h)] = None /\ doc[h] = None
  BY <1>1 DEF Calling, Shape
<1>3. step[CloseCall(h)] = "idle"
  BY <1>2, CallNames DEF LedgerInv, CallsInStep
<1>4. \A w \in Webhooks \ {h} : doc'[w] = doc[w]
  BY <1>1
<1>6. \A w \in Webhooks : (about[CloseCall(w)] # None => SettledIn(doc[w]))'
  <2> SUFFICES ASSUME NEW w \in Webhooks, about'[CloseCall(w)] # None
               PROVE  SettledIn(doc[w])'
    OBVIOUS
  <2>1. w # h /\ about[CloseCall(w)] # None
    BY <1>1, <1>2
  <2>2. SettledIn(doc[w]) /\ doc[w] # None
    BY <2>1 DEF Closing, Calling, Handlers
  <2>3. PICK v \in Webhooks, d \in LedgersOf(doc[w]) :
          doc[v] = doc[w] /\ statusTo[v] \in Ends /\ SettleCall(v) \in recorded[d]
    BY <2>2 DEF SettledIn
  <2>4. v # h
    BY <1>2, <2>2, <2>3
  <2> QED  BY <1>1, <1>4, <2>1, <2>3, <2>4 DEF SettledIn, LedgersOf
<1>7. \A w \in Webhooks :
        (step[CloseCall(w)] = "done" => LedgersOf(doc[w]) \cap posted # {})'
  BY <1>1, <1>3, <1>4 DEF Closing, LedgersOf
<1>8. merchantTo[h] = "none" /\ unawaited[h] = "none"
  BY <1>1 DEF Shape
<1>9. \A w \in Webhooks : (merchantTo[w] \in Ends /\ unawaited[w] # "none" =>
                            step[CloseCall(w)] = "done")'
  BY <1>1, <1>8 DEF Closing
<1>10. ASSUME NEW m \in Payments, transaction'[m] = "completed"
       PROVE  \E w \in Webhooks :
                /\ pc'[w] # "idle" /\ pay'[doc'[w]] = m
                /\ merchantTo'[w] = "completed" /\ unawaited'[w] = "done"
  BY <1>1, <1>4, <1>8, <1>10 DEF Closing
<1> QED
  BY <1>6, <1>7, <1>9, <1>10 DEF Closing

\* A final status is not written before its settlement is recorded.
LEMMA HookTransactionKeepsClosing ==
  ASSUME MerchantTypeOK, Shape, Documents, Evidence, Calling, LedgerInv, LedgerInv',
         LedgerKept, Closing, NEW h \in Webhooks, HookTransaction(h)
  PROVE  Closing'
<1> USE Names, CallNames DEF MerchantTypeOK
<1>1. /\ UNCHANGED <<transaction, pay, doc, statusTo, posted, opened, recorded>>
      /\ pc[h] = "transaction"
      /\ \A w \in Webhooks : pc[w] # "idle" => pc'[w] # "idle"
      /\ \A w \in Webhooks \ {h} :
           merchantTo'[w] = merchantTo[w] /\ unawaited'[w] = unawaited[w]
  BY DEF HookTransaction, Goes, docs, ledgerVars, Begin, Sends
<1>2. unawaited[h] = "none" /\ merchantTo[h] = "none"
  BY <1>1 DEF Shape
<1>3. merchantTo'[h] \notin Ends \/ unawaited'[h] = "none"
  BY <1>2 DEF HookTransaction, Sends, MerchantStatus, Ends
<1>4. /\ \A w \in Webhooks : step'[CloseCall(w)] = step[CloseCall(w)]
      /\ \A w \in Webhooks : about'[CloseCall(w)] = about[CloseCall(w)]
  BY DEF HookTransaction, Begin, Goto, ledgerVars, LedgerInv, LedgerTypeOK
<1>5. \A d \in opened : about'[d] = about[d]
  BY DEF LedgerKept, LedgerInv, LedgerTypeOK, CallsInStep
<1>6. \A p : LedgersOf(p)' = LedgersOf(p)
  BY <1>1, <1>5 DEF LedgersOf
<1>7. \A w \in Webhooks : SettledIn(doc[w]) => SettledIn(doc[w])'
  BY <1>1, <1>6 DEF SettledIn
<1>8. \A w \in Webhooks :
        (/\ about[CloseCall(w)] # None => SettledIn(doc[w])
         /\ step[CloseCall(w)] = "done" => LedgersOf(doc[w]) \cap posted # {})'
  BY <1>1, <1>4, <1>6, <1>7, SMTT(30) DEF Closing
<1>9. \A w \in Webhooks :
        (merchantTo[w] \in Ends /\ unawaited[w] # "none" => step[CloseCall(w)] = "done")'
  BY <1>1, <1>3, <1>4, SMTT(30) DEF Closing
<1>10. \A w \in Webhooks :
         merchantTo[w] = "completed" /\ unawaited[w] = "done" =>
           merchantTo'[w] = "completed" /\ unawaited'[w] = "done"
  BY <1>1, <1>2
<1> QED  BY <1>1, <1>8, <1>9, <1>10 DEF Closing

\* The write nobody awaits starts when the ledger has been closed.
LEMMA HookClosedKeepsClosing ==
  ASSUME MerchantTypeOK, Shape, Documents, Evidence, Calling, LedgerInv, LedgerInv',
         LedgerKept, Closing, NEW h \in Webhooks, HookClosed(h)
  PROVE  Closing'
<1> USE Names, CallNames DEF MerchantTypeOK
<1>1. /\ UNCHANGED <<transaction, pay, doc, statusTo, merchantTo>>
      /\ UNCHANGED <<step, about, opened, posted, recorded>>
      /\ pc[h] = "close" /\ step[CloseCall(h)] = "done"
      /\ \A w \in Webhooks : pc[w] # "idle" => pc'[w] # "idle"
      /\ \A w \in Webhooks \ {h} : unawaited'[w] = unawaited[w]
  BY DEF HookClosed, Goes, docs, ledgerVars, hook, Sends
<1>2. \A w \in Webhooks : SettledIn(doc[w])' <=> SettledIn(doc[w])
  BY <1>1 DEF SettledIn, LedgersOf
<1>3. \A w \in Webhooks :
        (/\ about[CloseCall(w)] # None => SettledIn(doc[w])
         /\ step[CloseCall(w)] = "done" => LedgersOf(doc[w]) \cap posted # {})'
  BY <1>1, <1>2 DEF Closing, LedgersOf
<1>4. \A w \in Webhooks :
        (merchantTo[w] \in Ends /\ unawaited[w] # "none" => step[CloseCall(w)] = "done")'
  BY <1>1 DEF Closing
<1>5. unawaited[h] = "none"
  BY <1>1 DEF Shape
<1> QED  BY <1>1, <1>3, <1>4, <1>5, SMTT(30) DEF Closing 

\* A ledger is closed after a settlement is in it, and before the merchant
\* transaction shows the end.
LEMMA ClosingStep ==
  ASSUME MerchantTypeOK, Shape, Documents, Evidence, Calling, LedgerInv, LedgerInv',
         LedgerKept, Closing, [MerchantNext]_vars
  PROVE  Closing'
<1>1. CASE UNCHANGED <<transaction, pc, pay, doc, statusTo, merchantTo, unawaited,
                        step, about, opened, posted, recorded>>
  BY <1>1 DEF Closing, SettledIn, LedgersOf
<1>2. CASE UNCHANGED vars
  BY <1>1, <1>2 DEF vars, merchantVars, docs, request, hook, outside, history,
     ledgerVars
<1>3. ASSUME NEW m \in Payments, CreateWallet(m) \/ InitiationFails(m)
      PROVE  Closing'
  BY <1>1, <1>3 DEF CreateWallet, request, history, ledgerVars, hook,
     InitiationFails, docs
<1>4. ASSUME NEW m \in Payments, NEW n \in Deposits, CustomerPays(m, n)
      PROVE  Closing'
  BY <1>1, <1>4 DEF CustomerPays, docs, request, history, ledgerVars, hook
<1>5. ASSUME NEW h \in Activities, Quote(h) \/ BackgroundSave(h) \/ Expire(h)
      PROVE  Closing'
  BY <1>1, <1>5 DEF Quote, docs, request, outside, history, ledgerVars, Works, hook,
     BackgroundSave, Expire
<1>6. ASSUME NEW o \in Activities, NEW e \in Events, ProviderEmits(o, e)
      PROVE  Closing'
  BY <1>1, <1>6 DEF ProviderEmits, docs, request, history, ledgerVars, hook
<1>7. ASSUME NEW m \in Payments, CreateTransaction(m)  PROVE Closing'
  BY <1>7 DEF Closing, SettledIn, LedgersOf, CreateTransaction, request, ledgerVars,
     hook
<1>8. ASSUME NEW m \in Payments, NEW h \in Activities, ActivityRead(h, m)
      PROVE  Closing'
  BY <1>8, Names DEF Shape, Closing, SettledIn, LedgersOf, ActivityRead, hook, docs,
     ledgerVars, Goes
<1>9. ASSUME NEW h \in Activities, ReadBalance(h)  PROVE Closing'
  BY <1>9 DEF Closing, SettledIn, LedgersOf, ReadBalance, hook, docs, ledgerVars,
     Goes
<1>10. ASSUME NEW h \in Activities, ReadTransaction(h)  PROVE Closing'
  BY <1>10, Names DEF Closing, SettledIn, LedgersOf, ReadTransaction, hook, docs,
     ledgerVars, Goes
<1>11. ASSUME NEW h \in Activities, CreateOfframp(h)  PROVE Closing'
  BY <1>11, Names DEF Closing, SettledIn, LedgersOf, CreateOfframp, hook,
     ledgerVars, Goes
<1>12. ASSUME NEW h \in Activities, Link(h)  PROVE Closing'
  BY <1>12, Names DEF Closing, SettledIn, LedgersOf, Link, hook, ledgerVars, Goes
<1>13. ASSUME NEW h \in Activities, Authorise(h)  PROVE Closing'
  BY <1>13, Names DEF Closing, SettledIn, LedgersOf, Authorise, hook, ledgerVars,
     Goes
<1>14. ASSUME NEW h \in Activities, ReadOfframp(h)  PROVE Closing'
  BY <1>14, Names DEF Closing, SettledIn, LedgersOf, ReadOfframp, hook, docs,
     ledgerVars, Goes
<1>15. ASSUME NEW h \in Activities, Process(h)  PROVE Closing'
  BY <1>15, Names DEF Closing, SettledIn, LedgersOf, Process, hook, docs,
     ledgerVars, Goes
<1>16. ASSUME NEW h \in Activities, SaveFunded(h)  PROVE Closing'
  BY <1>16, Names, CallNames DEF Closing, SettledIn, LedgerInv, CallsInStep,
     LedgersOf, SaveFunded, hook, Goes, Begin, Goto
<1>17. ASSUME NEW h \in Activities, Recorded(h)  PROVE Closing'
  BY <1>17, Names DEF Closing, SettledIn, LedgersOf, Recorded, hook, docs,
     ledgerVars, Goes
<1>18. ASSUME NEW h \in Activities, SettleWallet(h)  PROVE Closing'
  BY <1>18, Names DEF Closing, SettledIn, LedgersOf, SettleWallet, hook, ledgerVars
<1>19. ASSUME NEW h \in Activities, Payout(h)  PROVE Closing'
  BY <1>19, Names, CallNames DEF Closing, SettledIn, LedgerInv, CallsInStep,
     LedgerTypeOK, LedgersOf, Payout, docs, request, ledgerVars, Begin, hook, Goto
<1>20. ASSUME NEW h \in Activities, BackgroundFails(h)  PROVE Closing'
  BY <1>20, Names, CallNames DEF Closing, SettledIn, LedgersOf, BackgroundFails,
     docs, request, AbortCalls, hook
<1>21. ASSUME NEW h \in Webhooks, NEW o \in Activities, NEW e \in Events,
             HookRead(h, o, e)
      PROVE  Closing'
  BY <1>21, HookReadKeepsClosing
<1>22. ASSUME NEW h \in Webhooks, HookTransaction(h)  PROVE Closing'
  BY <1>22, HookTransactionKeepsClosing
<1>23. ASSUME NEW h \in Webhooks, HookClose(h)  PROVE Closing'
  BY <1>23, Names, CallNames, SMTT(30) DEF Calling, Closing, SettledIn,
     LostOnlyIfPosted, LedgerInv, LedgerTypeOK, LedgersOf, HookClose, hook, docs,
     Goes, Begin, Goto
<1>24. ASSUME NEW h \in Webhooks, HookClosed(h)  PROVE Closing'
  BY <1>24, HookClosedKeepsClosing
<1>25. ASSUME NEW h \in Webhooks, HookSave(h)  PROVE Closing'
  BY <1>25, Names DEF Closing, SettledIn, LedgersOf, HookSave, hook, ledgerVars,
     Goes
<1>26. ASSUME NEW h \in Webhooks, SaveTransaction(h)  PROVE Closing'
  BY <1>26, Names DEF MerchantTypeOK, Shape, Closing, SettledIn, LedgersOf,
     SaveTransaction, hook, ledgerVars
<1>27. ASSUME NEW h \in Handlers, RequestFails(h)  PROVE Closing'
  BY <1>27, Names, CallNames DEF Closing, SettledIn, LedgersOf, RequestFails, hook,
     Goes, AbortCalls, Running
<1>28. ASSUME NEW c \in Calls, LedgerRuns(c)  PROVE Closing'
  BY <1>28, Names, CallNames, SMTT(30) DEF Calling, Closing, SettledIn, LedgerInv,
     CallsInStep, LedgerTypeOK, LedgersOf, LedgerRuns, merchantVars, docs, request,
     hook, LedgerStep, Find, Open, Append, LookUp, Post, Goto
<1>29. CASE ProcessEnds
  BY <1>29, Names, CallNames DEF Closing, SettledIn, LedgersOf, ProcessEnds, hook,
     docs, AbortCalls, Running
<1> QED  BY <1>1, <1>2, <1>3, <1>4, <1>5, <1>6, <1>7, <1>8, <1>9, <1>10, <1>11,
   <1>12, <1>13, <1>14, <1>15, <1>16, <1>17, <1>18, <1>19, <1>20, <1>21, <1>22,
   <1>23, <1>24, <1>25, <1>26, <1>27, <1>28, <1>29 DEF MerchantNext, Initiation,
   ActivityStep, BackgroundStep, HookStep, UnawaitedFails, Crash

\* The background handler is through once its entries are recorded.
LEMMA BackgroundSaveKeepsAlone ==
  ASSUME MerchantTypeOK, Shape, Documents, Linking, Evidence, Calling, LedgerInv,
         LedgerInv', LedgerKept, Alone, NEW h \in Activities, BackgroundSave(h)
  PROVE  Alone'
<1> USE Names, CallNames DEF MerchantTypeOK
<1>1. /\ UNCHANGED <<expired, pc, pay, doc, payouts, contended, faulted, step>>
      /\ background[h] = "record" /\ step[FundedCall(h)] = "done"
      /\ background' = [background EXCEPT ![h] =
                          IF pc[h] = "saveFunded" THEN "failed" ELSE "done"]
      /\ offramp' = IF pc[h] = "unsaved" THEN [offramp EXCEPT ![doc[h]] = "funded"]
                    ELSE offramp
  BY DEF BackgroundSave, request, outside, history, Works, ledgerVars
<1>2. doc[h] \in Activities /\ pay[doc[h]] = pay[h]
  BY <1>1 DEF Shape
<1>3. CASE pc[h] = "unsaved"
  <2>1. ~ Calm(pay[h])
    BY <1>1, <1>3 DEF Alone
  <2>2. \A g \in Activities :
          Calm(pay[g]) => g # h /\ doc[g] # doc[h] /\ (doc[g] = g => g # doc[h])
    BY <1>2, <2>1 DEF Shape
  <2> QED  BY <1>1, <1>3, <2>1, <2>2 DEF Alone, Calm
<1>4. CASE pc[h] # "unsaved"
  <2>1. h \in payouts
    BY <1>1 DEF Shape
  <2> QED  BY <1>1, <1>4, <2>1 DEF Alone, Calm
<1> QED  BY <1>3, <1>4

\* While nothing met and nothing failed, an activity works on its own document.
LEMMA AloneStep ==
  ASSUME MerchantTypeOK, Shape, Documents, Linking, Evidence, Calling, LedgerInv,
         LedgerInv', LedgerKept, Alone, [MerchantNext]_vars
  PROVE  Alone'
<1>1. CASE UNCHANGED <<offramp, expired, pc, pay, doc, background, payouts,
                        contended, faulted, step>>
  BY <1>1 DEF Alone, Calm
<1>2. CASE UNCHANGED vars
  BY <1>1, <1>2 DEF vars, merchantVars, docs, request, hook, outside, history,
     ledgerVars
<1>3. ASSUME NEW m \in Payments, CreateWallet(m) \/ CreateTransaction(m) \/
   InitiationFails(m)
      PROVE  Alone'
  BY <1>1, <1>3 DEF CreateWallet, request, history, ledgerVars, hook,
     CreateTransaction, InitiationFails, docs
<1>4. ASSUME NEW m \in Payments, NEW n \in Deposits, CustomerPays(m, n)
      PROVE  Alone'
  BY <1>1, <1>4 DEF CustomerPays, docs, request, history, ledgerVars, hook
<1>5. ASSUME NEW h \in Activities, SettleWallet(h)
      PROVE  Alone'
  BY <1>1, <1>5 DEF SettleWallet, hook, outside, history, ledgerVars
<1>6. ASSUME NEW o \in Activities, NEW e \in Events, ProviderEmits(o, e)
      PROVE  Alone'
  BY <1>1, <1>6 DEF ProviderEmits, docs, request, history, ledgerVars, hook
<1>7. ASSUME NEW h \in Webhooks, SaveTransaction(h)
      PROVE  Alone'
  BY <1>1, <1>7 DEF SaveTransaction, hook, outside, history, ledgerVars
<1>8. ASSUME NEW m \in Payments, NEW h \in Activities, ActivityRead(h, m)
      PROVE  Alone'
  BY <1>8 DEF Shape, Alone, Calm, Paying, ActivityRead, docs, outside, ledgerVars,
     Goes
<1>9. ASSUME NEW h \in Activities, ReadBalance(h)  PROVE Alone'
  BY <1>9 DEF Shape, Alone, Calm, Paying, ReadBalance, docs, outside, history,
     ledgerVars, Goes
<1>10. ASSUME NEW h \in Activities, ReadTransaction(h)  PROVE Alone'
  BY <1>10 DEF Shape, Documents, Linking, Alone, Calm, Resting, ReadTransaction,
     docs, outside, history, ledgerVars, Goes
<1>11. ASSUME NEW h \in Activities, CreateOfframp(h)  PROVE Alone'
  BY <1>11 DEF Documents, Alone, Calm, Resting, Settled, CreateOfframp, outside,
     history, ledgerVars, Goes
<1>12. ASSUME NEW h \in Activities, Link(h)  PROVE Alone'
  BY <1>12 DEF Alone, Calm, Resting, Link, outside, history, ledgerVars, Goes
<1>13. ASSUME NEW h \in Activities, Authorise(h)  PROVE Alone'
  BY <1>13 DEF MerchantTypeOK, Documents, Alone, Calm, Resting, Settled, Authorise,
     outside, history, ledgerVars, Goes
<1>14. ASSUME NEW h \in Activities, ReadOfframp(h)  PROVE Alone'
  BY <1>14 DEF Shape, Alone, Calm, ReadOfframp, docs, outside, history, ledgerVars,
     Goes
<1>15. ASSUME NEW h \in Activities, Process(h)  PROVE Alone'
  BY <1>15, Names DEF Shape, Alone, Calm, Paying, Resting, Settled, Process, docs,
     outside, history, ledgerVars, Goes
<1>16. ASSUME NEW h \in Activities, SaveFunded(h)  PROVE Alone'
  BY <1>16 DEF Shape, Alone, Calm, Resting, Settled, LedgerInv, CallsInStep,
     LedgerTypeOK, SaveFunded, outside, history, Goes, Begin, Goto
<1>17. ASSUME NEW h \in Activities, Recorded(h)  PROVE Alone'
  BY <1>17 DEF Evidence, Alone, Calm, Recorded, docs, outside, history, ledgerVars,
     Goes
<1>18. ASSUME NEW h \in Activities, Quote(h)  PROVE Alone'
  BY <1>18 DEF Alone, Calm, Quote, docs, request, outside, history, ledgerVars,
     Works
<1>19. ASSUME NEW h \in Activities, Payout(h)  PROVE Alone'
  BY <1>19, Names, CallNames DEF MerchantTypeOK, Alone, Calm, LedgerKept, Payout,
     docs, request, outside, Works
<1>20. ASSUME NEW h \in Activities, BackgroundFails(h)  PROVE Alone'
  BY <1>20, Names, CallNames, SMTT(30) DEF MerchantTypeOK, Shape, Documents,
     Calling, Alone, Calm, ActivitySteps, HookSteps, Working, DocsOf, Settled,
     LedgerInv, CallsInStep, LedgerTypeOK, LedgersOf, LedgerKept, BackgroundFails,
     docs, request, outside, Works, AbortCalls, hook, Running
<1>21. ASSUME NEW h \in Activities, BackgroundSave(h)  PROVE Alone'
  BY <1>21, BackgroundSaveKeepsAlone
<1>22. ASSUME NEW h \in Activities, Expire(h)  PROVE Alone'
  BY <1>22 DEF Alone, Calm, Expire, docs, request, history, ledgerVars
<1>23. ASSUME NEW h \in Webhooks, NEW o \in Activities, NEW e \in Events,
             HookRead(h, o, e)
      PROVE  Alone'
  BY <1>23, Names DEF Alone, Calm, HookRead, docs, outside, ledgerVars, Goes
<1>24. ASSUME NEW h \in Webhooks, HookTransaction(h)  PROVE Alone'
  BY <1>24, Names, CallNames DEF MerchantTypeOK, Alone, Calm, LedgerKept,
     HookTransaction, docs, outside, history, Goes
<1>25. ASSUME NEW h \in Webhooks, HookClose(h)  PROVE Alone'
  BY <1>25 DEF Alone, Calm, Resting, HookClose, docs, outside, history, Goes, Begin,
     Goto
<1>26. ASSUME NEW h \in Webhooks, HookClosed(h)  PROVE Alone'
  BY <1>26 DEF Alone, Calm, Resting, HookClosed, docs, outside, history, ledgerVars,
     Goes
<1>27. ASSUME NEW h \in Webhooks, HookSave(h)  PROVE Alone'
  BY <1>27, Names, SMTT(60) DEF MerchantTypeOK, Shape, Documents, Evidence, Calling,
     Alone, Calm, Paying, HookSteps, Resting, Working, DocsOf, LedgerInv,
     CallsInStep, HookSave, outside, history, ledgerVars, Goes
<1>28. ASSUME NEW h \in Handlers, RequestFails(h)  PROVE Alone'
  BY <1>28, Names, CallNames, SMTT(60) DEF MerchantTypeOK, Shape, Documents,
     Linking, Alone, Calm, Settled, RequestFails, outside, Goes, PaymentOf,
     AbortCalls
<1>29. ASSUME NEW c \in Calls, LedgerRuns(c)  PROVE Alone'
  BY <1>29, Names, CallNames DEF Alone, Calm, LedgerKept, LedgerRuns, merchantVars,
     docs, request, outside, history
<1>30. CASE ProcessEnds
  BY <1>30, Names, CallNames DEF Alone, Calm, ProcessEnds, docs, AtWork, PaymentOf,
     AbortCalls, Running
<1> QED  BY <1>1, <1>2, <1>3, <1>4, <1>5, <1>6, <1>7, <1>8, <1>9, <1>10, <1>11,
   <1>12, <1>13, <1>14, <1>15, <1>16, <1>17, <1>18, <1>19, <1>20, <1>21, <1>22,
   <1>23, <1>24, <1>25, <1>26, <1>27, <1>28, <1>29, <1>30 DEF MerchantNext,
   Initiation, ActivityStep, BackgroundStep, HookStep, UnawaitedFails, Crash

\* A webhook that meets nobody finds the activity and its background handler through,
\* with both their entries written.
LEMMA HookReadKeepsMeeting ==
  ASSUME MerchantTypeOK, Shape, Documents, Linking, Calling, Closing, Alone,
         LedgerInv, LedgerInv', LedgerKept, Meeting,
         NEW h \in Webhooks, NEW o \in Activities, NEW e \in Events, HookRead(h, o, e)
  PROVE  Meeting'
<1> USE Names DEF MerchantTypeOK
<1>1. /\ UNCHANGED <<pay, background, contended, faulted, unawaited>>
      /\ UNCHANGED <<step, about, opened, recorded, raced, posted>>
      /\ pc[h] = "idle" /\ doc' = [doc EXCEPT ![h] = o] /\ e \in rail[o]
      /\ crossed' = crossed \cup {p \in {o} : HandlersOf(o) # {}}
      /\ \A g \in Handlers \ {h} : pc'[g] = pc[g]
  BY DEF HookRead, Goes, ledgerVars
<1>2. \A g \in Handlers \ {h} : (AtWork(g)' <=> AtWork(g)) /\ doc'[g] = doc[g]
  BY <1>1 DEF AtWork
<1>3. /\ o \in DocsOf(payouts) /\ doc[o] = o
      /\ offramp[o] \notin {"none", "initiated"} /\ pay[o] \in Payments
  BY <1>1, SMTT(30) DEF Documents, Shape, DocsOf
<1>4. HandlersOf(o) = {} =>
        ~AtWork(o) /\ \A v \in Webhooks : doc[v] = o => ~AtWork(v)
  BY <1>3 DEF HandlersOf
<1>5. ASSUME HandlersOf(o) = {}, o \notin crossed, o \notin raced, Calm(pay[o])
      PROVE  Written(ReceivedCall(o), o) /\ Written(FundedCall(o), o)
  <2>1. o \in payouts
    <3>1. PICK g \in payouts : doc[g] = o
      BY <1>3 DEF DocsOf
    <3>2. g \in Activities /\ background[g] # "none" /\ pay[o] = pay[g]
      BY <3>1 DEF Shape
    <3> QED  BY <1>5, <3>1, <3>2 DEF Alone
  <2>2. background[o] \in {"done", "failed"} /\ pc[o] \in Resting
    BY <1>4, <1>5, <2>1 DEF Shape, AtWork, Working
  <2>3. pc[o] = "done"
    BY <1>5, <2>2 DEF Alone, Shape, Resting, Paying
  <2>4. step[FundedCall(o)] = "done" /\ step[ReceivedCall(o)] = "done"
    BY <1>5, <2>2, <2>3 DEF Alone
  <2>5. about[FundedCall(o)] = o /\ about[ReceivedCall(o)] = o
    BY <1>3, <2>4, CallNames DEF Calling, LedgerInv, CallsInStep
  <2>6. CASE LedgersOf(o) \cap posted = {}
    BY <2>4, <2>5, <2>6, CallNames DEF LedgerInv, LostOnlyIfPosted, Written
  <2>7. CASE LedgersOf(o) \cap posted # {}
    <3>1. PICK w \in Webhooks : about[CloseCall(w)] = o
      BY <2>7 DEF LedgersOf, Calling
    <3>2. doc[w] = o /\ pc[w] # "idle"
      BY <3>1 DEF Calling, Handlers
    <3> QED  BY <1>5, <3>2 DEF Meeting
  <2> QED  BY <2>6, <2>7
<1>6. ASSUME NEW w \in Webhooks, pc'[w] # "idle", doc'[w] \notin crossed'
      PROVE  (/\ \A v \in Webhooks \ {w} : doc[v] = doc[w] => ~(AtWork(v) /\ AtWork(w))
              /\ Calm(pay[doc[w]]) => ~AtWork(doc[w])
              /\ Calm(pay[doc[w]]) /\ doc[w] \notin raced =>
                   /\ Written(ReceivedCall(doc[w]), doc[w])
                   /\ Written(FundedCall(doc[w]), doc[w]))'
  <2>1. CASE w = h
    <3>1. doc'[w] = o /\ HandlersOf(o) = {} /\ o \notin crossed
      BY <1>1, <1>6, <2>1
    <3>2. Calm(pay[doc[w]])' <=> Calm(pay[o])
      BY <1>1, <3>1 DEF Calm
    <3>3. ~AtWork(o)' /\ \A v \in Webhooks \ {w} : doc'[v] = o => ~AtWork(v)'
      BY <1>2, <1>4, <2>1, <3>1
    <3>4. AtWork(doc[w])' <=> AtWork(o)'
      BY <3>1 DEF AtWork
    <3>5. /\ Written(ReceivedCall(doc[w]), doc[w])' <=> Written(ReceivedCall(o), o)
          /\ Written(FundedCall(doc[w]), doc[w])' <=> Written(FundedCall(o), o)
      BY <1>1, <3>1 DEF Written, LedgersOf, ReceivedCall, FundedCall
    <3> QED  BY <1>1, <1>5, <3>1, <3>2, <3>3, <3>4, <3>5
  <2>2. CASE w # h
    <3>1. /\ doc'[w] = doc[w] /\ pc[w] # "idle" /\ doc[w] \notin crossed
          /\ doc[w] \in Activities /\ doc[w] # h
      BY <1>1, <1>2, <1>6, <2>2, SMTT(30) DEF Shape, DocsOf, Handlers
    <3>2. /\ \A v \in Webhooks \ {w} : doc[v] = doc[w] => ~(AtWork(v) /\ AtWork(w))
          /\ Calm(pay[doc[w]]) => ~AtWork(doc[w])
          /\ Calm(pay[doc[w]]) /\ doc[w] \notin raced =>
               /\ Written(ReceivedCall(doc[w]), doc[w])
               /\ Written(FundedCall(doc[w]), doc[w])
      BY <3>1 DEF Meeting
    <3>3. \A v \in Webhooks \ {w} : doc'[v] = doc[w] => ~(AtWork(v)' /\ AtWork(w)')
      <4>1. ASSUME doc[w] = o, AtWork(w)  PROVE FALSE
        BY <1>1, <1>6, <3>1, <4>1 DEF HandlersOf, Handlers
      <4> QED  BY <1>1, <1>2, <2>2, <3>2, <4>1 DEF Handlers
    <3>4. Calm(pay[doc[w]])' <=> Calm(pay[doc[w]])
      BY <1>1, <3>1 DEF Calm
    <3>5. AtWork(doc[w])' <=> AtWork(doc[w])
      <4>1. AtWork(doc[w])' <=> (\/ pc'[doc[w]] \notin Resting \/ unawaited'[doc[w]] = "sent"
                                 \/ doc[w] \in Activities /\ background'[doc[w]] \in Working)
        BY <3>1 DEF AtWork
      <4> QED  BY <1>1, <3>1, <4>1 DEF AtWork, Handlers
    <3>6. /\ Written(ReceivedCall(doc[w]), doc[w])' <=> Written(ReceivedCall(doc[w]), doc[w])
          /\ Written(FundedCall(doc[w]), doc[w])' <=> Written(FundedCall(doc[w]), doc[w])
      BY <1>1, <3>1 DEF Written, LedgersOf, ReceivedCall, FundedCall
    <3> QED  BY <1>1, <3>1, <3>2, <3>3, <3>4, <3>5, <3>6
  <2> QED  BY <2>1, <2>2
<1> QED  BY <1>6 DEF Meeting

\* A webhook goes on alone, and the ledger only grows.
LEMMA HookTransactionKeepsMeeting ==
  ASSUME MerchantTypeOK, Shape, Documents, Linking, Calling, Closing, Alone,
         LedgerInv, LedgerInv', LedgerKept, Meeting, NEW h \in Webhooks,
         HookTransaction(h)
  PROVE  Meeting'
<1> USE Names DEF MerchantTypeOK
<1>1. /\ UNCHANGED <<doc, pay, background, contended, crossed, faulted, opened, recorded>>
      /\ pc[h] = "transaction"
      /\ \E s \in {"record", "save"} : pc' = [pc EXCEPT ![h] = s]
      /\ \A g \in Handlers \ {h} : unawaited'[g] = unawaited[g]
  BY DEF HookTransaction, Goes, Begin, ledgerVars, Sends, history
<1>2. \A g \in Handlers : AtWork(g)' <=> AtWork(g)
  BY <1>1 DEF AtWork, Resting
<1>3. \A d \in opened : about'[d] = about[d]
  BY DEF LedgerKept, LedgerInv, LedgerTypeOK, CallsInStep
<1>4. \A c, p : Written(c, p) => Written(c, p)'
  BY <1>1, <1>3 DEF Written, LedgersOf
<1>5. raced \subseteq raced'
  BY DEF LedgerKept
<1>6. \A w \in Webhooks : pc[w] = "idle" <=> pc'[w] = "idle"
  BY <1>1
<1>7. \A o : Calm(pay[o])' <=> Calm(pay[o])
  BY <1>1 DEF Calm
<1>8. \A w \in Webhooks : pc[w] # "idle" => doc[w] \in Activities
  BY DEF Shape, DocsOf
<1>9. ASSUME NEW w \in Webhooks, pc'[w] # "idle", doc'[w] \notin crossed'
      PROVE  (/\ \A v \in Webhooks \ {w} : doc[v] = doc[w] => ~(AtWork(v) /\ AtWork(w))
              /\ Calm(pay[doc[w]]) => ~AtWork(doc[w])
              /\ Calm(pay[doc[w]]) /\ doc[w] \notin raced =>
                   /\ Written(ReceivedCall(doc[w]), doc[w])
                   /\ Written(FundedCall(doc[w]), doc[w]))'
  <2>1. /\ doc[w] \in Handlers /\ pc[w] # "idle" /\ doc[w] \notin crossed
        /\ UNCHANGED doc /\ UNCHANGED pay
    BY <1>1, <1>6, <1>8, <1>9
  <2>2. /\ \A v \in Webhooks \ {w} : doc[v] = doc[w] => ~(AtWork(v) /\ AtWork(w))
        /\ Calm(pay[doc[w]]) => ~AtWork(doc[w])
        /\ Calm(pay[doc[w]]) /\ doc[w] \notin raced =>
             Written(ReceivedCall(doc[w]), doc[w]) /\ Written(FundedCall(doc[w]), doc[w])
    BY <2>1 DEF Meeting
  <2>3. (\A v \in Webhooks \ {w} : doc[v] = doc[w] => ~(AtWork(v) /\ AtWork(w)))'
    BY <1>2, <2>1, <2>2
  <2>4. (Calm(pay[doc[w]]) => ~AtWork(doc[w]))'
    <3>1. Calm(pay[doc[w]])' <=> Calm(pay[doc[w]])
      BY <1>1 DEF Calm
    <3>2. AtWork(doc[w])' <=> AtWork(doc[w])
      BY <1>1, <2>1 DEF AtWork, Resting
    <3> QED  BY <2>2, <3>1, <3>2
  <2>5. (Calm(pay[doc[w]]) /\ doc[w] \notin raced =>
             Written(ReceivedCall(doc[w]), doc[w]) /\ Written(FundedCall(doc[w]), doc[w]))'
    <3>1. Calm(pay[doc[w]])' <=> Calm(pay[doc[w]])
      BY <1>1 DEF Calm
    <3>2. Written(ReceivedCall(doc[w]), doc[w]) => Written(ReceivedCall(doc[w]), doc[w])'
      BY <1>1, <1>3 DEF Written, LedgersOf, ReceivedCall
    <3>3. Written(FundedCall(doc[w]), doc[w]) => Written(FundedCall(doc[w]), doc[w])'
      BY <1>1, <1>3 DEF Written, LedgersOf, FundedCall
    <3> QED  BY <1>5, <2>1, <2>2, <3>1, <3>2, <3>3
  <2> QED  BY <2>3, <2>4, <2>5
<1> QED  BY <1>9 DEF Meeting

\* While a webhook of a document met nobody, it is the only handler at work on it,
\* after the entries of the payment.
LEMMA MeetingStep ==
  ASSUME MerchantTypeOK, Shape, Documents, Linking, Calling, Closing, Alone,
         LedgerInv, LedgerInv', LedgerKept, Meeting, [MerchantNext]_vars
  PROVE  Meeting'
<1>1. CASE UNCHANGED <<pc, pay, doc, unawaited, background, contended, crossed,
                        faulted, step, about, opened, recorded, raced>>
  BY <1>1 DEF Meeting, Written, LedgersOf, Calm, AtWork
<1>2. CASE UNCHANGED vars
  BY <1>1, <1>2 DEF vars, merchantVars, docs, request, hook, outside, history,
     ledgerVars
<1>3. ASSUME NEW m \in Payments, CreateWallet(m) \/ CreateTransaction(m) \/
   InitiationFails(m)
      PROVE  Meeting'
  BY <1>1, <1>3 DEF CreateWallet, request, history, ledgerVars, hook,
     CreateTransaction, InitiationFails, docs
<1>4. ASSUME NEW m \in Payments, NEW n \in Deposits, CustomerPays(m, n)
      PROVE  Meeting'
  BY <1>1, <1>4 DEF CustomerPays, docs, request, history, ledgerVars, hook
<1>5. ASSUME NEW h \in Activities, Expire(h)
      PROVE  Meeting'
  BY <1>1, <1>5 DEF Expire, docs, request, history, ledgerVars, hook
<1>6. ASSUME NEW o \in Activities, NEW e \in Events, ProviderEmits(o, e)
      PROVE  Meeting'
  BY <1>1, <1>6 DEF ProviderEmits, docs, request, history, ledgerVars, hook
<1>7. ASSUME NEW m \in Payments, NEW h \in Activities, ActivityRead(h, m)
      PROVE  Meeting'
  BY <1>7, Names DEF MerchantTypeOK, Shape, Meeting, Written, Calm, AtWork, DocsOf,
     LedgersOf, ActivityRead, ledgerVars, Goes
<1>8. ASSUME NEW h \in Activities, ReadBalance(h)  PROVE Meeting'
  BY <1>8 DEF Meeting, Written, Calm, AtWork, Resting, LedgersOf, ReadBalance,
     history, ledgerVars, Goes
<1>9. ASSUME NEW h \in Activities, ReadTransaction(h)  PROVE Meeting'
  BY <1>9, Names DEF Meeting, Written, Calm, AtWork, Resting, LedgersOf,
     ReadTransaction, history, ledgerVars, Goes
<1>10. ASSUME NEW h \in Activities, CreateOfframp(h)  PROVE Meeting'
  BY <1>10 DEF Meeting, Written, Calm, AtWork, Resting, LedgersOf, CreateOfframp,
     history, ledgerVars, Goes
<1>11. ASSUME NEW h \in Activities, Link(h)  PROVE Meeting'
  BY <1>11, Names DEF Meeting, Written, Calm, AtWork, Resting, LedgersOf, Link,
     history, ledgerVars, Goes
<1>12. ASSUME NEW h \in Activities, Authorise(h)  PROVE Meeting'
  BY <1>12 DEF Meeting, Written, Calm, AtWork, Resting, LedgersOf, Authorise,
     history, ledgerVars, Goes
<1>13. ASSUME NEW h \in Activities, ReadOfframp(h)  PROVE Meeting'
  BY <1>13 DEF Meeting, Written, Calm, AtWork, Resting, LedgersOf, ReadOfframp,
     history, ledgerVars, Goes
<1>14. ASSUME NEW h \in Activities, Process(h)  PROVE Meeting'
  BY <1>14 DEF Meeting, Written, Calm, AtWork, Resting, LedgersOf, Process, history,
     ledgerVars, Goes
<1>15. ASSUME NEW h \in Activities, SaveFunded(h)  PROVE Meeting'
  BY <1>15, Names DEF Meeting, Written, Calm, AtWork, Resting, LedgerInv,
     CallsInStep, LedgerTypeOK, LedgersOf, SaveFunded, history, Goes, Begin
<1>16. ASSUME NEW h \in Activities, Recorded(h)  PROVE Meeting'
  BY <1>16 DEF Meeting, Written, Calm, AtWork, Resting, LedgersOf, Recorded,
     history, ledgerVars, Goes
<1>17. ASSUME NEW h \in Activities, SettleWallet(h)  PROVE Meeting'
  BY <1>17 DEF Meeting, Written, Calm, AtWork, LedgersOf, SettleWallet, history,
     ledgerVars
<1>18. ASSUME NEW h \in Activities, Quote(h)  PROVE Meeting'
  BY <1>18 DEF Meeting, Written, Calm, AtWork, Working, LedgersOf, Quote, request,
     history, ledgerVars, Works
<1>19. ASSUME NEW h \in Activities, Payout(h)  PROVE Meeting'
  BY <1>19, Names, SMTT(30) DEF MerchantTypeOK, Meeting, Written, Calm, AtWork,
     LedgerInv, CallsInStep, LedgerTypeOK, LedgersOf, Payout, request, ledgerVars,
     Works, Begin, hook
<1>20. ASSUME NEW h \in Activities, BackgroundFails(h)  PROVE Meeting'
  BY <1>20 DEF Meeting, Written, Calm, AtWork, Working, LedgersOf, BackgroundFails,
     request, Works, AbortCalls
<1>21. ASSUME NEW h \in Activities, BackgroundSave(h)  PROVE Meeting'
  BY <1>21 DEF Meeting, Written, Calm, AtWork, Working, LedgersOf, BackgroundSave,
     request, history, ledgerVars, Works
<1>22. ASSUME NEW h \in Webhooks, NEW o \in Activities, NEW e \in Events,
             HookRead(h, o, e)
      PROVE  Meeting'
  BY <1>22, HookReadKeepsMeeting
<1>23. ASSUME NEW h \in Webhooks, HookTransaction(h)  PROVE Meeting'
  BY <1>23, HookTransactionKeepsMeeting
<1>24. ASSUME NEW h \in Webhooks, HookClose(h)  PROVE Meeting'
  BY <1>24 DEF Meeting, Written, Calm, AtWork, Resting, LedgerInv, CallsInStep,
     LedgerTypeOK, LedgersOf, HookClose, history, Goes, Begin
<1>25. ASSUME NEW h \in Webhooks, HookClosed(h)  PROVE Meeting'
  BY <1>25 DEF Meeting, Written, Calm, AtWork, Resting, LedgersOf, HookClosed,
     history, ledgerVars, Goes, Sends
<1>26. ASSUME NEW h \in Webhooks, HookSave(h)  PROVE Meeting'
  BY <1>26 DEF Meeting, Written, Calm, AtWork, Resting, LedgersOf, HookSave,
     history, ledgerVars, Goes
<1>27. ASSUME NEW h \in Webhooks, SaveTransaction(h)  PROVE Meeting'
  BY <1>27 DEF Meeting, Written, Calm, AtWork, LedgersOf, SaveTransaction, history,
     ledgerVars
<1>28. ASSUME NEW h \in Handlers, RequestFails(h)  PROVE Meeting'
  BY <1>28 DEF Meeting, Written, Calm, AtWork, Resting, LedgersOf, RequestFails,
     Goes, AbortCalls
<1>29. ASSUME NEW c \in Calls, LedgerRuns(c)  PROVE Meeting'
  BY <1>29, Names DEF Meeting, Written, Calm, AtWork, LedgerInv, LedgerTypeOK,
     LedgersOf, LedgerRuns, merchantVars, request, history, LedgerStep, Find, Open,
     Append, LookUp, Post
<1>30. CASE ProcessEnds
  BY <1>30, Names DEF Meeting, Written, Calm, AtWork, Resting, LedgerInv,
     CallsInStep, LedgerTypeOK, LedgersOf, ProcessEnds, AbortCalls
<1> QED  BY <1>1, <1>2, <1>3, <1>4, <1>5, <1>6, <1>7, <1>8, <1>9, <1>10, <1>11,
   <1>12, <1>13, <1>14, <1>15, <1>16, <1>17, <1>18, <1>19, <1>20, <1>21, <1>22,
   <1>23, <1>24, <1>25, <1>26, <1>27, <1>28, <1>29, <1>30 DEF MerchantNext,
   Initiation, ActivityStep, BackgroundStep, HookStep, UnawaitedFails, Crash

\* What a webhook is about to write is what the status it will save means.
LEMMA HookTransactionKeepsAgreement ==
  ASSUME MerchantTypeOK, Shape, Documents, Linking, Evidence, Alone, Meeting,
         Agreement, NEW h \in Webhooks, HookTransaction(h)
  PROVE  Agreement'
<1> USE Names DEF MerchantTypeOK
<1>1. /\ UNCHANGED <<transaction, offrampId, offramp, pay, doc, statusTo, docSeen,
                     background, contended, crossed, faulted>>
      /\ pc[h] = "transaction" /\ doc[h] \in Activities
      /\ merchantTo[h] = "none" /\ unawaited[h] = "none"
  BY DEF HookTransaction, docs, hook, outside, history, Shape, DocsOf
<1>2. /\ \A w \in Webhooks \ {h} : /\ pc'[w] = pc[w]
                                   /\ merchantTo'[w] = merchantTo[w]
                                   /\ unawaited'[w] = unawaited[w]
      /\ pc'[h] \in {"record", "save"}
  BY DEF HookTransaction, Goes, Sends
<1>3. \A w \in Webhooks : AtWork(w)' <=> AtWork(w)
  BY <1>1, <1>2 DEF AtWork, Resting
<1>4. ASSUME NEW o \in Activities, offramp[o] # "none", Calm(pay[o]), o \notin crossed,
             NEW w \in Webhooks, doc[w] = o
      PROVE  Saying(w, o)'
  <2>1. Saying(w, o)
    BY <1>4 DEF Agreement
  <2>2. CASE w # h
    BY <1>1, <1>2, <2>1, <2>2 DEF Saying
  <2>3. CASE w = h
    <3>1. offrampId[pay[o]] = o
      BY <1>1, <1>4, <2>3, SMTT(30) DEF Shape, Documents, Linking, Calm, DocsOf
    <3>2. LET new == MerchantStatus(statusTo[h], transaction[pay[o]])
              to  == IF new # transaction[pay[o]] THEN new ELSE "none"
          IN /\ merchantTo'[h] = to
             /\ pc'[h] = "record" => unawaited'[h] = "none"
             /\ pc'[h] = "save" => unawaited'[h] = IF to = "none" THEN "none" ELSE "sent"
      BY <1>1, <1>4, <2>3, <3>1 DEF HookTransaction, Goes, Sends
    <3>3. statusTo[h] \in {"pending", "transit", "completed", "failed"}
      BY <1>1 DEF Evidence, Settled, HookSteps
    <3>4. /\ merchantTo'[h] \in {"none", Said(statusTo[h])}
          /\ merchantTo'[h] = "none" /\ statusTo[h] \in Told =>
               transaction[pay[o]] = Said(statusTo[h])
      BY <3>2, <3>3 DEF MerchantStatus, Said, Told
    <3> QED
      BY <1>1, <1>2, <2>1, <2>3, <3>2, <3>4 DEF Saying, HookSteps, Said, MerchantStatus
  <2> QED  BY <2>2, <2>3
<1>5. ASSUME NEW o \in Activities, offramp[o] # "none", Calm(pay[o]), o \notin crossed,
             offramp[o] \in Told, (\A w \in Webhooks : doc[w] = o => ~AtWork(w))'
      PROVE  transaction[pay[o]] = Said(offramp[o])
  BY <1>1, <1>3, <1>5 DEF Agreement
<1> QED  BY <1>1, <1>4, <1>5 DEF Agreement, Calm, Told, Said

\* The write nobody awaits tells what the offramp document tells or will tell.
LEMMA SaveTransactionKeepsAgreement ==
  ASSUME MerchantTypeOK, Shape, Documents, Linking, Evidence, Alone, Meeting,
         Agreement, NEW h \in Webhooks, SaveTransaction(h)
  PROVE  Agreement'
<1> USE Names DEF MerchantTypeOK
<1>1. /\ UNCHANGED <<offrampId, offramp, pc, pay, doc, statusTo, docSeen, merchantTo,
                     background, contended, crossed, faulted>>
      /\ unawaited[h] = "sent" /\ h \in Webhooks
      /\ unawaited' = [unawaited EXCEPT ![h] = "done"]
      /\ transaction' = [transaction EXCEPT ![pay[doc[h]]] = merchantTo[h]]
  BY DEF SaveTransaction, hook, outside, history
<1>2. doc[h] \in Activities /\ pc[h] # "idle" /\ AtWork(h)
      /\ pc[h] \in {"save", "done", "failed"}
  BY <1>1, SMTT(30) DEF Shape, DocsOf, AtWork, HookSteps
<1>3. SUFFICES ASSUME NEW o \in Activities, offramp[o] # "none", Calm(pay[o]),
                      o \notin crossed
               PROVE  /\ \A w \in Webhooks : doc[w] = o => Saying(w, o)'
                      /\ (offramp[o] \in Told
                            /\ (\A w \in Webhooks : doc[w] = o => ~AtWork(w)))' =>
                           transaction'[pay[o]] = Said(offramp[o])
  BY <1>1 DEF Agreement, Calm, Said, Told
<1>4. pay[o] \in Payments /\ pay[doc[h]] \in Payments
  <2>1. \A g \in Activities : pc[g] # "idle" => pay[g] \in Payments
    BY DEF Shape
  <2>2. offramp[doc[h]] # "none"
    BY <1>2 DEF Shape, Documents, DocsOf
  <2> QED  BY <1>2, <1>3, <2>1, <2>2 DEF Documents
<1>5. CASE doc[h] = o
  <2>1. \A w \in Webhooks \ {h} : doc[w] = o => ~AtWork(w)
    BY <1>2, <1>3, <1>5 DEF Meeting
  <2>2. Saying(h, o)
    BY <1>3, <1>5 DEF Agreement
  <2>3. transaction'[pay[o]] = merchantTo[h]
    BY <1>1, <1>4, <1>5
  <2>4. ASSUME NEW w \in Webhooks \ {h}, doc[w] = o  PROVE Saying(w, o)'
    <3>1. pc[w] \notin HookSteps /\ unawaited[w] # "sent"
      BY <2>1, <2>4 DEF AtWork, HookSteps, Resting
    <3>2. Saying(w, o)
      BY <1>3, <2>4 DEF Agreement
    <3> QED  BY <1>1, <3>1, <3>2 DEF Saying, HookSteps
  <2>5. Saying(h, o)'
    BY <1>1, <1>2, <2>2, <2>3 DEF Saying, HookSteps
  <2>6. pc[h] = "done" => transaction'[pay[o]] = Said(offramp[o])
    BY <1>1, <2>2, <2>3 DEF Saying
  <2>7. pc[h] = "save" => AtWork(h)'
    BY <1>1 DEF AtWork, Resting
  <2>8. pc[h] # "failed"
    BY <2>2 DEF Saying
  <2>9. (\A w \in Webhooks : doc[w] = o => ~AtWork(w))' => pc[h] # "save"
    BY <1>1, <1>5, <2>7
  <2>10. \A w \in Webhooks : doc[w] = o => Saying(w, o)'
    BY <2>4, <2>5
  <2>11. UNCHANGED offramp
    BY <1>1
  <2> QED  BY <1>2, <2>6, <2>8, <2>9, <2>10, <2>11 DEF Said
<1>6. CASE doc[h] # o
  <2>1. \A p \in Activities : (\E w \in Webhooks : doc[w] = p) =>
          offramp[p] \notin {"none", "initiated"}
    BY DEF Shape, Documents, DocsOf
  <2>2. CASE pay[doc[h]] = pay[o]
    <3>1. offramp[o] = "initiated"
      BY <1>2, <1>3, <1>6, <2>1, <2>2 DEF Linking, Calm
    <3> QED  BY <1>1, <2>1, <3>1 DEF Told
  <2>3. CASE pay[doc[h]] # pay[o]
    <3>1. transaction'[pay[o]] = transaction[pay[o]]
      BY <1>1, <1>4, <2>3
    <3>2. \A w \in Webhooks : doc[w] = o => unawaited'[w] = unawaited[w]
      BY <1>1, <1>6
    <3>3. \A w \in Webhooks : doc[w] = o => (Saying(w, o)' <=> Saying(w, o))
      BY <1>1, <3>1, <3>2 DEF Saying
    <3>4. \A w \in Webhooks : doc[w] = o => (AtWork(w)' <=> AtWork(w))
      BY <1>1, <3>2 DEF AtWork
    <3> QED  BY <1>1, <1>3, <3>1, <3>3, <3>4 DEF Agreement
  <2> QED  BY <2>2, <2>3
<1> QED  BY <1>5, <1>6

\* While nothing met and nothing failed, what the webhooks saved or will save in the
\* two documents agrees.
LEMMA AgreementStep ==
  ASSUME MerchantTypeOK, Shape, Documents, Linking, Evidence, Alone, Meeting,
         Agreement, [MerchantNext]_vars
  PROVE  Agreement'
<1>1. CASE UNCHANGED <<transaction, offrampId, offramp, pc, pay, doc, statusTo,
                        docSeen, merchantTo, unawaited, background, contended,
                        crossed, faulted>>
  BY <1>1 DEF Agreement, Saying, Calm, AtWork
<1>2. CASE UNCHANGED vars
  BY <1>1, <1>2 DEF vars, merchantVars, docs, request, hook, outside, history,
     ledgerVars
<1>3. ASSUME NEW m \in Payments, CreateWallet(m) \/ InitiationFails(m)
      PROVE  Agreement'
  BY <1>1, <1>3 DEF CreateWallet, request, history, ledgerVars, hook,
     InitiationFails, docs
<1>4. ASSUME NEW m \in Payments, NEW n \in Deposits, CustomerPays(m, n)
      PROVE  Agreement'
  BY <1>1, <1>4 DEF CustomerPays, docs, request, history, ledgerVars, hook
<1>5. ASSUME NEW h \in Activities, Expire(h)
      PROVE  Agreement'
  BY <1>1, <1>5 DEF Expire, docs, request, history, ledgerVars, hook
<1>6. ASSUME NEW o \in Activities, NEW e \in Events, ProviderEmits(o, e)
      PROVE  Agreement'
  BY <1>1, <1>6 DEF ProviderEmits, docs, request, history, ledgerVars, hook
<1>7. ASSUME NEW c \in Calls, LedgerRuns(c)
      PROVE  Agreement'
  BY <1>1, <1>7 DEF LedgerRuns, merchantVars, docs, request, outside, history, hook,
     LedgerStep, Find, Open, Append, LookUp, Post, Goto
<1>8. ASSUME NEW m \in Payments, CreateTransaction(m)  PROVE Agreement'
  BY <1>8 DEF Shape, Documents, Agreement, Saying, Calm, AtWork, CreateTransaction,
     request, history, hook
<1>9. ASSUME NEW m \in Payments, NEW h \in Activities, ActivityRead(h, m)
      PROVE  Agreement'
  BY <1>9 DEF Shape, Documents, Agreement, Saying, Calm, AtWork, HookSteps, Resting,
     ActivityRead, hook, docs, Goes
<1>10. ASSUME NEW h \in Activities, ReadBalance(h)  PROVE Agreement'
  BY <1>10 DEF Shape, Agreement, Saying, Calm, AtWork, HookSteps, ReadBalance, hook,
     docs, history, Goes
<1>11. ASSUME NEW h \in Activities, ReadTransaction(h)  PROVE Agreement'
  BY <1>11, Names DEF Agreement, Saying, Calm, AtWork, ReadTransaction, hook, docs,
     history, Goes
<1>12. ASSUME NEW h \in Activities, CreateOfframp(h)  PROVE Agreement'
  BY <1>12 DEF Meeting, Agreement, Saying, Told, Calm, AtWork, HookSteps, Resting,
     CreateOfframp, hook, history, Goes
<1>13. ASSUME NEW h \in Activities, Link(h)  PROVE Agreement'
  BY <1>13 DEF Agreement, Saying, Calm, AtWork, HookSteps, Resting, Link, hook,
     history, Goes
<1>14. ASSUME NEW h \in Activities, Authorise(h)  PROVE Agreement'
  BY <1>14, Names DEF Meeting, Agreement, Saying, Told, Calm, AtWork, HookSteps,
     Resting, Authorise, hook, history, Goes
<1>15. ASSUME NEW h \in Activities, ReadOfframp(h)  PROVE Agreement'
  BY <1>15 DEF Evidence, Agreement, Saying, Told, Calm, AtWork, HookSteps, Resting,
     Settled, ReadOfframp, hook, docs, history, Goes
<1>16. ASSUME NEW h \in Activities, Process(h)  PROVE Agreement'
  BY <1>16, Names DEF Agreement, Saying, Calm, AtWork, Process, hook, docs, history,
     Goes
<1>17. ASSUME NEW h \in Activities, SaveFunded(h)  PROVE Agreement'
  BY <1>17, Names DEF Shape, Alone, Meeting, Agreement, Saying, Told, Calm, AtWork,
     Resting, SaveFunded, hook, history, Goes
<1>18. ASSUME NEW h \in Activities, Recorded(h)  PROVE Agreement'
  BY <1>18, Names DEF Agreement, Saying, Calm, AtWork, Recorded, hook, docs,
     history, Goes
<1>19. ASSUME NEW h \in Activities, SettleWallet(h)  PROVE Agreement'
  BY <1>19, Names DEF Agreement, Saying, Calm, AtWork, SettleWallet, hook, history
<1>20. ASSUME NEW h \in Activities, Quote(h)  PROVE Agreement'
  BY <1>20 DEF Agreement, Saying, Calm, AtWork, Working, Quote, docs, request,
     history, Works, hook
<1>21. ASSUME NEW h \in Activities, Payout(h)  PROVE Agreement'
  BY <1>21, SMTT(30) DEF MerchantTypeOK, Shape, Agreement, Saying, Calm, AtWork,
     Paying, Payout, docs, request, Works, hook
<1>22. ASSUME NEW h \in Activities, BackgroundFails(h)  PROVE Agreement'
  BY <1>22, Names DEF Agreement, Saying, Calm, AtWork, BackgroundFails, docs,
     request, hook
<1>23. ASSUME NEW h \in Activities, BackgroundSave(h)  PROVE Agreement'
  BY <1>23, Names DEF Shape, Alone, Agreement, Saying, Calm, AtWork, BackgroundSave,
     request, history, hook
<1>24. ASSUME NEW h \in Webhooks, NEW o \in Activities, NEW e \in Events,
             HookRead(h, o, e)
      PROVE  Agreement'
  BY <1>24, Names, SMTT(30) DEF MerchantTypeOK, Shape, Documents, Agreement, Saying,
     Calm, AtWork, Paying, HookSteps, Working, DocsOf, HookRead, docs, outside, Goes
<1>25. ASSUME NEW h \in Webhooks, HookTransaction(h)  PROVE Agreement'
  BY <1>25, HookTransactionKeepsAgreement
<1>26. ASSUME NEW h \in Webhooks, HookClose(h)  PROVE Agreement'
  BY <1>26 DEF Agreement, Saying, Calm, AtWork, HookSteps, Resting, HookClose, hook,
     docs, history, Goes
<1>27. ASSUME NEW h \in Webhooks, HookClosed(h)  PROVE Agreement'
  BY <1>27 DEF MerchantTypeOK, Agreement, Saying, Calm, AtWork, HookSteps, Resting,
     HookClosed, hook, docs, history, Goes, Sends
<1>28. ASSUME NEW h \in Webhooks, HookSave(h)  PROVE Agreement'
  BY <1>28, Names, SMTT(60) DEF MerchantTypeOK, Shape, Documents, Meeting,
     Agreement, Saying, Calm, AtWork, HookSteps, Resting, DocsOf, HookSave, hook,
     history, Goes
<1>29. ASSUME NEW h \in Webhooks, SaveTransaction(h)  PROVE Agreement'
  BY <1>29, SaveTransactionKeepsAgreement
<1>30. ASSUME NEW h \in Handlers, RequestFails(h)  PROVE Agreement'
  BY <1>30, Names, SMTT(30) DEF MerchantTypeOK, Shape, Agreement, Saying, Calm,
     AtWork, RequestFails, hook, Goes, PaymentOf
<1>31. CASE ProcessEnds
  BY <1>31, Names DEF Agreement, Saying, Calm, AtWork, ProcessEnds, hook, docs,
     PaymentOf
<1> QED  BY <1>1, <1>2, <1>3, <1>4, <1>5, <1>6, <1>7, <1>8, <1>9, <1>10, <1>11,
   <1>12, <1>13, <1>14, <1>15, <1>16, <1>17, <1>18, <1>19, <1>20, <1>21, <1>22,
   <1>23, <1>24, <1>25, <1>26, <1>27, <1>28, <1>29, <1>30, <1>31 DEF MerchantNext,
   Initiation, ActivityStep, BackgroundStep, HookStep, UnawaitedFails, Crash

-----------------------------------------------------------------------------
\* Before any payment the inductive invariant holds.
LEMMA MerchantInvInit == MerchantInit => MerchantInv
<1> SUFFICES ASSUME MerchantInit  PROVE MerchantInv
  OBVIOUS
<1>1. LedgerInv
  BY LedgerInvInit DEF MerchantInit
<1>2. MerchantTypeOK
  BY <1>1, Names
  DEF MerchantInit, MerchantTypeOK, LedgerInv, WalletStatuses, OfframpStatuses,
      MerchantStatuses, ActivitySteps, HookSteps, Resting, Working
<1>3. Shape
  BY Names DEF MerchantInit, Shape, Resting
<1>4. Documents /\ Linking
  BY Names DEF MerchantInit, Documents, Linking, Resting
<1>5. Evidence
  BY Names
  DEF MerchantInit, Evidence, StatusEvidence, HookSteps, Settled, Ends
<1>6. Calling /\ Closing
  BY Names, CallNames
  DEF MerchantInit, LedgerInit, Calling, Closing, Ends
<1>7. Alone
  BY Names DEF MerchantInit, Alone, Resting
<1>8. Meeting /\ Agreement
  BY Names DEF MerchantInit, Meeting, Agreement
<1> QED
  BY <1>1, <1>2, <1>3, <1>4, <1>5, <1>6, <1>7, <1>8 DEF MerchantInv

\* Every step of every handler, and every stutter, keeps the invariant.
LEMMA MerchantInvStep == MerchantInv /\ [MerchantNext]_vars => MerchantInv'
<1> SUFFICES ASSUME MerchantInv, [MerchantNext]_vars  PROVE MerchantInv'
  OBVIOUS
<1>1. [LedgerNext]_ledgerVars
  BY LedgerUsed DEF MerchantInv
<1>2. LedgerInv' /\ LedgerKept
  BY <1>1, LedgerInvStep, LedgerKeeps DEF MerchantInv
<1>3. LedgerTypeOK'
  BY <1>2 DEF LedgerInv
<1> QED
  BY <1>2, <1>3, TypesStep, ShapeStep, DocumentsStep, LinkingStep, EvidenceStep,
     CallingStep, ClosingStep, AloneStep, MeetingStep, AgreementStep
  DEF MerchantInv

\* The inductive invariant holds in every reachable state.
THEOREM MerchantInvariant == MerchantSpec => []MerchantInv
  BY MerchantInvInit, MerchantInvStep, PTL DEF MerchantSpec

\* Type correctness of the payments, their documents and their handlers.
THEOREM MerchantTypeCorrect == MerchantSpec => []MerchantTypeOK
  BY MerchantInvariant, PTL DEF MerchantInv

\* A merchant is paid twice for one payment only if two activities of its address
\* were handled at once, for any deliveries, orders and failures.
THEOREM SecondPayoutNeedsContention == MerchantSpec => []PaidOutOnce
<1>1. MerchantInv => PaidOutOnce
  <2> SUFFICES ASSUME MerchantInv, NEW g \in payouts, NEW h \in payouts, g # h,
                      pay[g] = pay[h], pay[g] \notin contended
               PROVE  FALSE
    BY DEF PaidOutOnce
  <2> USE DEF MerchantInv, MerchantTypeOK
  <2>1. /\ {g, h} \subseteq Activities /\ {doc[g], doc[h]} \subseteq Activities
        /\ pay[doc[g]] = pay[g] /\ pay[doc[h]] = pay[h]
        /\ background[g] # "none" /\ background[h] # "none"
    BY Names DEF Shape
  <2>2. /\ doc[g] # doc[h]
        /\ offramp[doc[g]] \notin {"none", "initiated"}
        /\ offramp[doc[h]] \notin {"none", "initiated"}
    BY <2>1 DEF Documents
  <2>3. offrampId[pay[g]] = doc[g] /\ offrampId[pay[h]] = doc[h]
    BY <2>1, <2>2 DEF Linking
  <2> QED  BY <2>2, <2>3
<1> QED  BY <1>1, MerchantInvariant, PTL

\* What the three documents of a payment say has happened, however the handlers
\* overwrite one another.
THEOREM StatusesHaveEvidence == MerchantSpec => []StatusEvidence
<1>1. MerchantInv => StatusEvidence
  BY DEF MerchantInv, Evidence
<1> QED  BY <1>1, MerchantInvariant, PTL

\* Once every handler is through, the merchant's document and the offramp document
\* tell the same end, unless handlers met or an operation failed.
THEOREM DocumentsTellTheSame == MerchantSpec => []StatusesAgree
<1>1. MerchantInv => StatusesAgree
  <2> SUFFICES ASSUME MerchantInv, NEW o \in Activities, o \notin crossed,
                      HandlersOf(o) = {}, offramp[o] \in Told,
                      pay[o] \notin contended \cup faulted
               PROVE  transaction[pay[o]] = Said(offramp[o])
    BY DEF StatusesAgree, Told, Said
  <2>1. \A w \in Webhooks : doc[w] = o => ~AtWork(w)
    BY DEF HandlersOf, Handlers
  <2> QED  BY <2>1 DEF MerchantInv, Agreement, Calm, Told
<1> QED  BY <1>1, MerchantInvariant, PTL

\* The ledger of a completed payment is posted and holds the receipt, the funding
\* and the settlement, unless handlers or ledger calls met, an operation failed, or
\* a failed approval has closed it before.
THEOREM CompletedPaymentsAreRecorded == MerchantSpec => []CompletedIsRecorded
<1>1. MerchantInv => CompletedIsRecorded
  <2> SUFFICES ASSUME MerchantInv, NEW m \in Payments, NEW o, o = offrampId[m],
                      transaction[m] = "completed", o \notin crossed \cup raced,
                      m \notin contended \cup faulted, "pendingApproval" \notin rail[o]
               PROVE  \E d \in LedgersOf(o) \cap posted :
                        /\ {ReceivedCall(o), FundedCall(o)} \subseteq recorded[d]
                        /\ \E h \in Webhooks :
                             SettleCall(h) \in recorded[d] /\ statusTo[h] = "completed"
    BY DEF CompletedIsRecorded
  <2> USE DEF MerchantInv
  <2>1. PICK w \in Webhooks :
          /\ pc[w] # "idle" /\ pay[doc[w]] = m
          /\ merchantTo[w] = "completed" /\ unawaited[w] = "done"
    BY DEF Closing
  <2>2. doc[w] = o /\ o \in Activities /\ pay[o] = m
    <3>1. doc[w] \in Activities /\ offramp[doc[w]] \notin {"none", "initiated"}
      <4>1. PICK g \in payouts : doc[w] = doc[g]
        BY <2>1 DEF Shape, DocsOf
      <4>2. g \in Activities /\ background[g] # "none"
        BY DEF MerchantTypeOK, Shape
      <4> QED  BY <4>1, <4>2 DEF Shape, Documents
    <3> QED  BY <2>1, <3>1 DEF Linking
  <2>3. statusTo[w] = "completed" /\ "complete" \in rail[o]
    BY <2>1, <2>2 DEF Evidence, Ends
  <2>4. step[CloseCall(w)] = "done"
    BY <2>1 DEF Closing, Ends
  <2>5. PICK d \in LedgersOf(o) : d \in posted
    BY <2>2, <2>4 DEF Closing
  <2>6. SettledIn(o)
    BY <2>2, <2>4, CallNames, Names DEF Closing, LedgerInv, CallsInStep
  <2>7. PICK v \in Webhooks, b \in LedgersOf(o) :
          doc[v] = o /\ statusTo[v] \in Ends /\ SettleCall(v) \in recorded[b]
    BY <2>6 DEF SettledIn
  <2>8. statusTo[v] = "completed"
    BY <2>2, <2>3, <2>7 DEF Evidence, Ends
  <2>9. \A c, e \in LedgersOf(o) : c = e
    BY DEF LedgerInv, OneLedgerUnlessRaced, LedgersOf
  <2>10. ReceivedCall(o) \in recorded[d] /\ FundedCall(o) \in recorded[d]
    <3>1. Written(ReceivedCall(o), o) /\ Written(FundedCall(o), o)
      BY <2>1, <2>2 DEF Meeting, Calm
    <3> QED  BY <2>9, <3>1 DEF Written
  <2>11. SettleCall(v) \in recorded[d]
    BY <2>7, <2>9
  <2> QED  BY <2>5, <2>8, <2>10, <2>11
<1> QED  BY <1>1, MerchantInvariant, PTL
=============================================================================
