----------------------------- MODULE MerchantPay -----------------------------
(***************************************************************************)
(* A customer pays a merchant from a wallet of their own: the merchant's   *)
(* SDK or POS creates a payment with an address, the customer sends coins  *)
(* there, the address monitor reports the activity, and the handler of the *)
(* report starts an offramp transaction that pays the merchant's bank.     *)
(*                                                                         *)
(* A payment is an external wallet, a merchant transaction and, once paid, *)
(* an offramp document.  The last is named by the activity that created    *)
(* it.  As in Send, each awaited operation is a step, and the handler of   *)
(* offramp.funded runs beside the one that emitted it, on the same object. *)
(***************************************************************************)
EXTENDS Integers, Ledger

CONSTANTS
  Payments,      \* the payments merchants ask for
  Activities,    \* deliveries of an address activity event
  Webhooks,      \* deliveries of a provider event
  Price,         \* the coin amount of each payment, in tenths of a coin
  Deposits,      \* the amounts a customer may send at once, in tenths
  MaxReceived,   \* bound: what a customer sends in all
  Expiring,      \* the offramp documents whose 15 minutes may pass in a run
  Emitted,       \* bound: the events the provider may emit in a run
  Failures       \* the faults a run allows

Handlers == Activities \cup Webhooks

\* The calls of the ledger service that the handlers make.
ReceivedCall(h) == <<h, "received">>
FundedCall(h) == <<h, "funded">>
SettleCall(h) == <<h, "settle">>
CloseCall(h) == <<h, "close">>

ASSUME MerchantAssumption ==
  /\ Activities \cap Webhooks = {}
  /\ None \notin Payments
  /\ Price \in [Payments -> {n \in Nat : n % 10 # 0}]
  /\ Deposits \subseteq Nat \ {0}
  /\ MaxReceived \in Nat
  /\ Emitted \subseteq {"created", "pending", "complete", "failed", "pendingApproval"}
  /\ Failures \subseteq {"database", "unawaited", "provider", "lostReply", "crash"}
  /\ RecordCalls = (Activities \X {"received", "funded"}) \cup (Webhooks \X {"settle"})
  /\ CloseCalls = Webhooks \X {"close"}
  /\ Transactions = Activities

VARIABLES
  stage,        \* how far the creation of each payment has got
  wallet,       \* the status of each payment's external wallet
  received,     \* the coins at each payment's address, in tenths
  transaction,  \* the status of each merchant transaction
  offrampId,    \* the offramp document each merchant transaction names
  offramp,      \* the status of each offramp document
  expired,      \* the offramp documents whose expiresAt has passed
  pc,           \* the operation each handler does next
  pay,          \* the payment each activity is about
  doc,          \* the offramp document each handler works on
  statusTo,     \* the status each webhook is about to save
  docSeen,      \* the status of the offramp document each webhook read
  merchantTo,   \* the status each webhook saves in the merchant transaction
  unawaited,    \* the write each handler leaves running: none, sent or done
  background,   \* what the handler of `funded` does next, for each activity
  rail,         \* the events the provider has emitted for each offramp document
  payouts,      \* history: the activities whose payout the provider accepted
  contended,    \* history: payments with two activities in progress at once
  crossed,      \* history: offramp documents a webhook met another handler of
  faulted       \* history: payments with an operation that failed

hook == <<statusTo, docSeen, merchantTo>>
docs == <<wallet, transaction, offrampId, offramp>>
request == <<pc, pay, doc, hook, unawaited>>
outside == <<stage, received, expired, rail>>
history == <<payouts, contended, crossed, faulted>>
merchantVars == <<docs, request, outside, background, history>>
vars == <<merchantVars, ledgerVars>>

WalletStatuses == {"none", "created", "settled"}
Settled == {"funded", "pending", "transit", "completed", "failed"}
Events == {"created", "pending", "complete", "failed", "pendingApproval"}
Resting == {"idle", "unsaved", "done", "failed"}
Working == {"quote", "payout", "record"}

Goes(h, s) == pc' = [pc EXCEPT ![h] = s]
DocsOf(H) == {doc[h] : h \in H}
AtWork(h) ==
  \/ pc[h] \notin Resting \/ unawaited[h] = "sent"
  \/ h \in Activities /\ background[h] \in Working
HandlersOf(o) == {h \in Handlers : doc[h] = o /\ AtWork(h)}

MerchantInit ==
  /\ LedgerInit
  /\ stage = [m \in Payments |-> "new"]
  /\ wallet = [m \in Payments |-> "none"]
  /\ received = [m \in Payments |-> 0]
  /\ transaction = [m \in Payments |-> "none"]
  /\ offrampId = [m \in Payments |-> None]
  /\ offramp = [o \in Activities |-> "none"]
  /\ expired = {}
  /\ pc = [h \in Handlers |-> "idle"]
  /\ pay = [h \in Activities |-> None]
  /\ doc = [h \in Handlers |-> None]
  /\ statusTo = [h \in Webhooks |-> "none"]
  /\ docSeen = [h \in Webhooks |-> "none"]
  /\ merchantTo = [h \in Webhooks |-> "none"]
  /\ unawaited = [h \in Handlers |-> "none"]
  /\ background = [h \in Activities |-> "none"]
  /\ rail = [o \in Activities |-> {}]
  /\ payouts = {} /\ contended = {} /\ crossed = {} /\ faulted = {}

-----------------------------------------------------------------------------
(***************************************************************************)
(* initatePaymentWithExternalWlt and intitatePOSPayment: an address, its   *)
(* registration with the monitor, and the merchant transaction.            *)
(***************************************************************************)

CreateWallet(m) ==
  /\ stage[m] = "new"
  /\ stage' = [stage EXCEPT ![m] = "wallet"]
  /\ wallet' = [wallet EXCEPT ![m] = "created"]
  /\ UNCHANGED <<ledgerVars, transaction, offrampId, offramp, request, received,
                 expired, rail, background, history>>

CreateTransaction(m) ==
  /\ stage[m] = "wallet"
  /\ stage' = [stage EXCEPT ![m] = "ready"]
  /\ transaction' = [transaction EXCEPT ![m] = "initiated"]
  /\ UNCHANGED <<ledgerVars, wallet, offrampId, offramp, request, received, expired,
                 rail, background, history>>

\* The monitor or the database refuses: the wallet stays behind.
InitiationFails(m) ==
  /\ "database" \in Failures
  /\ stage[m] = "wallet"
  /\ stage' = [stage EXCEPT ![m] = "rejected"]
  /\ UNCHANGED <<ledgerVars, docs, request, received, expired, rail, background,
                 history>>

Initiation(m) == CreateWallet(m) \/ CreateTransaction(m) \/ InitiationFails(m)

\* The customer (external) learns the address from the answer and sends coins.
CustomerPays(m, n) ==
  /\ stage[m] = "ready" /\ received[m] + n <= MaxReceived
  /\ received' = [received EXCEPT ![m] = @ + n]
  /\ UNCHANGED <<ledgerVars, docs, request, stage, expired, rail, background,
                 history>>

Expire(o) ==
  /\ offramp[o] # "none" /\ o \in Expiring \ expired
  /\ expired' = expired \cup {o}
  /\ UNCHANGED <<ledgerVars, docs, request, stage, received, rail, background,
                 history>>

-----------------------------------------------------------------------------
(***************************************************************************)
(* handleAddressActivityEvent.                                             *)
(***************************************************************************)

\* ethers.formatUnits gives at least one decimal, convertAssets never an integer:
\* both are the digits before the point, the point and one digit (of tenths,
\* under a hundred coins).  "." comes before every digit.
Point == -1
Text(n) ==
  IF n < 100 THEN <<n \div 10, Point, n % 10>>
  ELSE <<n \div 100, (n \div 10) % 10, Point, n % 10>>

\* JavaScript's >= on two strings.
TextAtLeast(s, t) ==
  \/ DOMAIN t \subseteq DOMAIN s /\ \A i \in DOMAIN t : s[i] = t[i]
  \/ \E i \in DOMAIN s \cap DOMAIN t :
       s[i] > t[i] /\ \A j \in 1..(i - 1) : s[j] = t[j]

\* retrieveSingleExternalWalletAddress: a wallet that is not SETTLED.
ActivityRead(h, m) ==
  /\ pc[h] = "idle"
  /\ received[m] > 0
  /\ Goes(h, IF wallet[m] = "created" THEN "balance" ELSE "done")
  /\ pay' = [pay EXCEPT ![h] = m]
  /\ contended' = contended \cup
       {n \in {m} : \E g \in Activities : pay[g] = m /\ pc[g] \notin Resting}
  /\ UNCHANGED <<ledgerVars, docs, doc, hook, unawaited, outside, background, payouts,
                 crossed, faulted>>

ReadBalance(h) ==
  /\ pc[h] = "balance"
  /\ Goes(h, IF TextAtLeast(Text(received[pay[h]]), Text(Price[pay[h]]))
             THEN "transaction" ELSE "done")
  /\ UNCHANGED <<ledgerVars, docs, pay, doc, hook, unawaited, outside, background,
                 history>>

\* Variant of ReadTransaction for the mutants: does not look for the document.
ReadTransactionUnlinked(h) ==
  /\ pc[h] = "transaction"
  /\ Goes(h, "create")
  /\ doc' = [doc EXCEPT ![h] = h]
  /\ UNCHANGED <<ledgerVars, docs, pay, hook, unawaited, outside, background,
                 history>>

\* retrieveMerchantTransactionByAddress.  The merchant it belongs to always exists.
ReadTransaction(h) ==
  /\ pc[h] = "transaction"
  /\ LET named == offrampId[pay[h]]
     IN /\ Goes(h, IF named = None THEN "create" ELSE "offramp")
        /\ doc' = [doc EXCEPT ![h] = IF named = None THEN h ELSE named]
  /\ UNCHANGED <<ledgerVars, docs, pay, hook, unawaited, outside, background,
                 history>>

\* intiatePaymentRequestToMerchant: the offramp document is created INITIATED,
\* then the merchant transaction is made to name it, then it is AUTHORIZED.
CreateOfframp(h) ==
  /\ pc[h] = "create"
  /\ Goes(h, "link")
  /\ offramp' = [offramp EXCEPT ![h] = "initiated"]
  /\ UNCHANGED <<ledgerVars, wallet, transaction, offrampId, pay, doc, hook,
                 unawaited, outside, background, history>>

Link(h) ==
  /\ pc[h] = "link"
  /\ Goes(h, "authorise")
  /\ offrampId' = [offrampId EXCEPT ![pay[h]] = h]
  /\ UNCHANGED <<ledgerVars, wallet, transaction, offramp, pay, doc, hook, unawaited,
                 outside, background, history>>

Authorise(h) ==
  /\ pc[h] = "authorise"
  /\ Goes(h, "process")
  /\ offramp' = [offramp EXCEPT ![h] = "authorized"]
  /\ UNCHANGED <<ledgerVars, wallet, transaction, offrampId, pay, doc, hook,
                 unawaited, outside, background, history>>

\* retrieveOfframpTransactionById: any status but INITIATED.
ReadOfframp(h) ==
  /\ pc[h] = "offramp"
  /\ Goes(h, IF offramp[doc[h]] # "initiated" THEN "process" ELSE "done")
  /\ UNCHANGED <<ledgerVars, docs, pay, doc, hook, unawaited, outside, background,
                 history>>

\* Variant of Process for the mutants: emits nothing.
ProcessWithoutEvent(h) ==
  /\ pc[h] = "process"
  /\ LET ready == offramp[doc[h]] = "authorized" /\ doc[h] \notin expired
     IN Goes(h, IF ready THEN "saveFunded" ELSE "failed")
  /\ UNCHANGED <<ledgerVars, docs, pay, doc, hook, unawaited, outside, background,
                 history>>

\* processPaymentUsingReference reads the document anew, AUTHORIZED and not
\* expired or it throws; `funded` is emitted before the save that makes it true.
Process(h) ==
  /\ pc[h] = "process"
  /\ LET ready == offramp[doc[h]] = "authorized" /\ doc[h] \notin expired
     IN /\ Goes(h, IF ready THEN "saveFunded" ELSE "failed")
        /\ background' =
              IF ready THEN [background EXCEPT ![h] = "quote"] ELSE background
  /\ UNCHANGED <<ledgerVars, docs, pay, doc, hook, unawaited, outside, history>>

\* Nobody awaits updateExternalWalletToSettled.
SaveFunded(h) ==
  /\ pc[h] = "saveFunded"
  /\ Goes(h, "record")
  /\ offramp' = [offramp EXCEPT ![doc[h]] = "funded"]
  /\ unawaited' = [unawaited EXCEPT ![h] = "sent"]
  /\ Begin(ReceivedCall(h), doc[h])
  /\ UNCHANGED <<wallet, transaction, offrampId, pay, doc, hook, outside, background,
                 history>>

SettleWallet(h) ==
  /\ h \in Activities /\ unawaited[h] = "sent"
  /\ unawaited' = [unawaited EXCEPT ![h] = "done"]
  /\ wallet' = [wallet EXCEPT ![pay[h]] = "settled"]
  /\ UNCHANGED <<ledgerVars, transaction, offrampId, offramp, pc, pay, doc, hook,
                 outside, background, history>>

Recorded(h) ==
  /\ pc[h] = "record" /\ step[ReceivedCall(h)] = "done"
  /\ Goes(h, "done")
  /\ UNCHANGED <<ledgerVars, docs, pay, doc, hook, unawaited, outside, background,
                 history>>

ActivityStep(h) ==
  \/ ReadBalance(h) \/ ReadTransaction(h) \/ CreateOfframp(h) \/ Link(h)
  \/ Authorise(h) \/ ReadOfframp(h) \/ Process(h) \/ SaveFunded(h)
  \/ Recorded(h)

-----------------------------------------------------------------------------
(***************************************************************************)
(* handleOfframpFunded, beside the activity that emitted the event.        *)
(***************************************************************************)

Works(h, s) == background' = [background EXCEPT ![h] = s]

Quote(h) ==
  /\ background[h] = "quote"
  /\ Works(h, "payout")
  /\ UNCHANGED <<ledgerVars, docs, request, outside, history>>

\* The provider takes one payout per sequenceId, the document's reference.  If
\* its answer is lost the handler takes the payout for refused.
Payout(h) ==
  /\ background[h] = "payout"
  /\ doc[h] \notin DocsOf(payouts)
  /\ payouts' = payouts \cup {h}
  /\ \/ Works(h, "record") /\ Begin(FundedCall(h), doc[h]) /\ UNCHANGED faulted
     \/ /\ "lostReply" \in Failures
        /\ Works(h, "failed")
        /\ faulted' = faulted \cup {pay[h]}
        /\ UNCHANGED ledgerVars
  /\ UNCHANGED <<docs, request, outside, contended, crossed>>

\* No quote, a refused payout, a reference the provider knows, or a database
\* error while recording.
BackgroundFails(h) ==
  /\ \/ background[h] \in {"quote", "payout"} /\ "provider" \in Failures
     \/ background[h] = "payout" /\ doc[h] \in DocsOf(payouts)
     \/ background[h] = "record" /\ "database" \in Failures
  /\ Works(h, "failed")
  /\ faulted' = faulted \cup
       {m \in {pay[h]} : background[h] # "payout" \/ doc[h] \notin DocsOf(payouts)}
  /\ AbortCalls({FundedCall(h)})
  /\ UNCHANGED <<docs, request, outside, payouts, contended, crossed>>

\* It throws while the activity's own save is in flight, and makes up for that
\* save if it failed.
BackgroundSave(h) ==
  /\ background[h] = "record" /\ step[FundedCall(h)] = "done"
  /\ Works(h, IF pc[h] = "saveFunded" THEN "failed" ELSE "done")
  /\ offramp' = IF pc[h] = "unsaved" THEN [offramp EXCEPT ![doc[h]] = "funded"]
                ELSE offramp
  /\ UNCHANGED <<ledgerVars, wallet, transaction, offrampId, request, outside,
                 history>>

BackgroundStep(h) ==
  Quote(h) \/ Payout(h) \/ BackgroundFails(h) \/ BackgroundSave(h)

-----------------------------------------------------------------------------
(***************************************************************************)
(* The provider's events, delivered in any order and any number of times,  *)
(* and handlePayoutWebhookEvent.                                           *)
(***************************************************************************)

ProviderEmits(o, e) ==
  /\ o \in DocsOf(payouts) /\ e \in Emitted
  /\ rail[o] \cap {e, "complete", "failed"} = {}
  /\ rail' = [rail EXCEPT ![o] = @ \cup {e}]
  /\ UNCHANGED <<ledgerVars, docs, request, stage, received, expired, background,
                 history>>

\* Variant of StatusesFor for the mutants: created reported as completed.
StatusesForSwapped(e) ==
  CASE e = "created"  -> {"completed"}
    [] e = "pending"  -> {"transit"}
    [] e = "complete" -> {"pending"}
    [] e = "failed"   -> {"failed"}
    [] OTHER          -> {"none", "failed"}

\* processPayoutWebhookEvent; "none" stands for updateStatus = false.
StatusesFor(e) ==
  CASE e = "created"  -> {"pending"}
    [] e = "pending"  -> {"transit"}
    [] e = "complete" -> {"completed"}
    [] e = "failed"   -> {"failed"}
    [] OTHER          -> {"none", "failed"}

\* Variants of MerchantStatus for the mutants: the offramp's own word, and a
\* switch without a case for FAILED.
MerchantStatusUnmapped(s, old) ==
  CASE s \in {"pending", "completed", "failed"} -> s
    [] OTHER                                   -> old
MerchantStatusWithoutFailed(s, old) ==
  CASE s = "pending"   -> "processing"
    [] s = "completed" -> "completed"
    [] OTHER           -> old

\* What the switch makes of the merchant transaction's status; TRANSIT leaves it.
MerchantStatus(s, old) ==
  CASE s = "pending"   -> "processing"
    [] s = "completed" -> "completed"
    [] s = "failed"    -> "failed"
    [] OTHER           -> old

HookRead(h, o, e) ==
  /\ pc[h] = "idle"
  /\ e \in rail[o]
  /\ \E s \in StatusesFor(e) :
       /\ statusTo' = [statusTo EXCEPT ![h] = s]
       /\ Goes(h, IF offramp[o] \in {"none", "initiated"} \/ s = "none"
                  THEN "done" ELSE "transaction")
  /\ doc' = [doc EXCEPT ![h] = o]
  /\ docSeen' = [docSeen EXCEPT ![h] = offramp[o]]
  /\ crossed' = crossed \cup {p \in {o} : HandlersOf(o) # {}}
  /\ UNCHANGED <<ledgerVars, docs, pay, merchantTo, unawaited, outside, background,
                 payouts, contended, faulted>>

\* A status that the document read already has is not written.
Sends(h, s) ==
  unawaited' = IF s = "none" THEN unawaited ELSE [unawaited EXCEPT ![h] = "sent"]

\* Variant of HookTransaction for the mutants: awaits no entry, closes no ledger.
HookTransactionUnawaited(h) ==
  /\ pc[h] = "transaction"
  /\ LET m     == pay[doc[h]]
         named == offrampId[m] = doc[h]
         new   == MerchantStatus(statusTo[h], transaction[m])
         to    == IF named /\ new # transaction[m] THEN new ELSE "none"
     IN /\ merchantTo' = [merchantTo EXCEPT ![h] = to]
        /\ Goes(h, "save") /\ Sends(h, to)
        /\ IF named /\ statusTo[h] \in {"completed", "failed"}
           THEN Begin(SettleCall(h), doc[h]) ELSE UNCHANGED ledgerVars
  /\ UNCHANGED <<docs, pay, doc, statusTo, docSeen, outside, background, history>>

\* retrieveMerchantTransactionByOfframId, then the switch up to its first await.
HookTransaction(h) ==
  /\ pc[h] = "transaction"
  /\ LET m     == pay[doc[h]]
         named == offrampId[m] = doc[h]
         new   == MerchantStatus(statusTo[h], transaction[m])
         to    == IF named /\ new # transaction[m] THEN new ELSE "none"
     IN /\ merchantTo' = [merchantTo EXCEPT ![h] = to]
        /\ IF named /\ statusTo[h] \in {"completed", "failed"}
           THEN /\ Goes(h, "record") /\ UNCHANGED unawaited
                /\ Begin(SettleCall(h), doc[h])
           ELSE Goes(h, "save") /\ Sends(h, to) /\ UNCHANGED ledgerVars
  /\ UNCHANGED <<docs, pay, doc, statusTo, docSeen, outside, background, history>>

HookClose(h) ==
  /\ pc[h] = "record" /\ step[SettleCall(h)] = "done"
  /\ Goes(h, "close")
  /\ Begin(CloseCall(h), doc[h])
  /\ UNCHANGED <<docs, pay, doc, hook, unawaited, outside, background, history>>

\* Nobody awaits merchantTxn.save().
HookClosed(h) ==
  /\ pc[h] = "close" /\ step[CloseCall(h)] = "done"
  /\ Goes(h, "save") /\ Sends(h, merchantTo[h])
  /\ UNCHANGED <<ledgerVars, docs, pay, doc, hook, outside, background, history>>

SaveTransaction(h) ==
  /\ h \in Webhooks /\ unawaited[h] = "sent"
  /\ unawaited' = [unawaited EXCEPT ![h] = "done"]
  /\ transaction' = [transaction EXCEPT ![pay[doc[h]]] = merchantTo[h]]
  /\ UNCHANGED <<ledgerVars, wallet, offrampId, offramp, pc, pay, doc, hook, outside,
                 background, history>>

HookSave(h) ==
  /\ pc[h] = "save"
  /\ Goes(h, "done")
  /\ offramp' = IF docSeen[h] = statusTo[h] THEN offramp
                ELSE [offramp EXCEPT ![doc[h]] = statusTo[h]]
  /\ UNCHANGED <<ledgerVars, wallet, transaction, offrampId, pay, doc, hook,
                 unawaited, outside, background, history>>

HookStep(h) == HookTransaction(h) \/ HookClose(h) \/ HookClosed(h) \/ HookSave(h)

-----------------------------------------------------------------------------
(***************************************************************************)
(* Failures.                                                               *)
(***************************************************************************)

PaymentOf(h) == pay[IF h \in Activities THEN h ELSE doc[h]]

\* An awaited operation throws.  The save of FUNDED may have been made all the
\* same; if not, the object keeps the status for the background handler's save.
RequestFails(h) ==
  /\ "database" \in Failures
  /\ pc[h] \notin Resting
  /\ Goes(h, IF pc[h] = "saveFunded" THEN "unsaved" ELSE "failed")
  /\ \/ UNCHANGED offramp
     \/ pc[h] = "saveFunded" /\ offramp' = [offramp EXCEPT ![doc[h]] = "funded"]
  /\ faulted' = faulted \cup {PaymentOf(h)}
  /\ AbortCalls({ReceivedCall(h), SettleCall(h), CloseCall(h)})
  /\ UNCHANGED <<wallet, transaction, offrampId, pay, doc, hook, unawaited, outside,
                 background, payouts, contended, crossed>>

\* Nothing in flight is resumed.
ProcessEnds ==
  /\ stage' = [m \in Payments |->
                 IF stage[m] = "wallet" THEN "rejected" ELSE stage[m]]
  /\ pc' = [h \in Handlers |-> IF pc[h] \in Resting THEN pc[h] ELSE "failed"]
  /\ unawaited' = [h \in Handlers |->
                     IF unawaited[h] = "sent" THEN "done" ELSE unawaited[h]]
  /\ background' = [h \in Activities |->
                      IF background[h] \in Working THEN "failed" ELSE background[h]]
  /\ faulted' = faulted \cup {PaymentOf(h) : h \in {g \in Handlers : AtWork(g)}}
  /\ AbortCalls(Calls)
  /\ UNCHANGED <<docs, received, expired, rail, pay, doc, hook, payouts, contended,
                 crossed>>

\* A rejection that nobody awaits ends the process.
UnawaitedFails ==
  /\ "unawaited" \in Failures
  /\ \E h \in Handlers : unawaited[h] = "sent"
  /\ ProcessEnds

Crash == "crash" \in Failures /\ ProcessEnds

LedgerRuns(c) == LedgerStep(c) /\ UNCHANGED merchantVars

MerchantNext ==
  \/ \E m \in Payments :
       \/ Initiation(m)
       \/ \E n \in Deposits : CustomerPays(m, n)
       \/ \E h \in Activities : ActivityRead(h, m)
  \/ \E h \in Activities :
       ActivityStep(h) \/ SettleWallet(h) \/ BackgroundStep(h) \/ Expire(h)
  \/ \E o \in Activities, e \in Events :
       ProviderEmits(o, e) \/ \E h \in Webhooks : HookRead(h, o, e)
  \/ \E h \in Webhooks : HookStep(h) \/ SaveTransaction(h)
  \/ \E h \in Handlers : RequestFails(h)
  \/ \E c \in Calls : LedgerRuns(c)
  \/ UnawaitedFails \/ Crash

MerchantSpec == MerchantInit /\ [][MerchantNext]_vars

\* A handler whose operation has answered is resumed, and what nobody awaits is
\* still carried out.  Nobody is obliged to pay, to report or to emit.
MerchantFairness ==
  /\ \A h \in Activities :
       /\ WF_vars(ActivityStep(h))
       /\ WF_vars(SettleWallet(h))
       /\ WF_vars(BackgroundStep(h))
  /\ \A h \in Webhooks : WF_vars(HookStep(h)) /\ WF_vars(SaveTransaction(h))
  /\ \A c \in Calls : WF_vars(LedgerRuns(c))

FairMerchantSpec == MerchantSpec /\ MerchantFairness

-----------------------------------------------------------------------------
(***************************************************************************)
(* Properties.                                                             *)
(***************************************************************************)

OfframpStatuses == {"none", "initiated", "authorized"} \cup Settled
MerchantStatuses == {"none", "initiated", "processing", "completed", "failed"}
ActivitySteps == {"balance", "transaction", "create", "link", "authorise", "offramp",
                  "process", "saveFunded", "record"}
HookSteps == {"transaction", "record", "close", "save"}

\* The documents and handlers have values of their types: a status is one the
\* handlers write, an offramp document is named by an activity.
MerchantTypeOK ==
  /\ LedgerTypeOK
  /\ stage \in [Payments -> {"new", "wallet", "ready", "rejected"}]
  /\ wallet \in [Payments -> WalletStatuses]
  /\ received \in [Payments -> Nat]
  /\ transaction \in [Payments -> MerchantStatuses]
  /\ offrampId \in [Payments -> Activities \cup {None}]
  /\ offramp \in [Activities -> OfframpStatuses]
  /\ expired \subseteq Activities
  /\ pc \in [Handlers -> ActivitySteps \cup HookSteps \cup Resting]
  /\ pay \in [Activities -> Payments \cup {None}]
  /\ doc \in [Handlers -> Activities \cup {None}]
  /\ statusTo \in [Webhooks -> OfframpStatuses]
  /\ docSeen \in [Webhooks -> OfframpStatuses]
  /\ merchantTo \in [Webhooks -> MerchantStatuses]
  /\ unawaited \in [Handlers -> {"none", "sent", "done"}]
  /\ background \in [Activities -> Working \cup {"none", "done", "failed"}]
  /\ rail \in [Activities -> SUBSET Events]
  /\ payouts \subseteq Activities
  /\ contended \subseteq Payments
  /\ crossed \subseteq Activities
  /\ faulted \subseteq Payments

\* A merchant is paid twice for one payment only if two activities of its address
\* were handled at once: the offramp document is checked for, then created, and
\* the provider's own check of the reference does not help, for there are two.
PaidOutOnce ==
  \A g, h \in payouts : g # h /\ pay[g] = pay[h] => pay[g] \in contended

\* What the three documents of a payment say has happened, whichever handlers
\* overwrite each other's statuses: a funded or settled one has been handed to
\* the background handler, a final status was reported by the provider.
StatusEvidence ==
  /\ \A o \in Activities :
       /\ offramp[o] \in Settled =>
            \E h \in Activities : doc[h] = o /\ background[h] # "none"
       /\ offramp[o] = "completed" => "complete" \in rail[o]
       /\ offramp[o] = "failed" => rail[o] \cap {"failed", "pendingApproval"} # {}
  /\ \A m \in Payments :
       LET events == UNION {rail[o] : o \in {a \in Activities : pay[a] = m}}
       IN /\ wallet[m] = "settled" =>
               \E o \in Activities : pay[o] = m /\ offramp[o] \in Settled
          /\ transaction[m] = "completed" => "complete" \in events
          /\ transaction[m] = "failed" => events \cap {"failed", "pendingApproval"} # {}

\* Once every handler is through, the merchant's document and the offramp document
\* tell the same end, unless handlers of it met or an operation failed: each webhook
\* saves the two from what it read at different times, one of them unawaited.
StatusesAgree ==
  \A o \in Activities :
    LET m == pay[o]
    IN (/\ o \notin crossed /\ HandlersOf(o) = {}
        /\ offramp[o] \in {"pending", "completed", "failed"}
        /\ m \notin contended \cup faulted /\ offrampId[m] = o)
       => transaction[m] = MerchantStatus(offramp[o], "none")

\* The ledger of a completed payment is posted and holds the receipt, the funding
\* and the settlement, unless handlers or ledger calls met, an operation failed, or
\* a failed approval has closed it before.
CompletedIsRecorded ==
  \A m \in Payments :
    LET o == offrampId[m]
    IN (/\ transaction[m] = "completed" /\ o \notin crossed \cup raced
        /\ m \notin contended \cup faulted /\ "pendingApproval" \notin rail[o])
       => \E d \in LedgersOf(o) \cap posted :
            /\ {ReceivedCall(o), FundedCall(o)} \subseteq recorded[d]
            /\ \E h \in Webhooks :
                 SettleCall(h) \in recorded[d] /\ statusTo[h] = "completed"

\* If no operation fails and no offramp document expires, an activity that found the
\* balance sufficient ends in a payout, though another one may have created or be
\* creating the offramp document.
SufficientIsPaidOut ==
  \A h \in Activities, m \in Payments :
    pc[h] = "transaction" /\ pay[h] = m ~>
      m \in faulted \/ \E r \in payouts \cup expired : pay[r] = m

\* "Crypto received from customer" (interface/monitor-addresses/index.ts:124): the
\* amount the ledger records as received was received.
RecordedWasReceived ==
  \A h \in Activities, d \in opened :
    ReceivedCall(h) \in recorded[d] => received[pay[h]] >= Price[pay[h]]
=============================================================================
