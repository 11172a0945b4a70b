-------------------------------- MODULE Send --------------------------------
(***************************************************************************)
(* Sending crypto from a user's wallet to a bank account: /send/initiate,  *)
(* /send/authorise/pin and /send/complete, the background handler of       *)
(* `offramp.funded` that asks the liquidity provider for the payout, and   *)
(* the provider's webhooks.                                                *)
(*                                                                         *)
(* A payment is two documents, an offramp transaction and the withdrawal   *)
(* of the coins that fund it.  Each handler is a sequence of awaited       *)
(* database or HTTP operations; every await is a point where any other     *)
(* handler runs, so each operation is a step and what a handler read       *)
(* earlier is kept in variables of its own.  The server keeps nothing in   *)
(* memory but the handlers in flight: a crash ends them and restarting is  *)
(* nothing more.                                                           *)
(*                                                                         *)
(* mongoose: save() writes the paths changed since the document was read,  *)
(* and a second save() of the same object while one is in flight throws.   *)
(***************************************************************************)
EXTENDS Integers, Functions, Ledger

CONSTANTS
  Payments,          \* the payments the user initiates
  ExternalPayments,  \* those initiated with walletUsed = "external"
  AuthRequests,      \* requests to /send/authorise/pin
  SendRequests,      \* requests to /send/complete
  Webhooks,          \* deliveries of a provider event
  Price,             \* the coin amount of each payment, without the fee
  Fee,               \* withdrawalGasFee, the same for every payment
  OpeningBalance,    \* the user's balance of the one asset all payments use
  Failures,          \* the faults a run allows
  MaxAge             \* bound: how many of a payment's deadlines pass

Requests == AuthRequests \cup SendRequests
Handlers == Requests \cup Webhooks

\* The calls of the ledger service that a send makes.
DebitCall(r) == <<r, "debit">>
CloseCall(r) == <<r, "close">>
FundedCall(r) == <<r, "funded">>

\* The ledgers of a payment: one about each of its two documents.
WithdrawalOf(p) == <<p, "withdrawal">>
OfframpOf(p) == <<p, "offramp">>

ASSUME SendAssumption ==
  /\ AuthRequests \cap SendRequests = {}
  /\ Requests \cap Webhooks = {}
  /\ ExternalPayments \subseteq Payments
  /\ None \notin Payments
  /\ Price \in [Payments -> Nat \ {0}]
  /\ Fee \in Nat
  /\ OpeningBalance \in Nat
  /\ Failures \subseteq {"database", "provider", "lostReply", "crash"}
  /\ MaxAge \in 0..3
  /\ RecordCalls = SendRequests \X {"debit", "funded"}
  /\ CloseCalls = SendRequests \X {"close"}
  /\ Transactions = Payments \X {"withdrawal", "offramp"}

VARIABLES
  stage,           \* how far the initiation of each payment has got
  offramp,         \* the status of each payment's offramp document
  withdrawal,      \* the status of each payment's withdrawal document
  age,             \* which deadlines have passed: see GrowOld
  balance,         \* the balance in the user's asset document
  pc,              \* the operation each handler does next
  pay,             \* the payment each handler is about
  withdrawalSeen,  \* the status in the withdrawal each send read
  walletSeen,      \* the balance in the asset document each send read
  statusTo,        \* the status each webhook is about to save
  background,      \* what the handler of `funded` does next, for each send
  rail,            \* the events the provider has emitted for each payment
  pinOk,           \* history: the authorisations whose pin was right
  debits,          \* history: the sends that took coins from the wallet
  payouts,         \* history: the sends whose payout the provider accepted
  contended,       \* history: payments with two requests in progress at once
  faulted,         \* history: payments with a request cut short
  overlapped       \* history: two sends held a balance to subtract from

docs == <<offramp, withdrawal, balance>>
request == <<pc, pay, withdrawalSeen, walletSeen, statusTo>>
outside == <<stage, age, rail>>
history == <<pinOk, debits, payouts, contended, faulted, overlapped>>
sendVars == <<docs, request, outside, background, history>>
vars == <<sendVars, ledgerVars>>

Settled == {"funded", "pending", "transit", "completed", "failed"}
Events == {"created", "pending", "complete", "failed", "pendingApproval"}
Resting == {"idle", "unsaved", "done"}

PaymentsOf(H) == {pay[h] : h \in H}
Goes(h, s) == pc' = [pc EXCEPT ![h] = s]
Active(p) == {h \in Requests : pay[h] = p /\ pc[h] \notin Resting}
Coins(p) == Price[p] + Fee

SendInit ==
  /\ LedgerInit
  /\ stage = [p \in Payments |-> "new"]
  /\ offramp = [p \in Payments |-> "none"]
  /\ withdrawal = [p \in Payments |-> "none"]
  /\ age = [p \in Payments |-> 0]
  /\ balance = OpeningBalance
  /\ pc = [h \in Handlers |-> "idle"]
  /\ pay = [h \in Handlers |-> None]
  /\ withdrawalSeen = [r \in SendRequests |-> "none"]
  /\ walletSeen = [r \in SendRequests |-> 0]
  /\ statusTo = [h \in Webhooks |-> "none"]
  /\ background = [r \in SendRequests |-> "none"]
  /\ rail = [p \in Payments |-> {}]
  /\ pinOk = {} /\ debits = {} /\ payouts = {}
  /\ contended = {} /\ faulted = {} /\ overlapped = FALSE

-----------------------------------------------------------------------------
(***************************************************************************)
(* /send/initiate: PaymentService.initiatePaymentRequest.  Validation and  *)
(* the conversion of the amount come before any write and are not modelled.*)
(***************************************************************************)

CreateOfframp(p) ==
  /\ stage[p] = "new"
  /\ stage' = [stage EXCEPT ![p] = "created"]
  /\ offramp' = [offramp EXCEPT ![p] = "initiated"]
  /\ UNCHANGED <<ledgerVars, withdrawal, balance, request, age, rail,
                 background, history>>

\* initiateAssetTransfer compares the balance with the amount without its fee.
\* A refusal leaves the offramp document behind.
CheckBalance(p) ==
  /\ stage[p] = "created" /\ p \notin ExternalPayments
  /\ stage' = [stage EXCEPT ![p] =
                 IF balance < Price[p] THEN "rejected" ELSE "checked"]
  /\ UNCHANGED <<ledgerVars, docs, request, age, rail, background, history>>

CreateWithdrawal(p) ==
  /\ stage[p] = "checked"
  /\ stage' = [stage EXCEPT ![p] = "withdrawal"]
  /\ withdrawal' = [withdrawal EXCEPT ![p] = "initiated"]
  /\ UNCHANGED <<ledgerVars, offramp, balance, request, age, rail,
                 background, history>>

\* Saves the total in the offramp document and returns the payment token.
IssueToken(p) ==
  /\ stage[p] = IF p \in ExternalPayments THEN "created" ELSE "withdrawal"
  /\ stage' = [stage EXCEPT ![p] = "ready"]
  /\ UNCHANGED <<ledgerVars, docs, request, age, rail, background, history>>

InitiationFails(p) ==
  /\ "database" \in Failures
  /\ stage[p] \in {"created", "checked", "withdrawal"}
  /\ stage' = [stage EXCEPT ![p] = "rejected"]
  /\ UNCHANGED <<ledgerVars, docs, request, age, rail, background, history>>

\* Age 1: the token has expired (10 minutes), 2: so has the offramp document
\* (15 minutes from its creation), 3: so has the withdrawal, created after it.
\* The order supposes that initiating takes less than 5 minutes.
GrowOld(p) ==
  /\ stage[p] = "ready" /\ age[p] < MaxAge
  /\ age' = [age EXCEPT ![p] = @ + 1]
  /\ UNCHANGED <<ledgerVars, docs, request, stage, rail, background, history>>

-----------------------------------------------------------------------------
(***************************************************************************)
(* Both other endpoints begin with verifyPaymentSession on the token.      *)
(***************************************************************************)

Arrive(h, p) ==
  /\ pc[h] = "idle"
  /\ stage[p] = "ready" /\ age[p] = 0
  /\ Goes(h, "read")
  /\ pay' = [pay EXCEPT ![h] = p]
  /\ contended' = contended \cup {q \in {p} : Active(q) # {}}
  /\ UNCHANGED <<ledgerVars, docs, outside, withdrawalSeen, walletSeen,
                 statusTo, background, pinOk, debits, payouts, faulted,
                 overlapped>>

\* /send/authorise/pin: SendService.authoriseSendSession.
\* A variant of AuthReadWithdrawal for the mutants: the check of
\* `!offrampWithdrawalTxn` left out.
AuthReadWithdrawalUnchecked(a) ==
  /\ pc[a] = "readWithdrawal"
  /\ Goes(a, "pin")
  /\ UNCHANGED <<ledgerVars, docs, outside, pay, withdrawalSeen, walletSeen,
                 statusTo, background, history>>

\* retrieveInitiatedOfframpTransaction: INITIATED and not expired.
AuthRead(a) ==
  /\ pc[a] = "read"
  /\ Goes(a, IF offramp[pay[a]] = "initiated" /\ age[pay[a]] < 2
             THEN "readWithdrawal" ELSE "done")
  /\ UNCHANGED <<ledgerVars, docs, outside, pay, withdrawalSeen, walletSeen,
                 statusTo, background, history>>

\* retrieveInitiatedOfframpCoinWithdrawalTransaction: no expiry is looked at.
AuthReadWithdrawal(a) ==
  /\ pc[a] = "readWithdrawal"
  /\ Goes(a, IF withdrawal[pay[a]] = "initiated" THEN "pin" ELSE "done")
  /\ UNCHANGED <<ledgerVars, docs, outside, pay, withdrawalSeen, walletSeen,
                 statusTo, background, history>>

\* A variant of ComparePin for the mutants: the invalid pin does not throw.
ComparePinWithoutThrow(a) ==
  /\ pc[a] = "pin"
  /\ Goes(a, "saveWithdrawal")
  /\ pinOk' \in {pinOk, pinOk \cup {a}}
  /\ UNCHANGED <<ledgerVars, docs, outside, pay, withdrawalSeen, walletSeen,
                 statusTo, background, debits, payouts, contended, faulted,
                 overlapped>>

\* The risk assessment always answers "allow": the pin alone authorises.
ComparePin(a) ==
  /\ pc[a] = "pin"
  /\ \/ Goes(a, "saveWithdrawal") /\ pinOk' = pinOk \cup {a}
     \/ Goes(a, "done") /\ UNCHANGED pinOk
  /\ UNCHANGED <<ledgerVars, docs, outside, pay, withdrawalSeen, walletSeen,
                 statusTo, background, debits, payouts, contended, faulted,
                 overlapped>>

AuthSaveWithdrawal(a) ==
  /\ pc[a] = "saveWithdrawal"
  /\ Goes(a, "saveOfframp")
  /\ withdrawal' = [withdrawal EXCEPT ![pay[a]] = "authorized"]
  /\ UNCHANGED <<ledgerVars, offramp, balance, outside, pay, withdrawalSeen,
                 walletSeen, statusTo, background, history>>

AuthSaveOfframp(a) ==
  /\ pc[a] = "saveOfframp"
  /\ Goes(a, "done")
  /\ offramp' = [offramp EXCEPT ![pay[a]] = "authorized"]
  /\ UNCHANGED <<ledgerVars, withdrawal, balance, outside, pay, withdrawalSeen,
                 walletSeen, statusTo, background, history>>

AuthStep(a) ==
  \/ AuthRead(a) \/ AuthReadWithdrawal(a) \/ ComparePin(a)
  \/ AuthSaveWithdrawal(a) \/ AuthSaveOfframp(a)

-----------------------------------------------------------------------------
(***************************************************************************)
(* /send/complete: PaymentRailService.processPayment, OfframpService       *)
(* .initiate and transferAssetToDestinstion to "platform".                 *)
(***************************************************************************)

\* retrieveAuthorizedOfframpTransaction: AUTHORIZED and not expired.
SendRead(r) ==
  /\ pc[r] = "read"
  /\ Goes(r, IF offramp[pay[r]] = "authorized" /\ age[pay[r]] < 2
             THEN "readWithdrawal" ELSE "done")
  /\ UNCHANGED <<ledgerVars, docs, outside, pay, withdrawalSeen, walletSeen,
                 statusTo, background, history>>

\* retrieveOfframpCoinWithdrawalTransaction: any status but INITIATED.
SendReadWithdrawal(r) ==
  /\ pc[r] = "readWithdrawal"
  /\ Goes(r, IF withdrawal[pay[r]] \notin {"none", "initiated"}
             THEN "readTransfer" ELSE "done")
  /\ UNCHANGED <<ledgerVars, docs, outside, pay, withdrawalSeen, walletSeen,
                 statusTo, background, history>>

\* retrieveAuthorizedTransaction, the read whose object is saved in the end:
\* any status but INITIATED, and not expired.
SendReadTransfer(r) ==
  /\ pc[r] = "readTransfer"
  /\ Goes(r, IF withdrawal[pay[r]] \notin {"none", "initiated"} /\ age[pay[r]] < 3
             THEN "readWallet" ELSE "done")
  /\ withdrawalSeen' = [withdrawalSeen EXCEPT ![r] = withdrawal[pay[r]]]
  /\ UNCHANGED <<ledgerVars, docs, outside, pay, walletSeen, statusTo,
                 background, history>>

SendReadWallet(r) ==
  /\ pc[r] = "readWallet"
  /\ Goes(r, "debit")
  /\ walletSeen' = [walletSeen EXCEPT ![r] = balance]
  /\ overlapped' = (overlapped \/ \E s \in SendRequests : pc[s] = "debit")
  /\ UNCHANGED <<ledgerVars, docs, outside, pay, withdrawalSeen, statusTo,
                 background, pinOk, debits, payouts, contended, faulted>>

\* A variant of Debit for the mutants: the fee is not subtracted.
DebitWithoutFee(r) ==
  /\ pc[r] = "debit"
  /\ Goes(r, "record")
  /\ balance' = walletSeen[r] - Price[pay[r]]
  /\ debits' = debits \cup {r}
  /\ Begin(DebitCall(r), WithdrawalOf(pay[r]))
  /\ UNCHANGED <<offramp, withdrawal, outside, pay, withdrawalSeen, walletSeen,
                 statusTo, background, pinOk, payouts, contended, faulted,
                 overlapped>>

\* calculateWalletBalance saves the balance it read minus the total, with no
\* check that it suffices; then recordBulkTransactionEntries is awaited.
Debit(r) ==
  /\ pc[r] = "debit"
  /\ Goes(r, "record")
  /\ balance' = walletSeen[r] - Coins(pay[r])
  /\ debits' = debits \cup {r}
  /\ Begin(DebitCall(r), WithdrawalOf(pay[r]))
  /\ UNCHANGED <<offramp, withdrawal, outside, pay, withdrawalSeen, walletSeen,
                 statusTo, background, pinOk, payouts, contended, faulted,
                 overlapped>>

\* Variants of CompleteWithdrawal for the mutants: the recording not awaited,
\* and the status of the other document's enumeration.
CompleteWithoutAwait(r) ==
  /\ pc[r] = "record"
  /\ Goes(r, "close")
  /\ withdrawal' = [withdrawal EXCEPT ![pay[r]] = "completed"]
  /\ Begin(CloseCall(r), WithdrawalOf(pay[r]))
  /\ UNCHANGED <<offramp, balance, outside, pay, withdrawalSeen, walletSeen,
                 statusTo, background, history>>

CompleteAsFunded(r) ==
  /\ pc[r] = "record" /\ step[DebitCall(r)] = "done"
  /\ Goes(r, "close")
  /\ withdrawal' = [withdrawal EXCEPT ![pay[r]] = "funded"]
  /\ Begin(CloseCall(r), WithdrawalOf(pay[r]))
  /\ UNCHANGED <<offramp, balance, outside, pay, withdrawalSeen, walletSeen,
                 statusTo, background, history>>

\* The save writes nothing when the withdrawal was read COMPLETED.
CompleteWithdrawal(r) ==
  /\ pc[r] = "record" /\ step[DebitCall(r)] = "done"
  /\ Goes(r, "close")
  /\ withdrawal' = IF withdrawalSeen[r] = "completed" THEN withdrawal
                   ELSE [withdrawal EXCEPT ![pay[r]] = "completed"]
  /\ Begin(CloseCall(r), WithdrawalOf(pay[r]))
  /\ UNCHANGED <<offramp, balance, outside, pay, withdrawalSeen, walletSeen,
                 statusTo, background, history>>

\* A variant of Fund for the mutants: the event is not emitted.
FundWithoutEvent(r) ==
  /\ pc[r] = "close" /\ step[CloseCall(r)] = "done"
  /\ Goes(r, "saveFunded")
  /\ UNCHANGED <<ledgerVars, docs, outside, pay, withdrawalSeen, walletSeen,
                 statusTo, background, history>>

\* `funded` is emitted before the save that makes it true: from here the
\* background handler runs beside the request, on the same document object.
Fund(r) ==
  /\ pc[r] = "close" /\ step[CloseCall(r)] = "done"
  /\ Goes(r, "saveFunded")
  /\ background' = [background EXCEPT ![r] = "quote"]
  /\ UNCHANGED <<ledgerVars, docs, outside, pay, withdrawalSeen, walletSeen,
                 statusTo, history>>

\* A variant of SaveFunded for the mutants: the document is not saved.
SaveFundedDropped(r) ==
  /\ pc[r] = "saveFunded"
  /\ Goes(r, "done")
  /\ UNCHANGED <<ledgerVars, docs, outside, pay, withdrawalSeen, walletSeen,
                 statusTo, background, history>>

SaveFunded(r) ==
  /\ pc[r] = "saveFunded"
  /\ Goes(r, "done")
  /\ offramp' = [offramp EXCEPT ![pay[r]] = "funded"]
  /\ UNCHANGED <<ledgerVars, withdrawal, balance, outside, pay, withdrawalSeen,
                 walletSeen, statusTo, background, history>>

SendStep(r) ==
  \/ SendRead(r) \/ SendReadWithdrawal(r) \/ SendReadTransfer(r)
  \/ SendReadWallet(r) \/ Debit(r) \/ CompleteWithdrawal(r)
  \/ Fund(r) \/ SaveFunded(r)

\* An awaited database operation of a request throws.  If it was the last save
\* its write may have been made all the same, and the document object keeps its
\* status marked as changed, for the background handler's save to write.
RequestFails(h) ==
  /\ "database" \in Failures
  /\ pc[h] \notin Resting
  /\ Goes(h, IF pc[h] = "saveFunded" THEN "unsaved" ELSE "done")
  /\ \/ UNCHANGED offramp
     \/ pc[h] = "saveFunded" /\ offramp' = [offramp EXCEPT ![pay[h]] = "funded"]
  /\ faulted' = faulted \cup {pay[h]}
  /\ AbortCalls({DebitCall(h), CloseCall(h)})
  /\ UNCHANGED <<withdrawal, balance, outside, pay, withdrawalSeen, walletSeen,
                 statusTo, background, pinOk, debits, payouts, contended,
                 overlapped>>

-----------------------------------------------------------------------------
(***************************************************************************)
(* handleOfframpFunded, the handler of `offramp.funded`.  Nobody awaits    *)
(* it: an error in it is only logged.                                      *)
(***************************************************************************)

Works(r, s) == background' = [background EXCEPT ![r] = s]

Quote(r) ==
  /\ background[r] = "quote"
  /\ Works(r, "payout")
  /\ UNCHANGED <<ledgerVars, docs, request, outside, history>>

\* The provider takes one payout per sequenceId, the payment's reference.
Payout(r) ==
  /\ background[r] = "payout"
  /\ pay[r] \notin PaymentsOf(payouts)
  /\ Works(r, "record")
  /\ payouts' = payouts \cup {r}
  /\ Begin(FundedCall(r), OfframpOf(pay[r]))
  /\ UNCHANGED <<docs, request, outside, pinOk, debits, contended, faulted,
                 overlapped>>

\* The payout was accepted but its answer never came: processPayout turns any
\* error of the HTTP call into success = false.
PayoutUnanswered(r) ==
  /\ "lostReply" \in Failures
  /\ background[r] = "payout"
  /\ pay[r] \notin PaymentsOf(payouts)
  /\ Works(r, "failed")
  /\ payouts' = payouts \cup {r}
  /\ UNCHANGED <<ledgerVars, docs, request, outside, pinOk, debits, contended,
                 faulted, overlapped>>

\* No quote (the destructured provider is undefined), a refused payout, a
\* reference the provider already knows, or a database error while recording.
BackgroundFails(r) ==
  /\ \/ background[r] \in {"quote", "payout"} /\ "provider" \in Failures
     \/ background[r] = "payout" /\ pay[r] \in PaymentsOf(payouts)
     \/ background[r] = "record" /\ "database" \in Failures
  /\ Works(r, "failed")
  /\ AbortCalls({FundedCall(r)})
  /\ UNCHANGED <<docs, request, outside, history>>

\* The last save, of the object the request shares: it throws while the
\* request's own save is in flight, and makes up for it if that one failed.
BackgroundSave(r) ==
  /\ background[r] = "record" /\ step[FundedCall(r)] = "done"
  /\ Works(r, IF pc[r] = "saveFunded" THEN "failed" ELSE "done")
  /\ offramp' = IF pc[r] = "unsaved" THEN [offramp EXCEPT ![pay[r]] = "funded"]
                ELSE offramp
  /\ UNCHANGED <<ledgerVars, withdrawal, balance, request, outside, history>>

BackgroundStep(r) ==
  \/ Quote(r) \/ Payout(r) \/ PayoutUnanswered(r) \/ BackgroundFails(r)
  \/ BackgroundSave(r)

-----------------------------------------------------------------------------
(***************************************************************************)
(* The liquidity provider and its webhooks.  The provider (external) emits *)
(* events about a payout it accepted, the last one complete or failed; the *)
(* events are delivered in any order and any number of times.              *)
(***************************************************************************)

ProviderEmits(p, e) ==
  /\ p \in PaymentsOf(payouts)
  /\ rail[p] \cap {e, "complete", "failed"} = {}
  /\ rail' = [rail EXCEPT ![p] = @ \cup {e}]
  /\ UNCHANGED <<ledgerVars, docs, request, stage, age, background, history>>

\* A variant of StatusesFor for the mutants: two cases swapped.
StatusesForSwapped(e) ==
  {s \in Settled \cup {"none"} :
     <<e, s>> \in {<<"created", "pending">>, <<"pending", "completed">>,
                  <<"complete", "transit">>, <<"failed", "failed">>,
                  <<"pendingApproval", "none">>, <<"pendingApproval", "failed">>}}

\* processPayoutWebhookEvent; "none" stands for updateStatus = false.  A payout
\* that awaits approval is approved there, and FAILED if that call fails.
StatusesFor(e) ==
  {s \in Settled \cup {"none"} :
     <<e, s>> \in {<<"created", "pending">>, <<"pending", "transit">>,
                  <<"complete", "completed">>, <<"failed", "failed">>,
                  <<"pendingApproval", "none">>, <<"pendingApproval", "failed">>}}

\* handlePayoutWebhookEvent reads the document, then saves the new status: a
\* save that writes nothing if the document read has that status already.
HookRead(h, p, e) ==
  /\ pc[h] = "idle"
  /\ e \in rail[p]
  /\ \E s \in StatusesFor(e) :
       /\ statusTo' = [statusTo EXCEPT ![h] = s]
       /\ Goes(h, IF offramp[p] \in {"none", "initiated"} \/ s \in {"none", offramp[p]}
                  THEN "done" ELSE "saveStatus")
  /\ pay' = [pay EXCEPT ![h] = p]
  /\ UNCHANGED <<ledgerVars, docs, outside, withdrawalSeen, walletSeen,
                 background, history>>

HookSave(h) ==
  /\ pc[h] = "saveStatus"
  /\ Goes(h, "done")
  /\ offramp' = [offramp EXCEPT ![pay[h]] = statusTo[h]]
  /\ UNCHANGED <<ledgerVars, withdrawal, balance, outside, pay, withdrawalSeen,
                 walletSeen, statusTo, background, history>>

-----------------------------------------------------------------------------
\* The process ends and starts again: nothing in flight is resumed.
Crash ==
  /\ "crash" \in Failures
  /\ pc' = [h \in Handlers |-> IF pc[h] = "idle" THEN "idle" ELSE "done"]
  /\ background' = [r \in SendRequests |->
       IF background[r] \in {"quote", "payout", "record"} THEN "failed"
       ELSE background[r]]
  /\ stage' = [p \in Payments |->
       IF stage[p] \in {"created", "checked", "withdrawal"} THEN "rejected"
       ELSE stage[p]]
  /\ faulted' = faulted \cup {p \in Payments : Active(p) # {}}
  /\ AbortCalls(Calls)
  /\ UNCHANGED <<docs, pay, withdrawalSeen, walletSeen, statusTo, age, rail,
                 pinOk, debits, payouts, contended, overlapped>>

LedgerRuns(c) == LedgerStep(c) /\ UNCHANGED sendVars

SendNext ==
  \/ \E p \in Payments :
       \/ CreateOfframp(p) \/ CheckBalance(p) \/ CreateWithdrawal(p)
       \/ IssueToken(p) \/ InitiationFails(p) \/ GrowOld(p)
       \/ \E e \in Events : ProviderEmits(p, e)
       \/ \E h \in Requests : Arrive(h, p)
       \/ \E h \in Webhooks, e \in Events : HookRead(h, p, e)
  \/ \E a \in AuthRequests : AuthStep(a)
  \/ \E r \in SendRequests : SendStep(r) \/ BackgroundStep(r)
  \/ \E h \in Requests : RequestFails(h)
  \/ \E h \in Webhooks : HookSave(h)
  \/ \E c \in Calls : LedgerRuns(c)
  \/ Crash

SendSpec == SendInit /\ [][SendNext]_vars

\* The event loop resumes every handler whose awaited operation has answered,
\* and every operation is answered: a handler that has begun makes its next
\* step.  Nothing obliges the user to send a request, time to pass within a
\* request, or the provider to emit or deliver an event.
SendFairness ==
  /\ \A a \in AuthRequests : WF_vars(AuthStep(a))
  /\ \A r \in SendRequests : WF_vars(SendStep(r)) /\ WF_vars(BackgroundStep(r))
  /\ \A h \in Webhooks : WF_vars(HookSave(h))
  /\ \A c \in Calls : WF_vars(LedgerRuns(c))

FairSendSpec == SendSpec /\ SendFairness

-----------------------------------------------------------------------------
(***************************************************************************)
(* Properties.                                                             *)
(***************************************************************************)

OfframpStatuses == {"none", "initiated", "authorized"} \cup Settled
WithdrawalStatuses == {"none", "initiated", "authorized", "completed"}
AuthSteps == {"read", "readWithdrawal", "pin", "saveWithdrawal", "saveOfframp"}
SendSteps == {"read", "readWithdrawal", "readTransfer", "readWallet", "debit",
              "record", "close", "saveFunded", "unsaved"}

\* The documents, handlers and history have values of their types: a document's
\* status is one the handlers write, a handler's next operation is one it has.
SendTypeOK ==
  /\ LedgerTypeOK
  /\ stage \in [Payments -> {"new", "created", "checked", "withdrawal", "ready",
                            "rejected"}]
  /\ offramp \in [Payments -> OfframpStatuses]
  /\ withdrawal \in [Payments -> WithdrawalStatuses]
  /\ age \in [Payments -> 0..3]
  /\ balance \in Int
  /\ pc \in [Handlers -> AuthSteps \cup SendSteps \cup {"idle", "done", "saveStatus"}]
  /\ pay \in [Handlers -> Payments \cup {None}]
  /\ withdrawalSeen \in [SendRequests -> WithdrawalStatuses]
  /\ walletSeen \in [SendRequests -> Int]
  /\ statusTo \in [Webhooks -> OfframpStatuses]
  /\ background \in [SendRequests -> {"none", "quote", "payout", "record", "done",
                                     "failed"}]
  /\ rail \in [Payments -> SUBSET Events]
  /\ pinOk \subseteq AuthRequests
  /\ debits \subseteq SendRequests
  /\ payouts \subseteq SendRequests
  /\ contended \subseteq Payments
  /\ faulted \subseteq Payments \cup {None}
  /\ overlapped \in BOOLEAN

\* The provider pays only for a send that took the user's coins, for a payment
\* the user's pin authorised, whatever interleaves, fails or restarts.
PayoutBacked ==
  \A r \in payouts : r \in debits /\ pay[r] \in PaymentsOf(pinOk)

\* What the offramp document says has happened: no status from FUNDED on
\* without a debit, COMPLETED and FAILED only after the provider's own event
\* (or a payout awaiting approval, for FAILED), however the webhooks, the
\* request and the background handler overwrite one another.
StatusEvidence ==
  \A p \in Payments :
    /\ offramp[p] \in Settled => p \in PaymentsOf(debits)
    /\ offramp[p] = "completed" => "complete" \in rail[p]
    /\ offramp[p] = "failed" => rail[p] \cap {"failed", "pendingApproval"} # {}

\* A payment is debited twice only if two of its requests were in progress at
\* once (two sends, or a late authorisation that re-arms it) or a request of
\* its was cut short between the debit and the FUNDED save.
AtMostOneDebit ==
  \A r, s \in debits :
    r # s /\ pay[r] = pay[s] => pay[r] \in contended \cup faulted

\* A payment initiated with walletUsed = "external" never gets past INITIATED:
\* authorising it needs the withdrawal document that only an internal wallet has.
ExternalStaysInitiated ==
  \A p \in ExternalPayments :
    offramp[p] \in {"none", "initiated"} /\ p \notin PaymentsOf(debits)

\* Coins taken by a send that ran alone and to its end are in a posted ledger of
\* the withdrawal: the recording is complete before the closing.
FundedIsRecorded ==
  \A r \in debits :
    pc[r] = "done" /\ pay[r] \notin contended \cup faulted =>
      \E d \in LedgersOf(WithdrawalOf(pay[r])) \cap posted :
        DebitCall(r) \in recorded[d]

\* What each send took.
CoinsTaken == [r \in debits |-> Coins(pay[r])]

\* The wallet holds exactly what the sends left in it, unless two sends (of any
\* payments) held the same balance to subtract from: the asset document is read
\* by getChainWalletAndAsset and written, from that read, at a later await.
BalanceExact ==
  ~ overlapped =>
    balance = OpeningBalance - SumFunction(CoinsTaken)

\* If nothing fails, coins taken for a payment bring its payout to the provider.
DebitedIsPaidOut ==
  \A p \in Payments : p \in PaymentsOf(debits) ~> p \in PaymentsOf(payouts)

\* The abstract specification, seen through the history and the documents.
TakenBy(R) == {<<r, pay[r]>> : r \in R}
Promise == INSTANCE PayoutPromise WITH
  Takers <- SendRequests, Orders <- Payments,
  authorised <- PaymentsOf(pinOk), debited <- TakenBy(debits),
  paid <- TakenBy(payouts), shown <- {p \in Payments : offramp[p] = "completed"}

\* The handlers together keep what a send promises: every step of theirs is a
\* step of PayoutPromise or none.
KeepsPromise == Promise!PromiseSpec
=============================================================================
