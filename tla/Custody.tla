------------------------------ MODULE Custody ------------------------------
(***************************************************************************)
(* Moving coins out of a user's wallet: the transfer endpoints of          *)
(* wallet/wallet.controller.ts, transferAssetToDestinstion of              *)
(* interface/wallet-custody/abstract-custody.ts for every destination but  *)
(* "platform" (which is part of Send), and the custodian's webhooks.       *)
(*                                                                         *)
(* A transfer to a wallet of the platform is a swap of two balances; any   *)
(* other is a withdrawal the custodian makes on the chain.  A balance is   *)
(* written from a document read at an earlier await, so each write is      *)
(* followed from its read to its save; a withdrawal's debit and the refund *)
(* of a failed one are awaited by nobody and run beside their handlers.    *)
(*                                                                         *)
(* Requests come from the user who initiated the transfer, and all coins   *)
(* are of one chain and asset.                                             *)
(***************************************************************************)
EXTENDS Integers, Functions, Ledger

CONSTANTS
  Transfers,          \* the transfers the users initiate
  InternalTransfers,  \* those to a wallet of the platform
  Accounts,           \* the asset documents, one for each user
  Sender,             \* the account of each transfer's sender
  Recipient,          \* the account of each internal transfer's recipient
  Amount,             \* the coins the recipient of each transfer gets
  Fee,                \* withdrawalGasFee, the same for every transfer
  OpeningBalance,     \* the balance of each account at the start
  AuthRequests,       \* requests to transaction/:reference/authorise/pin
  TransferRequests,   \* requests to chain/user/:reference/transfer
  Webhooks,           \* deliveries of a withdrawal event
  Deposits,           \* deliveries of a deposit event
  Failures,           \* the faults a run allows
  Expiring            \* bound: the transfers whose deadline may pass

Writers == TransferRequests \cup Webhooks
Handlers == AuthRequests \cup Writers

\* A handler writes at most two balances.
Writes == Writers \X {"debit", "credit"}

\* The calls of the ledger service that a handler makes.
RecordCall(h) == <<h, "record">>
CloseCall(h) == <<h, "close">>

ASSUME CustodyAssumption ==
  /\ AuthRequests \cap Writers = {}
  /\ TransferRequests \cap Webhooks = {}
  /\ InternalTransfers \subseteq Transfers
  /\ Sender \in [Transfers -> Accounts]
  /\ Recipient \in [InternalTransfers -> Accounts]
  /\ \A t \in InternalTransfers : Sender[t] # Recipient[t]
  /\ Amount \in [Transfers -> Nat \ {0}]
  /\ Fee \in Nat
  /\ OpeningBalance \in [Accounts -> Nat]
  /\ Failures \subseteq {"database", "custodian", "lostReply", "crash"}
  /\ RecordCalls = Writers \X {"record"}
  /\ CloseCalls = Writers \X {"close"}
  /\ Transactions = Transfers
  /\ Expiring \subseteq Transfers

VARIABLES
  transfer,     \* the status of each transfer's document
  expired,      \* the transfers whose 15 minutes have passed
  balance,      \* the balance in each account
  pc,           \* the operation each handler does next
  on,           \* the transfer each handler is about
  docSeen,      \* the status in the document each handler read
  outcome,      \* the status each webhook is to save
  write,        \* how far each write of a balance has got
  seen,         \* the balance each write is computed from
  reported,     \* the events the custodian has emitted, each of one request
  deposit,      \* whether each deposit has got its transaction document
  pinOk,        \* history: the authorisations whose pin was right
  withdrawals,  \* history: the requests whose withdrawal was accepted
  overlapped,   \* history: accounts that two writes read before one saved
  crossed,      \* history: transfers a handler began on while one was at work
  faulted       \* history: transfers with an operation that failed

balances == <<balance, write, seen, overlapped>>
request == <<pc, on, docSeen, outcome>>
outside == <<expired, reported, deposit, withdrawals>>
history == <<pinOk, crossed, faulted>>
custodyVars == <<transfer, balances, request, outside, history>>
vars == <<custodyVars, ledgerVars>>

Statuses == {"initiated", "authorized", "pending", "completed", "failed", "cancelled"}
Resting == {"idle", "done"}

TransfersOf(H) == {on[h] : h \in H}
Goes(h, s) == pc' = [pc EXCEPT ![h] = s]
Internal(r) == on[r] \in InternalTransfers
Total(t) == Amount[t] + Fee
DebitOf(h) == <<h, "debit">>
CreditOf(h) == <<h, "credit">>

\* A webhook's credit is a refund.
AccountOf(w) ==
  IF w \in TransferRequests \X {"credit"} THEN Recipient[on[w[1]]]
  ELSE Sender[on[w[1]]]

CustodyInit ==
  /\ LedgerInit
  /\ transfer = [t \in Transfers |-> "none"]
  /\ expired = {}
  /\ balance = OpeningBalance
  /\ pc = [h \in Handlers |-> "idle"]
  /\ on = [h \in Handlers |-> None]
  /\ docSeen = [h \in Handlers |-> "none"]
  /\ outcome = [h \in Webhooks |-> "none"]
  /\ write = [w \in Writes |-> "none"]
  /\ seen = [w \in Writes |-> 0]
  /\ reported = {} /\ withdrawals = {}
  /\ deposit = [d \in Deposits |-> "none"]
  /\ pinOk = {} /\ overlapped = {} /\ crossed = {} /\ faulted = {}

\* save() writes a status only if the document that was read has another.
SavesStatus(h, s) ==
  transfer' = IF docSeen[h] = s THEN transfer ELSE [transfer EXCEPT ![on[h]] = s]

-----------------------------------------------------------------------------
(***************************************************************************)
(* Writing a balance: getChainWalletAndAsset, then calculateWalletBalance. *)
(***************************************************************************)

\* W names the writes that this read lets begin.
Reads(w, a, W, s) ==
  /\ write' = [v \in Writes |-> IF v \in W THEN s ELSE write[v]]
  /\ seen' = [seen EXCEPT ![w] = balance[a]]
  /\ overlapped' = overlapped \cup
       {b \in {a} : \E v \in Writes : write[v] \in {"held", "saving"} /\ AccountOf(v) = a}

\* The reads of a handler that has thrown are never saved.
Drop(h) ==
  write' = [w \in Writes |-> IF w[1] = h /\ write[w] = "held" THEN "none" ELSE write[w]]

\* A variant of Moved for the mutants: the fee is not subtracted.
MovedWithoutFee(w) ==
  IF w[2] = "debit" THEN -Amount[on[w[1]]]
  ELSE IF w \in Webhooks \X {"credit"} THEN Total(on[w[1]])
  ELSE Amount[on[w[1]]]

Moved(w) ==
  CASE w[2] = "debit"             -> -Total(on[w[1]])
    [] w \in Webhooks \X {"credit"} -> Total(on[w[1]])
    [] OTHER                        -> Amount[on[w[1]]]

SaveBalance(w) ==
  /\ write[w] = "saving"
  /\ write' = [write EXCEPT ![w] = "saved"]
  /\ balance' = [balance EXCEPT ![AccountOf(w)] = seen[w] + Moved(w)]
  /\ UNCHANGED <<ledgerVars, transfer, seen, overlapped, request, outside, history>>

Unawaited(w) == w \in Webhooks \X {"credit"} \/ (w[2] = "debit" /\ ~ Internal(w[1]))

\* A save of a swap fails: its handler will see the rejection.
SwapFails(w) ==
  /\ "database" \in Failures
  /\ write[w] = "saving" /\ ~ Unawaited(w)
  /\ write' = [write EXCEPT ![w] = "failed"]
  /\ faulted' = faulted \cup {on[w[1]]}
  /\ UNCHANGED <<ledgerVars, transfer, balance, seen, overlapped, request, outside,
                 pinOk, crossed>>

-----------------------------------------------------------------------------
(***************************************************************************)
(* initiateAssetTransfer and authoriseP2PTransaction.                      *)
(***************************************************************************)

\* The balance is compared with the amount without its fee; nothing is kept for
\* the transfer, so the reads before the creation matter only in this guard.
Initiate(t) ==
  /\ transfer[t] = "none"
  /\ balance[Sender[t]] >= Amount[t]
  /\ transfer' = [transfer EXCEPT ![t] = "initiated"]
  /\ UNCHANGED <<ledgerVars, balances, request, outside, history>>

Expire(t) ==
  /\ transfer[t] # "none" /\ t \in Expiring \ expired
  /\ expired' = expired \cup {t}
  /\ UNCHANGED <<ledgerVars, transfer, balances, request, reported, deposit,
                 withdrawals, history>>

\* retrieveInitiatedTransaction: INITIATED and not expired.
AuthRead(a, t) ==
  /\ pc[a] = "idle"
  /\ transfer[t] = "initiated" /\ t \notin expired
  /\ Goes(a, "pin")
  /\ on' = [on EXCEPT ![a] = t]
  /\ docSeen' = [docSeen EXCEPT ![a] = transfer[t]]
  /\ UNCHANGED <<ledgerVars, transfer, balances, outcome, outside, history>>

\* A variant of ComparePin for the mutants: the invalid pin does not throw.
ComparePinWithoutThrow(a) ==
  /\ pc[a] = "pin"
  /\ Goes(a, "save")
  /\ pinOk' \in {pinOk, pinOk \cup {a}}
  /\ UNCHANGED <<ledgerVars, transfer, balances, on, docSeen, outcome, outside,
                 crossed, faulted>>

\* A transfer's securityChecks never hold an mfaVerified: the pin suffices.
ComparePin(a) ==
  /\ pc[a] = "pin"
  /\ \/ Goes(a, "save") /\ pinOk' = pinOk \cup {a}
     \/ Goes(a, "done") /\ UNCHANGED pinOk
  /\ UNCHANGED <<ledgerVars, transfer, balances, on, docSeen, outcome, outside,
                 crossed, faulted>>

AuthSave(a) ==
  /\ pc[a] = "save"
  /\ Goes(a, "done")
  /\ SavesStatus(a, "authorized")
  /\ UNCHANGED <<ledgerVars, balances, on, docSeen, outcome, outside, history>>

AuthStep(a) == ComparePin(a) \/ AuthSave(a)

-----------------------------------------------------------------------------
(***************************************************************************)
(* transferChainAsset and transferAssetToDestinstion.                      *)
(***************************************************************************)

AtWork(t) == {r \in TransferRequests : on[r] = t /\ pc[r] \notin Resting}

\* retrieveAuthorizedTransaction: any status but INITIATED, and not expired.
TransferRead(r, t) ==
  /\ pc[r] = "idle"
  /\ transfer[t] \notin {"none", "initiated"} /\ t \notin expired
  /\ Goes(r, "sender")
  /\ on' = [on EXCEPT ![r] = t]
  /\ docSeen' = [docSeen EXCEPT ![r] = transfer[t]]
  /\ crossed' = crossed \cup {u \in {t} : t \in TransfersOf(TransferRequests)}
  /\ UNCHANGED <<ledgerVars, transfer, balances, outcome, outside, pinOk, faulted>>

ReadSender(r) ==
  /\ pc[r] = "sender"
  /\ Goes(r, IF Internal(r) THEN "recipient" ELSE "withdraw")
  /\ Reads(DebitOf(r), Sender[on[r]], {DebitOf(r)}, "held")
  /\ UNCHANGED <<ledgerVars, transfer, balance, on, docSeen, outcome, outside, history>>

\* userTopsAnotherUserAssetBalance starts both saves.
ReadRecipient(r) ==
  /\ pc[r] = "recipient"
  /\ Goes(r, "swap")
  /\ Reads(CreditOf(r), Recipient[on[r]], {DebitOf(r), CreditOf(r)}, "saving")
  /\ UNCHANGED <<ledgerVars, transfer, balance, on, docSeen, outcome, outside, history>>

\* A variant of Swapped for the mutants: Promise.race in place of Promise.all.
SwappedByOne(r) ==
  /\ pc[r] = "swap"
  /\ "saved" \in {write[DebitOf(r)], write[CreditOf(r)]}
  /\ Goes(r, "record")
  /\ Begin(RecordCall(r), on[r])
  /\ UNCHANGED <<transfer, balances, on, docSeen, outcome, outside, history>>

\* Promise.all: both saves are done.
Swapped(r) ==
  /\ pc[r] = "swap"
  /\ {write[DebitOf(r)], write[CreditOf(r)]} = {"saved"}
  /\ Goes(r, "record")
  /\ Begin(RecordCall(r), on[r])
  /\ UNCHANGED <<transfer, balances, on, docSeen, outcome, outside, history>>

\* One of them failed: the handler throws, and the other one is not undone.
SwapRejected(r) ==
  /\ pc[r] = "swap"
  /\ "failed" \in {write[DebitOf(r)], write[CreditOf(r)]}
  /\ Goes(r, "done")
  /\ UNCHANGED <<ledgerVars, transfer, balances, on, docSeen, outcome, outside, history>>

\* A variant of Complete for the mutants: the ledger is not awaited.
CompleteWithoutAwait(r) ==
  /\ pc[r] = "record" /\ Internal(r)
  /\ Goes(r, "close")
  /\ SavesStatus(r, "completed")
  /\ Begin(CloseCall(r), on[r])
  /\ UNCHANGED <<balances, on, docSeen, outcome, outside, history>>

Complete(r) ==
  /\ pc[r] = "record" /\ Internal(r) /\ step[RecordCall(r)] = "done"
  /\ Goes(r, "close")
  /\ SavesStatus(r, "completed")
  /\ Begin(CloseCall(r), on[r])
  /\ UNCHANGED <<balances, on, docSeen, outcome, outside, history>>

Closed(r) ==
  /\ pc[r] = "close" /\ step[CloseCall(r)] = "done"
  /\ Goes(r, "done")
  /\ UNCHANGED <<ledgerVars, transfer, balances, on, docSeen, outcome, outside, history>>

\* processAssetWithdrawal.  Nothing in the code relies on the custodian's refusing
\* a reference it has seen, so it may accept the same transfer again.
Withdraw(r) ==
  /\ pc[r] = "withdraw"
  /\ Goes(r, "record")
  /\ withdrawals' = withdrawals \cup {r}
  /\ Begin(RecordCall(r), on[r])
  /\ UNCHANGED <<transfer, balances, on, docSeen, outcome, expired, reported, deposit,
                 history>>

\* Any error of the call, a lost answer included, makes the handler throw.
WithdrawFails(r) ==
  /\ pc[r] = "withdraw"
  /\ \/ "custodian" \in Failures /\ UNCHANGED withdrawals
     \/ "lostReply" \in Failures /\ withdrawals' = withdrawals \cup {r}
  /\ Goes(r, "done")
  /\ Drop(r)
  /\ faulted' = faulted \cup {on[r]}
  /\ UNCHANGED <<ledgerVars, transfer, balance, seen, overlapped, on, docSeen, outcome,
                 expired, reported, deposit, pinOk, crossed>>

\* A variant of StartDebit for the mutants: the ledger is not awaited.
StartDebitWithoutAwait(r) ==
  /\ pc[r] = "record" /\ ~ Internal(r)
  /\ Goes(r, "savePending")
  /\ write' = [write EXCEPT ![DebitOf(r)] = "saving"]
  /\ UNCHANGED <<ledgerVars, transfer, balance, seen, overlapped, on, docSeen, outcome,
                 outside, history>>

\* syncBalanceToUserWallet is not awaited: its save runs beside the next one.
StartDebit(r) ==
  /\ pc[r] = "record" /\ ~ Internal(r) /\ step[RecordCall(r)] = "done"
  /\ Goes(r, "savePending")
  /\ write' = [write EXCEPT ![DebitOf(r)] = "saving"]
  /\ UNCHANGED <<ledgerVars, transfer, balance, seen, overlapped, on, docSeen, outcome,
                 outside, history>>

\* A variant of SavePending for the mutants: the custodian's status, unconverted.
SavePendingUnconverted(r) ==
  /\ pc[r] = "savePending"
  /\ Goes(r, "done")
  /\ \E s \in {"pending", "confirmed"} : SavesStatus(r, s)
  /\ UNCHANGED <<ledgerVars, balances, on, docSeen, outcome, outside, history>>

\* convertCustodialStatusToApplicationStatus assigns in its conditions: whatever
\* the custodian answers, other than PENDING, is CANCELLED.
SavePending(r) ==
  /\ pc[r] = "savePending"
  /\ Goes(r, "done")
  /\ \E s \in {"pending", "cancelled"} : SavesStatus(r, s)
  /\ UNCHANGED <<ledgerVars, balances, on, docSeen, outcome, outside, history>>

TransferStep(r) ==
  \/ ReadSender(r) \/ ReadRecipient(r) \/ Swapped(r) \/ SwapRejected(r)
  \/ Complete(r) \/ Closed(r)
  \/ Withdraw(r) \/ StartDebit(r) \/ SavePending(r)

-----------------------------------------------------------------------------
(***************************************************************************)
(* The custodian's events, each delivered any number of times.             *)
(***************************************************************************)

\* The custodian (external) reports the end of a withdrawal it accepted.
CustodianReports(r, e) ==
  /\ r \in withdrawals
  /\ {<<r, "success">>, <<r, "failed">>} \cap reported = {}
  /\ reported' = reported \cup {<<r, e>>}
  /\ UNCHANGED <<ledgerVars, transfer, balances, request, expired, deposit, withdrawals,
                 history>>

\* A variant of OutcomeOf for the mutants: the events swapped.
OutcomeOfSwapped(e) == IF e = "success" THEN "failed" ELSE "completed"

\* processWithdrawalWebhookEvent.
OutcomeOf(e) == IF e = "success" THEN "completed" ELSE "failed"

\* handleWithdrawalWebhookEvent.
HookRead(h, r, e) ==
  /\ pc[h] = "idle"
  /\ <<r, e>> \in reported
  /\ transfer[on[r]] \notin {"none", "initiated"}
  /\ Goes(h, "record")
  /\ on' = [on EXCEPT ![h] = on[r]]
  /\ docSeen' = [docSeen EXCEPT ![h] = transfer[on[r]]]
  /\ outcome' = [outcome EXCEPT ![h] = OutcomeOf(e)]
  /\ crossed' = crossed \cup {t \in {on[r]} : AtWork(t) # {}}
  /\ Begin(RecordCall(h), on[r])
  /\ UNCHANGED <<transfer, balances, outside, pinOk, faulted>>

HookClose(h) ==
  /\ pc[h] = "record" /\ step[RecordCall(h)] = "done"
  /\ Goes(h, "close")
  /\ Begin(CloseCall(h), on[h])
  /\ UNCHANGED <<transfer, balances, on, docSeen, outcome, outside, history>>

\* The refund starts beside the handler: nothing asks whether the transfer was
\* refunded before, or debited at all.  The withdrawal of an offramp goes to the
\* platform and has no event, so the branch of offrampTxnId is never taken.
HookEnd(h) ==
  /\ pc[h] = "close" /\ step[CloseCall(h)] = "done"
  /\ Goes(h, "save")
  /\ write' = IF outcome[h] = "failed" THEN [write EXCEPT ![CreditOf(h)] = "wanted"]
              ELSE write
  /\ UNCHANGED <<ledgerVars, transfer, balance, seen, overlapped, on, docSeen, outcome,
                 outside, history>>

HookSave(h) ==
  /\ pc[h] = "save"
  /\ Goes(h, "done")
  /\ SavesStatus(h, outcome[h])
  /\ UNCHANGED <<ledgerVars, balances, on, docSeen, outcome, outside, history>>

ReadRefund(h) ==
  /\ write[CreditOf(h)] = "wanted"
  /\ Reads(CreditOf(h), Sender[on[h]], {CreditOf(h)}, "saving")
  /\ UNCHANGED <<ledgerVars, transfer, balance, request, outside, history>>

HookStep(h) == HookClose(h) \/ HookEnd(h) \/ HookSave(h)

-----------------------------------------------------------------------------
(***************************************************************************)
(* Deposits.  mongoose ignores `canHandleInternally: false`, because the   *)
(* path is a nested one, and then misses the path it requires below it.    *)
(***************************************************************************)

\* What the constructor call of recordDepositTransaction sets, and what the
\* schema requires and has no default for.
DepositPaths == {"fromAddr", "toAddr", "txnHash", "userId", "amount", "chain",
                 "asset", "transactionReference", "processedBy", "type", "status"}
RequiredPaths == {"fromAddr", "toAddr", "txnHash", "userId", "amount", "chain",
                  "asset", "transactionReference", "processedBy", "type",
                  "canHandleInternally.status"}

\* handleDepositWebhookEvent, up to the save of the deposit's transaction: it
\* writes nothing before, and what follows is not reached if the save throws.
Deposit(d) ==
  /\ deposit[d] = "none"
  /\ deposit' = [deposit EXCEPT ![d] =
                   IF RequiredPaths \subseteq DepositPaths THEN "stored" ELSE "refused"]
  /\ UNCHANGED <<ledgerVars, transfer, balances, request, expired, reported,
                 withdrawals, history>>

-----------------------------------------------------------------------------
\* An awaited database operation of a handler throws, or its answer is lost: the
\* saves that were started go on.
RequestFails(h) ==
  /\ "database" \in Failures
  /\ pc[h] \notin Resting
  /\ Goes(h, "done")
  /\ Drop(h)
  /\ faulted' = faulted \cup {on[h]}
  /\ AbortCalls({RecordCall(h), CloseCall(h)})
  /\ UNCHANGED <<transfer, balance, seen, overlapped, on, docSeen, outcome, outside,
                 pinOk, crossed>>

\* The process ends and starts again: nothing in flight is resumed.
ProcessEnds ==
  /\ pc' = [h \in Handlers |-> IF pc[h] = "idle" THEN "idle" ELSE "done"]
  /\ write' = [w \in Writes |-> IF write[w] \in {"wanted", "held", "saving"} THEN "failed"
                                ELSE write[w]]
  /\ faulted' = faulted \cup {on[h] : h \in {k \in Handlers : pc[k] \notin Resting}}
                        \cup {on[w[1]] : w \in {v \in Writes : write[v] \in {"wanted", "saving"}}}
  /\ AbortCalls(Calls)
  /\ UNCHANGED <<transfer, balance, seen, overlapped, on, docSeen, outcome, outside,
                 pinOk, crossed>>

Crash == "crash" \in Failures /\ ProcessEnds

\* A rejection that nobody awaits ends the process: main.ts installs no handler.
UnawaitedFails(w) ==
  /\ "database" \in Failures
  /\ write[w] \in {"wanted", "saving"} /\ Unawaited(w)
  /\ ProcessEnds

LedgerRuns(c) == LedgerStep(c) /\ UNCHANGED custodyVars

CustodyNext ==
  \/ \E t \in Transfers :
       \/ Initiate(t) \/ Expire(t)
       \/ \E a \in AuthRequests : AuthRead(a, t)
       \/ \E r \in TransferRequests : TransferRead(r, t)
  \/ \E a \in AuthRequests : AuthStep(a)
  \/ \E r \in TransferRequests :
       \/ TransferStep(r) \/ WithdrawFails(r)
       \/ \E e \in {"success", "failed"} :
            \/ CustodianReports(r, e)
            \/ \E h \in Webhooks : HookRead(h, r, e)
  \/ \E h \in Webhooks : HookStep(h) \/ ReadRefund(h)
  \/ \E w \in Writes : SaveBalance(w) \/ SwapFails(w) \/ UnawaitedFails(w)
  \/ \E d \in Deposits : Deposit(d)
  \/ \E h \in Handlers : RequestFails(h)
  \/ \E c \in Calls : LedgerRuns(c)
  \/ Crash

CustodySpec == CustodyInit /\ [][CustodyNext]_vars

-----------------------------------------------------------------------------
(***************************************************************************)
(* Properties.                                                             *)
(***************************************************************************)

\* The documents, handlers and writes have values of their types: a status is one
\* of TransactionStatus that the handlers set, a balance is an integer.
CustodyTypeOK ==
  /\ LedgerTypeOK
  /\ transfer \in [Transfers -> Statuses \cup {"none"}]
  /\ expired \subseteq Transfers
  /\ balance \in [Accounts -> Int]
  /\ pc \in [Handlers -> {"idle", "pin", "save", "sender", "recipient", "swap", "record",
                          "close", "withdraw", "savePending", "done"}]
  /\ on \in [Handlers -> Transfers \cup {None}]
  /\ docSeen \in [Handlers -> Statuses \cup {"none"}]
  /\ outcome \in [Webhooks -> {"none", "completed", "failed"}]
  /\ write \in [Writes -> {"none", "wanted", "held", "saving", "saved", "failed"}]
  /\ seen \in [Writes -> Int]
  /\ reported \subseteq TransferRequests \X {"success", "failed"}
  /\ deposit \in [Deposits -> {"none", "refused", "stored"}]
  /\ pinOk \subseteq AuthRequests
  /\ withdrawals \subseteq TransferRequests
  /\ overlapped \subseteq Accounts
  /\ crossed \subseteq Transfers
  /\ faulted \subseteq Transfers

\* No coins leave an account, and no withdrawal is asked of the custodian, for a
\* transfer that no right pin authorised, whatever interleaves, fails or restarts.
PinBeforeCoins ==
  \A r \in TransferRequests :
    r \in withdrawals \/ write[DebitOf(r)] # "none" => on[r] \in TransfersOf(pinOk)

\* What a transfer's document says has happened: COMPLETED only after both sides of
\* the swap were saved (the custodian's event, for a withdrawal), FAILED only after
\* the event, PENDING and CANCELLED only for a withdrawal that was accepted and is
\* debited, however the request and the webhooks overwrite one another.
StatusEvidence ==
  \A t \in Transfers :
    LET requests == {r \in TransferRequests : on[r] = t}
        events == {m[2] : m \in {n \in reported : on[n[1]] = t}}
    IN /\ transfer[t] = "completed" =>
            IF t \in InternalTransfers
            THEN \E r \in requests : {write[DebitOf(r)], write[CreditOf(r)]} = {"saved"}
            ELSE "success" \in events
       /\ transfer[t] = "failed" => "failed" \in events
       /\ transfer[t] \in {"pending", "cancelled"} =>
            \E r \in requests \cap withdrawals :
              write[DebitOf(r)] \in {"saving", "saved", "failed"}

\* A refund is begun only for a withdrawal that the custodian reported failed and,
\* unless an operation of the transfer failed, that is debited or still at work.
RefundsBacked ==
  \A h \in Webhooks :
    write[CreditOf(h)] # "none" =>
      \E r \in withdrawals :
        /\ on[r] = on[h] /\ <<r, "failed">> \in reported
        /\ \/ pc[r] # "done" \/ on[r] \in faulted
           \/ write[DebitOf(r)] \in {"saving", "saved"}

\* The saved writes of account a: debits, credits of a swap, refunds.
DebitsOf(a) == {r \in TransferRequests : write[DebitOf(r)] = "saved" /\ Sender[on[r]] = a}
CreditsOf(a) == {r \in TransferRequests : write[CreditOf(r)] = "saved" /\ Recipient[on[r]] = a}
RefundsOf(a) == {h \in Webhooks : write[CreditOf(h)] = "saved" /\ Sender[on[h]] = a}

\* What they leave in it.
Spent(H) == [h \in H |-> Total(on[h])]
Got(H) == [h \in H |-> Amount[on[h]]]
Booked(a) ==
  OpeningBalance[a] - SumFunction(Spent(DebitsOf(a)))
                    + SumFunction(Got(CreditsOf(a))) + SumFunction(Spent(RefundsOf(a)))

\* Each account holds exactly what the saved debits, credits and refunds left in it,
\* unless two writes read it before one of them saved.
BalancesExact == \A a \in Accounts \ overlapped : balance[a] = Booked(a)

\* A request that ended without an error, alone on its transfer and before any of its
\* webhooks, has its entries in a ledger of the transfer, posted if it was internal.
MovedIsRecorded ==
  \A r \in TransferRequests :
    pc[r] = "done" /\ on[r] \notin crossed \cup faulted =>
      \E d \in LedgersOf(on[r]) :
        RecordCall(r) \in recorded[d] /\ (Internal(r) => d \in posted)
=============================================================================
