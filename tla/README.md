# Verification of ASAP

TLA+ models, TLC runs and TLAPS proofs for the ASAP backend, a NestJS server
that keeps crypto wallets for users and merchants at a custody provider
(Blockradar) and pays fiat to bank accounts through a liquidity provider
(Yellow Card).  Paths below are relative to `src/src/`.

Everything hard about this program comes from three facts.  All state is in
MongoDB documents, read in one await and written in a later one, with no
transaction, no version check and no claim on a payment; every `await` lets any
other handler run.  The two providers are reached by HTTP and answer by
webhooks that arrive late, twice and out of order.  Nothing in flight is
persisted: what a restart interrupts is not resumed.

## 1. Inventory

| Component | State it keeps | Operations | What is hard, and what makes it correct | Model |
|---|---|---|---|---|
| ledger (`ledger/`, `models/ledger`) | one document per transaction: status, entries | record one or many entries, close | check-then-create, status read before the append; no duplicates, no entry lost or added after closing but by a race | `Ledger` |
| send (`send/`), payment (`payment/`), payment rail (`payment-rail/`), offramp (`offramp/`) | offramp document, withdrawal document | initiate, authorise by pin, complete | two requests at once, retry after a partial failure, event emitted before the save; no payout without debit and pin, one debit | `Send`; a merchant's in `MerchantPay` |
| liquidity provider (`interface/liquidity-provider`, `liquidity-provider/`) | status of the offramp document and of the merchant transaction | quotes, payout, payout webhook | lost replies, webhooks in any order, two documents saved from one read | `Send`, `MerchantPay` |
| events (`event/`) | none | emit, handlers of `offramp.funded` and `created.user` | run beside the request, nobody awaits them | `Send`, `MerchantPay`, `Account` |
| wallet (`wallet/`), custody (`interface/wallet-custody`, `wallet-custodial/`) | wallet documents, balance of each asset, withdrawal and deposit documents | wallets on a chain, balances, transfers, withdrawal, deposit and sweep webhooks | lost updates, refunds made twice, a webhook that overtakes its request, writes nobody awaits, wallets and assets checked for and then created | `Custody`, `WalletChains`; transfers to the platform in `Send` |
| merchant payments (`merchant-sdk/`, `merchant-pos/`), address monitoring (`address-monitoring/`, `interface/monitor-addresses`) | merchant transaction, external wallet, offramp document | SDK and POS payment, address activity, payout webhook | two activity events at once start two payouts, a restart leaves a document that blocks later events | `MerchantPay` |
| auth, account, user, merchant, token, memory store | user and merchant documents, refresh tokens, codes and secrets in redis | register, sign in, refresh, verify, pin, add a chain, second factor | guards read in an await of their own, code and secret replaced while in use, pin saved and wallet not | `Account`; the payment session in `Send` |
| rate (`rate/`) | rates | convert an amount | numbers as strings | the text of a price in `MerchantPay` |
| notifications (`email/`, `sms/`) | none | send a message | a code that never reaches its account | a code's delivery in `Account` |
| platform accounts (`asap/`), bank, kyc and onramp, gateway, config, validators, interceptors, middleware, utils | none that another part reads | output and wiring | | not modelled |

How they interact: a controller calls a service, services call each other
directly and await the answer; `EventService.emit` runs a subscriber that nobody
awaits; the two providers and Alchemy call the webhook controller.  Shared state
is always a document, or a value in redis.

`PROJECT.json` lists every component and every hazard at its line, with the
properties that concern it.  They stand to it in one of three ways.

* The property forbids it: the code excludes what would go wrong.
* The property delimits it: the code lets it happen, and the property names the overlap
  or the failure that it takes (`raced`, `contended`, `crossed`, `overlapped`, `spoiled`,
  `faulted`, `Strayed`) and says that nothing else leads there.  The note of the
  hazard says so: it does not show that the hazard is harmless.
* No property: the code always has it and every run lets it be.  These are the payout
  reported as refused (`yellow-card/index.ts:205`), statuses that go back
  (`abstract-provider.ts:89`), payouts a restart loses (`offramp.service.ts:57`), a
  payment without a quote (`transaction.subscriber.ts:58`), a balance below zero
  (`abstract-custody.ts:186`) and addresses that belong to no wallet
  (`index.processor.ts:224`); the notes say why.

## 2. Modules

* **`Ledger`** models `LedgerService`.  A call is a sequence of database
  operations, each an action: `Find`, `Open`, `Append` for a recording call,
  `LookUp`, `Post` for a closing one; `Begin` is the call, `AbortCalls` a database
  error or the end of the process.  A document is named by the call that created
  it; `recorded` maps it to the calls whose batch of entries it holds.  The text
  of the entries is left out.  `raced` is history: the transactions two calls
  were busy with at once.
* **`Send`** extends `Ledger` and models a payment from a user's wallet to a bank
  account end to end.  `stage` is how far `/send/initiate` got; `offramp` and
  `withdrawal` are the statuses of the two documents; `balance` is the one asset
  document.  `pc[h]` is the operation a handler does next, and what it read
  earlier is kept apart from the documents (`withdrawalSeen`, `walletSeen`,
  `statusTo`), because that is what it writes from.  `background[r]` is the
  handler of `offramp.funded`; it shares its document object with the request
  that emitted the event, which is why a failed save of the request is written by
  the handler's save (`unsaved`) and why saving while the request saves throws.
  A handler that calls the ledger starts a ledger call and waits for it
  (`Begin`, then `step[...] = "done"`).  History variables (`pinOk`, `debits`,
  `payouts`, `contended`, `faulted`, `overlapped`) are read by properties only,
  except that the provider refuses a reference it has accepted before.
* **`PayoutPromise`** is the abstract specification: a pin authorises, coins are
  taken for an authorised payment, a payout is made for coins taken, a payment is
  shown completed only once paid.  `Send` implements it (`KeepsPromise`).
* **`MerchantPay`** extends `Ledger` and models a customer paying a merchant from a
  wallet of the customer's own: the creation of the external wallet and of the
  merchant transaction, the coins sent, the handler of an address activity, the
  background handler of `offramp.funded` and the payout webhook.  An offramp
  document is named by the activity that created it, and `doc[h]` is the one a
  handler works on; `pay[h]` is the payment an activity is about.  Three documents
  are written: `wallet`, `transaction` (with `offrampId`, the document it names)
  and `offramp`.  Two writes are awaited by nobody, `updateExternalWalletToSettled`
  and the webhook's `merchantTxn.save()`: `unawaited[h]` says whether one is on its
  way, and its rejection ends the process (`UnawaitedFails`), since `main.ts`
  installs no handler for unhandled rejections.  `Text` and `TextAtLeast` are the
  decimal strings and JavaScript's `>=` between them.
* **`Custody`** extends `Ledger` and models the transfers from one user's wallet to
  another's or to an address on the chain, and the custodian's withdrawal and
  deposit webhooks.  A balance write is followed from the read of its document to
  its save: `write[w]` is `wanted`, `held` (read), `saving`, `saved` or `failed`,
  and `seen[w]` is the balance it was read from.  A swap awaits both its saves; a
  withdrawal's debit and a webhook's refund run beside their handlers, and their
  failure ends the process.  `docSeen` is the status each handler read: mongoose
  writes a status only if it differs from that.  A deposit is one action, because
  the save of its transaction always throws and nothing is written before (see
  *Observations*).
* **`WalletChains`** models `createWalletChain` and `getChainAssetBalance`.  A
  wallet document, and the address the custodian makes, are named by the creation
  they were made for, an asset document by the query that stored it, so that
  duplicates are seen.  `metBy[c]` is history: the calls at work when `c` began that
  compete with it; `spoiled`: the queries that lost a save.
* **`Account`** extends `WalletChains` and models registration, sessions,
  verification, pin, chains and second factor: one process per request.  An account
  is named by the request that registered it, and a code, a token, a pin or a secret
  by the request that made it.  A request starts at `"guard"`, which is an await of
  its own before the handler; the handlers of the pin, of a merchant's verification
  and of a new chain start a creation of `WalletChains` and wait for it (`"wallet"`).
  The effect of each write is an operator of its own (`AccountSaved`, `OtpSaved`,
  `TokenSaved`, `OldDeleted`, `VerificationSaved`, `PinSaved`, `SecretStored`,
  `SecretSaved`): the step that succeeds uses it, and so does `RequestFails`, for a
  write whose answer is lost may have been made.  A sign-in names the token it
  replaces, and nothing asks whose that is (`auth.service.ts:230`, `token.service.ts:86`):
  it is sent any token that a client was answered with, its own last one, an older one,
  another account's that the browser's session holds, or none.  `beside[h]` is history:
  the handlers of the same account at work when `h` began.
* **`MCLedger`, `MCSend`, `MCCustody`, `MCMerchantPay`, `MCWalletChains`,
  `MCAccount`** give constants, constraints and symmetry for TLC.
* **`Ledger_proofs`, `Send_proofs`, `Custody_proofs`, `MerchantPay_proofs`,
  `WalletChains_proofs`, `Account_proofs`** hold the theorems, each of the module it is
  named for.  **`Sums`** holds the lemmas on the sum of a function over a finite set that
  the balances of `Send` and `Custody` are stated with.

Which modules are composed: `Send`, `Custody` and `MerchantPay` each run the ledger's
actions in between their own, `Account` those of `WalletChains`.

Definitions whose comment says *variant ... for the mutants* are broken copies of
one action each, used to show that a property can fail; no specification uses
them.

### What is abstracted

One asset; one user in `Send`, two in `Custody`.  Coin amounts are small integers,
in `MerchantPay` tenths of a coin, since there their text matters; the conversion
from fiat is not modelled.  Time in `Send` is `age`: which of the
three deadlines (token 10 minutes, offramp document and withdrawal document 15
minutes each from their creation) has passed, in the order they do when
initiating takes less than five minutes; in `Custody`, `MerchantPay` and `Account`
`Expiring` bounds which deadlines may pass.  The risk assessment is a mock that
always allows, so MFA is never required in a send.

In `Account` a password, a pin and a code are compared without their hashes: a
client submits a code it was sent, and a wrong one is a refusal.  The encoding of
tokens and the removal of a refresh token after thirty days are left out, and so is
`compareToken`: its answer is not awaited (`auth.service.ts:372`), so what decides is
that the token is found, which is what `ReadToken` is.  A sign-in sent without the old
token covers the mobile clients of merchants; one sent with another account's covers the
browsers.  In `WalletChains` a merchant's wallet is never found by
`findWalletChainByName`, because the query names a `userId` that a merchant's
documents do not have and no schema knows.

## 3. Runs

| Run | What it shows |
|---|---|
| `ledger` | Three recording and two closing calls on two transactions, cut short anywhere: a duplicate document needs two overlapping calls; the entries of a call that returned are lost only to a posted ledger; a posted ledger gains entries only from an append that raced with closing. |
| `send_requests` | Three payments (one external), two authorisations, two sends, database errors and a crash: the balance is exact unless two sends held the same read of it; a second debit needs an overlap or a request cut short, and a late authorisation is among the overlaps; coins taken by a send that ran alone to its end are in a posted ledger; an external payment stays INITIATED. |
| `send_webhooks` | One send, two webhooks, every failure, passing deadlines: payouts are backed by a debit and a pin, statuses by the event they report, and the handlers implement `PayoutPromise`. |
| `send_live` | Under fairness and without failures a debit leads to a payout. |
| `custody_requests` | A swap and a withdrawal from one account, two authorisations, two requests, database errors: balances are exact unless two writes read an account together; COMPLETED means both sides of a swap were saved; what moved is in a posted ledger unless a second handler crossed it. |
| `custody_webhooks` | One withdrawal, two deliveries of its events, every failure, its deadline: no coins without a pin, no status without its event, no refund without a failed and debited withdrawal, exact balances through duplicate refunds. |
| `merchant_events` | Two activity events of one address, a lost reply, an unawaited write that ends the process, a deadline: a merchant is paid twice only if the two events were handled at once; under fairness a sufficient balance ends in a payout. |
| `merchant_webhooks` | One activity event, two webhooks of its payout (created, complete, and a failing approval), database errors and a crash: statuses have their evidence, the merchant's document and the offramp document tell the same end unless handlers met or an operation failed, and a completed payment is recorded in a posted ledger. |
| `chains` | A user and a merchant, two chains, three creations, two queries, database errors, a silent custodian, a crash: two wallets on a chain, two addresses, or two documents of an asset need two calls at work together; the stored list is the custodian's unless a save was lost. |
| `account` | A user or a merchant goes through registration, verification, pin, chains and second factor, or both register and sign in, with expiring codes and secrets, failed writes that land, unsent messages and a crash: the setup goes in order whatever overlaps; a replaced pin, a missing wallet, an outdated code or secret each need the overlap or the failure named; an account keeps exactly the token its client holds, and that token is accepted, but for a token sent twice, none sent, another account's sent, a sign-in that overlaps a refresh, or a failure. |

Two runs expect a violation: the repository says something the code does not do.

| Run | Said | Found |
|---|---|---|
| `merchant_underpaid` | "Crypto received from customer" (`interface/monitor-addresses/index.ts:124`) | the balance and the price are compared as strings (line 53): "9.5" is at least "10.5", and the merchant is paid for what was not received |
| `chains_shared` | "check If user Already has a wallet created by blockradar" (`wallet-custodial/processors/blockradar/index.processor.ts:182`) | `wallet/wallet.service.ts:84` takes the user and does not ask for it: any user's wallet gives its address |

### Bounds

One or two payments and two of each request are enough for every pairwise overlap
the code has, since each overlap is between two requests of one payment, two of one
account or two on one wallet; more of them only repeat the races.  `MaxAge` bounds
how many deadlines pass; `Failures` names the faults allowed in a run.  These
constraints narrow a run further:

* `BackgroundWaits` (`send_requests`) keeps the background handlers from starting,
  which touch neither the wallet nor the withdrawal.
* `TwoAtWork` and `OneFailure` (`merchant_webhooks`): at most two handlers at work,
  and at most one that has thrown.  The overlaps are between two handlers; a second
  failure only repeats what the first allows.
* `TwoAtWork` (`chains`): two calls at work, and queries after at most two
  creations, for a query reads the wallets once and no creation reads what a query
  writes.
* `TwoAtWork`, `OneFailure` and `OneConcern` (`account`): two handlers at work, one
  failure (or those a crash causes), and one concern at a time: sessions, or the setup
  of one account, or, once that is through, its chains or its second factor.  No step of
  the setup touches another account.  What a guard reads of a set-up account does not
  change again, except the pin, of which it asks only that there is one; chains and
  second factor share no document.  The sessions may be those of two accounts, for one
  may be sent the other's token; they are registered one after the other before anybody
  signs in, and sessions read and write only tokens.  Creations of wallets that
  overlap are checked in `chains`.

Deadlock is not checked: a server with no requests left rests.  Symmetry is used in
runs without liveness properties only, and only over model values that no definition
tells apart: in `account` over pin requests and sign-ins, and not over codes or secrets,
some of which `Expiring` names.

**Fairness** (`SendFairness` in `send_live`, `MerchantFairness` in
`merchant_events`): the event loop resumes every handler whose awaited operation has
answered, so each handler that has begun makes its next step, and a write nobody
awaits is carried out.  `send_live` allows no failure, so each operation answers;
`merchant_events` allows failures, and its property excuses a payment that had one.
Nothing obliges a user to send a request, a customer to pay, a deadline to pass or a
provider to call.

### Observations

What the code plainly does, which the models follow and no run is spent on:

* A ledger is found by an unindexed query and then created, so "each document
  represents a transaction" (`models/ledger/entry.entity.ts:33`) holds only without
  races (`OneLedgerUnlessRaced`).
* "Retrieves payment that have a status of authorized"
  (`transaction/transaction.service.ts:251`): the query takes any status but
  INITIATED, so a transfer that was carried out can be carried out again
  (`AtMostOneDebit` needs an overlap or a failure; `BalancesExact` counts the second
  one).
* Coins and balance are compared at initiation only, without the fee; the debit
  checks nothing, and the balance may go below zero.
* "Create a transaction for the deposit" (`interface/wallet-custody/abstract-custody.ts:889`):
  `canHandleInternally: false` leaves the required `canHandleInternally.status` unset,
  the save throws, and no deposit is recorded or credited.
* Only a merchant's ledger is closed after a payout and only a merchant's failed
  payout is written to a second document; a user's coins are kept after FAILED.
* One delivery may report several address activities, and only the first is handled
  (`webhook/webhook.controller.ts:152`).
* `convertAssets` counts decimals in the text of the result (`rate/rate.service.ts:41`),
  which a whole number does not have.
* A merchant's wallet is looked for by a field its documents lack
  (`wallet/wallet.service.ts:123`), so each creation saves another.

## 4. Proofs

All theorems are for every value of the constants, from the named assumptions
`LedgerAssumption`, `SendAssumption`, `CustodyAssumption`, `MerchantAssumption`,
`ChainsAssumption` and `AccountAssumption` (which say that the sets of calls, requests
and payments are disjoint where they must be and what kind of number an amount is; TLC
evaluates all six).

* **`LedgerInv`** (`Ledger_proofs`).  `OneLedgerUnlessRaced` is not inductive:
  a call about to create must be known to be the first, or raced.  The
  strengthening adds what the operation a call does next says of it
  (`CallsInStep`), that two running calls about one transaction are recorded as
  raced (`RunningRaced`), and that a document which contradicts what a waiting
  call saw was made in a race (`StaleOnlyIfRaced`).  From it follow
  `LedgerTypeCorrect`, `DuplicateNeedsRace`, `LossNeedsPosted` and
  `FrozenUnlessRaced`.
* **`SendInv`** (`Send_proofs`) is types, `LedgerInv`, and four parts: `Shape`
  (what a program counter says), `Authorised` (nothing gets past the pin without
  one), `Evidence` (what stands behind a status, also behind one a webhook is
  about to write), `Alone` (while no two requests of a payment overlap and none
  was cut short, what a request read still holds).  Each part has a lemma with
  one step per action.  `LedgerUsed` shows that every step of `Send` is a step of
  the ledger service, so that its invariant is reused as it stands.  From it
  follow `SendTypeCorrect`, `PayoutsAreBacked`, `StatusesHaveEvidence` and
  `DebitsAreSingle`.  Two more invariants rest on it.  `Refused` says of a payment to
  be funded from outside that no withdrawal is ever created for it, so that every
  handler of it ends before the pin (`ExternalIsRefused`).  `Calling` and `Recording`
  follow a send's ledger calls: while its payment is calm, one send took its coins, so
  one call records entries about its withdrawal (`OwnLedger`), and the ledger that the
  closing call finds is the one that call opened.  Calm is lost and never regained
  (`CalmStays`), which is what lets `Recording` be stated of calm payments only
  (`FundedSendsAreRecorded`).  `Balanced` is about the wallet: until two sends have held
  the same balance, one send at most is about to debit, and what it read is the balance
  there is (`Holding`), so what it saves is right (`CoinsAreAccounted`).
* **`SendKeepsPromise`**: every step maps to a step of `PayoutPromise` or none,
  with the invariant supplying the guards of the abstract actions.

* **`CustodyInv`** (`Custody_proofs`) is types, `LedgerInv`, and six parts: `Shape`
  and `Authorised` as in `Send`; `Course`, where the two balance writes of a request
  are at each of its steps, which the swap's `Promise.all` and the debit nobody
  awaits make differ; `Evidence`, what stands behind a status, also behind one a
  webhook is about to write, and behind a withdrawal that is over (its debit is
  under way unless something failed: without it a refund has no reason);
  `Linked`, which transfer each ledger call is about; `Recorded`, how far the
  entries of a request have got that is alone on its transfer.  From it follow
  `CustodyTypeCorrect`, `CoinsNeedThePin`, `StatusesHaveEvidence`,
  `RefundsAreBacked` and `MovementsAreRecorded`.  `Accounted` adds the balances: of an
  account whose writes never met, one write at most is between its read and its save, and
  it holds the balance there is, which is what the saved debits, credits and refunds make
  it (`BalancesAreAccounted`).  The request and the webhooks do
  write statuses over each other, so no part says what the status is next; each
  says only what must have happened for it to be what it is.

* **`MerchantInv`** (`MerchantPay_proofs`) is types, `LedgerInv`, and nine parts.
  `Shape` says what a handler's program counter tells of it, `Documents` and `Linking`
  which offramp document it works on and which one the merchant transaction names
  (another than the first only if two activities met), `Evidence` what stands behind a
  status, also behind one that a webhook or a write nobody awaits is about to save.
  `Calling` and `Closing` are about the ledger: what each call is about, and that a
  ledger is closed only after the settlement of the webhook that closes it was
  recorded.  `Alone` is what an activity may count on while its payment is neither
  contended nor faulted; `Meeting` and `Agreement` what a webhook may count on while
  it met nobody on its document: the ledger it finds is the only one, and what the
  webhooks before it saved in the two documents is the same.  The two documents differ
  in between, so `Agreement` speaks of what has been saved or will be, and
  `StatusesAgree` follows when every handler is through.  From it follow
  `MerchantTypeCorrect`, `SecondPayoutNeedsContention`, `StatusesHaveEvidence`,
  `DocumentsTellTheSame` and `CompletedPaymentsAreRecorded`.

* **`ChainsInv`** (`WalletChains_proofs`).  None of the four properties is inductive:
  each says that two documents were made in a race, and must be known of the calls that
  are about to make one.  `WalletsMet` says so of a creation that is past its check,
  `AddressesMet` of one that waits for the custodian (one that has an address and no
  wallet yet was made the address for, or a wallet of the kind exists:
  `CreationShape`), `QueriesMet` of a query that is fetching.  `QueryShape` adds that
  what a query listed it has stored, is storing or has lost; with it, `Answers` shows
  that stored assets come from one query and are its whole list.  From it follow
  `ChainsTypeCorrect`, `SecondWalletNeedsRace`, `SecondAddressNeedsRace`,
  `SecondAssetNeedsRace` and `AnswersAreWhole`, with every failure and crash.

* **`AccountInv`** (`Account_proofs`) is types, `ChainsInv` as it stands (every step of
  `Account` is a step of the wallets' module or leaves its variables alone), and nine
  parts. The properties speak of what a handler read in its guard and of what holds when
  it writes, so each part carries the guard over the await. `Ordered` does so for the
  setup: that a phone is verified, that a code was sent, that a secret was shown is never
  taken back, so a guard's answer is still true when its handler writes. Where it can be
  taken back, the part names the handler that must have met the other: `Pinned` for a pin,
  `Coded` for a code replaced while another is compared, `Secrets` for the second factor,
  `Tokened` for a refresh token deleted by a sign-in. `Meeting` is the fact under all of
  them: two handlers at work on one account were at work together when the later one
  began, which is what `beside` remembers. `Creating` ties a request to the creation of
  its wallet; `Sessions` says which tokens an account has: those saved and not yet sent
  with a sign-in that is through (`Remaining`). While its sign-ins were each sent a token
  of the account that no other was sent, every token given was sent with a sign-in or is
  the last (`Replaced`), so only one of them is at work at a time, although nothing in the
  code makes them wait. Since most of this says that something has happened, the proof
  shows first what no step takes back (`Kept`, `ChainsKept`) and what therefore lasts
  (`Lasting`), and each part then looks only at the handlers a step moves. From it follow
  `AccountTypeCorrect`, `SetupGoesInOrder`, `ActivationBringsWallet`,
  `SessionsAreReplaced`, `HeldTokenIsAccepted` and the action properties
  `SecondPinNeedsRace`, `StaleCodeNeedsRace` and `StaleSecretNeedsRace`.

* **`Sums`**.  A balance is a sum over the requests that moved coins, which is a fold over
  a set, and that a fold does what it should needs induction on the size of the set.  The
  library's induction theorems take a predicate as a parameter, which the provers cannot
  instantiate; the well-foundedness of the numbers is a plain fact, and what it says of a
  set is all that is needed: a non-empty set of numbers has a least element (`Least`).
  Each induction is written as its least counterexample: the sizes at which the statement
  fails are a set, and its least element leads to a contradiction.  So the equation a
  fold is chosen to solve has a solution (`SolutionExists`), any two agree
  (`SolutionsAgree`), the sum is therefore a number computed one element at a time
  (`SumFolds`), and adding an element adds its value whichever element the fold picks
  first (`SumAdds`).

Every safety property of a passing run is a theorem.  Only model-checked are
`DebitedIsPaidOut` and `SufficientIsPaidOut`, since liveness under fairness and ENABLED are
out of the prover's reach; `RecordedWasReceived` and `AddressOfOneParty` are violated by
the code.

## 5. Plan

1. `Ledger`, `Send`, `PayoutPromise` and their proofs: done.
2. `Custody`, its runs and its theorems: done.
3. `MerchantPay`, `WalletChains`, `Account` and their runs, and the theorems of
   `WalletChains`: done.
4. The theorems of `MerchantPay` and `Account`, those of the ledger of a send, and the
   balances of `Send` and `Custody`: done.  Every safety property the runs check is a
   theorem.
5. Left: an abstract specification of what a transfer promises, as `PayoutPromise` is of a
   send, shown to be implemented by `Custody`; and one of `MerchantPay`'s payout.

## 6. Not modelled

* The sweep webhook: it looks for a deposit's transaction, which no deposit gets, and
  returns.  The offramp's continuation from a custody webhook: no caller creates the
  withdrawal it needs.
* API keys, settlement account and webhook address of a merchant, profiles: fields that
  are set and read, each by one update.
* Listings, reports and searches; channels, networks, rates and fees of the providers;
  the list of banks: queries only.
* Platform accounts: fixed documents created at start that nothing reads.
* `changeRates`: one document saved, read by later conversions, whose numbers are left
  out.
* Wiring, validation of request bodies, logging, formatting of responses and the text of
  messages.
