------------------------------- MODULE Ledger -------------------------------
(***************************************************************************)
(* The ledger collection (ledger/ledger.service.ts,                        *)
(* models/ledger/entry.entity.ts) under concurrent callers.                *)
(*                                                                         *)
(* Every call of the service is a short sequence of awaited database       *)
(* operations: a call that records entries looks for the transaction's     *)
(* document, creates one if it finds none, and appends to the document it  *)
(* found; a call that closes looks for a document and saves its status.    *)
(* Other callers run at each await, so each operation is a step.           *)
(*                                                                         *)
(* A document is named by the call that created it, and its entries are    *)
(* the calls whose entries were appended: one $addToSet appends the whole  *)
(* batch of a call, and what the lines of a batch say is not modelled.     *)
(* mongoose gives every appended subdocument its own _id, so batches of    *)
(* two calls never merge.                                                  *)
(***************************************************************************)
EXTENDS FiniteSets

CONSTANTS
  RecordCalls,   \* calls of record(Bulk)TransactionEntr(y|ies), each made once
  CloseCalls,    \* calls of closeLedgerEntry, each made once
  Transactions,  \* the transactionIds that ledgers are about
  None

Calls == RecordCalls \cup CloseCalls

ASSUME LedgerAssumption ==
  /\ RecordCalls \cap CloseCalls = {}
  /\ None \notin Calls \cup Transactions

VARIABLES
  step,      \* the database operation each call makes next
  about,     \* the transaction each call is about
  found,     \* the document each call found or created
  opened,    \* the documents that exist, each named by the call that created it
  posted,    \* the documents whose status is POSTED; the others are ONGOING
  recorded,  \* for each document, the calls whose entries it holds
  raced      \* history: transactions two calls were ever busy with at once

ledgerVars == <<step, about, found, opened, posted, recorded, raced>>

Running == {"find", "open", "append", "lookup", "post"}

\* The calls and documents have values of their types; a call works on a document
\* only if it has found or created one, so only documents that exist are posted.
LedgerTypeOK ==
  /\ step \in [Calls -> Running \cup {"idle", "done", "failed"}]
  /\ about \in [Calls -> Transactions \cup {None}]
  /\ found \in [Calls -> RecordCalls \cup {None}]
  /\ opened \in SUBSET RecordCalls
  /\ posted \in SUBSET opened
  /\ recorded \in [RecordCalls -> SUBSET RecordCalls]
  /\ raced \in SUBSET Transactions

LedgerInit ==
  /\ step = [c \in Calls |-> "idle"]
  /\ about = [c \in Calls |-> None]
  /\ found = [c \in Calls |-> None]
  /\ opened = {}
  /\ posted = {}
  /\ recorded = [c \in RecordCalls |-> {}]
  /\ raced = {}

Busy(t) == {c \in Calls : about[c] = t /\ step[c] \in Running}
LedgersOf(t) == {d \in opened : about[d] = t}
Goto(c, s) == step' = [step EXCEPT ![c] = s]

-----------------------------------------------------------------------------
(***************************************************************************)
(* The service's methods, one action per awaited database operation.       *)
(***************************************************************************)

Begin(c, t) ==
  /\ step[c] = "idle"
  /\ Goto(c, IF c \in RecordCalls THEN "find" ELSE "lookup")
  /\ about' = [about EXCEPT ![c] = t]
  /\ raced' = raced \cup {u \in {t} : Busy(t) # {}}
  /\ UNCHANGED <<found, opened, posted, recorded>>

\* Variants of Find for the mutants: the check of `!ledger` or of POSTED wrong.
FindWithoutLooking(c) ==
  /\ step[c] = "find"
  /\ Goto(c, "open")
  /\ UNCHANGED <<about, found, opened, posted, recorded, raced>>

FindIgnoringPosted(c) ==
  /\ step[c] = "find"
  /\ \/ LedgersOf(about[c]) = {} /\ Goto(c, "open") /\ UNCHANGED found
     \/ \E d \in LedgersOf(about[c]) :
          found' = [found EXCEPT ![c] = d] /\ Goto(c, "append")
  /\ UNCHANGED <<about, opened, posted, recorded, raced>>

FindRefusingOngoing(c) ==
  /\ step[c] = "find"
  /\ \/ LedgersOf(about[c]) = {} /\ Goto(c, "open") /\ UNCHANGED found
     \/ \E d \in LedgersOf(about[c]) :
          /\ found' = [found EXCEPT ![c] = d]
          /\ Goto(c, IF d \in posted THEN "append" ELSE "done")
  /\ UNCHANGED <<about, opened, posted, recorded, raced>>

\* findOne({ transactionId }) has no sort: it may return any matching document.
\* A document that is already POSTED makes the call return with nothing written.
Find(c) ==
  /\ step[c] = "find"
  /\ \/ LedgersOf(about[c]) = {} /\ Goto(c, "open") /\ UNCHANGED found
     \/ \E d \in LedgersOf(about[c]) :
          /\ found' = [found EXCEPT ![c] = d]
          /\ Goto(c, IF d \in posted THEN "done" ELSE "append")
  /\ UNCHANGED <<about, opened, posted, recorded, raced>>

\* openLedgerEntry: a fresh random idempotencyKey, so the insert never conflicts.
Open(c) ==
  /\ step[c] = "open"
  /\ Goto(c, "append")
  /\ opened' = opened \cup {c}
  /\ found' = [found EXCEPT ![c] = c]
  /\ UNCHANGED <<about, posted, recorded, raced>>

\* updateOne by _id: the document's status is not looked at again.
Append(c) ==
  /\ step[c] = "append"
  /\ Goto(c, "done")
  /\ recorded' = [recorded EXCEPT ![found[c]] = @ \cup {c}]
  /\ UNCHANGED <<about, found, opened, posted, raced>>

LookUp(c) ==
  /\ step[c] = "lookup"
  /\ \/ LedgersOf(about[c]) = {} /\ Goto(c, "done") /\ UNCHANGED found
     \/ \E d \in LedgersOf(about[c]) :
          found' = [found EXCEPT ![c] = d] /\ Goto(c, "post")
  /\ UNCHANGED <<about, opened, posted, recorded, raced>>

Post(c) ==
  /\ step[c] = "post"
  /\ Goto(c, "done")
  /\ posted' = posted \cup {found[c]}
  /\ UNCHANGED <<about, found, opened, recorded, raced>>

LedgerStep(c) == Find(c) \/ Open(c) \/ Append(c) \/ LookUp(c) \/ Post(c)

\* A database error, or the end of the process, cuts the running calls of C short.
AbortCalls(C) ==
  /\ step' = [c \in Calls |->
                IF c \in C /\ step[c] \in Running THEN "failed" ELSE step[c]]
  /\ UNCHANGED <<about, found, opened, posted, recorded, raced>>

LedgerNext ==
  \/ \E c \in Calls, t \in Transactions : Begin(c, t)
  \/ \E c \in Calls : LedgerStep(c)
  \/ \E C \in SUBSET Calls : AbortCalls(C)

LedgerSpec == LedgerInit /\ [][LedgerNext]_ledgerVars

-----------------------------------------------------------------------------
(***************************************************************************)
(* Properties.                                                             *)
(***************************************************************************)

\* Two ledger documents for one transaction arise only when two calls about it
\* were in progress together: the check-then-create of recordTransactionEntry
\* and recordBulkTransactionEntries is safe one call at a time, whatever fails.
OneLedgerUnlessRaced ==
  \A c, d \in opened : about[c] = about[d] /\ c # d => about[c] \in raced

\* The entries of a call that returned without an error are missing from every
\* ledger only if a ledger of that transaction had been posted: the early return
\* on POSTED is the only silent loss.
LostOnlyIfPosted ==
  \A c \in RecordCalls :
    step[c] = "done" =>
      \/ \E d \in LedgersOf(about[c]) : c \in recorded[d]
      \/ LedgersOf(about[c]) \cap posted # {}

\* A posted ledger gains entries only when the append raced with the closing:
\* the status is read before the append and not checked by it.
FrozenStep ==
  \A d \in posted : recorded'[d] # recorded[d] => about[d] \in raced
PostedFrozenUnlessRaced == [][FrozenStep]_ledgerVars
=============================================================================
