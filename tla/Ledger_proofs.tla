--------------------------- MODULE Ledger_proofs ---------------------------
(***************************************************************************)
(* The invariants of Ledger hold for any set of calls and transactions.    *)
(*                                                                         *)
(* The inductive invariant LedgerInv joins the type invariant with three   *)
(* facts: what a call's program counter says about it (CallsInStep), that  *)
(* two calls running for one transaction have raced (RunningRaced), and    *)
(* that a call about to create or to append acts on what it read earlier   *)
(* only at the price of a race (StaleOnlyIfRaced).                         *)
(***************************************************************************)
EXTENDS Ledger, TLAPS

CallsInStep ==
  /\ \A c \in Calls :
       /\ step[c] = "idle" <=> about[c] = None
       /\ step[c] \in {"append", "post"} => found[c] \in LedgersOf(about[c])
  /\ \A c \in RecordCalls :
       /\ step[c] \notin {"lookup", "post"}
       /\ c \in opened => step[c] \in {"append", "done", "failed"}
  /\ \A c \in CloseCalls : step[c] \notin {"find", "open", "append"}

RunningRaced ==
  \A c, d \in Calls :
    c # d /\ {step[c], step[d]} \subseteq Running /\ about[c] = about[d]
      => about[c] \in raced

StaleOnlyIfRaced ==
  \A c \in RecordCalls :
    /\ step[c] = "open" /\ LedgersOf(about[c]) # {} => about[c] \in raced
    /\ step[c] = "append" /\ found[c] \in posted => about[c] \in raced

LedgerInv ==
  /\ LedgerTypeOK
  /\ CallsInStep
  /\ RunningRaced
  /\ StaleOnlyIfRaced
  /\ OneLedgerUnlessRaced
  /\ LostOnlyIfPosted

\* Every initial state satisfies the inductive invariant.
LEMMA LedgerInvInit == LedgerInit => LedgerInv
  BY LedgerAssumption, SMTT(30)
  DEF LedgerInit, LedgerInv, LedgerTypeOK, CallsInStep, RunningRaced,
      StaleOnlyIfRaced, OneLedgerUnlessRaced, LostOnlyIfPosted, Running,
      LedgersOf, Calls

\* A call that starts marks its transaction raced if another is running for it.
LEMMA BeginKeepsLedgerInv ==
  ASSUME LedgerInv, NEW c \in Calls, NEW t \in Transactions, Begin(c, t)
  PROVE  LedgerInv'
<1>1. LedgerTypeOK'
  BY DEF LedgerInv, LedgerTypeOK, Running, Goto, Begin
<1>2. CallsInStep'
  BY LedgerAssumption DEF LedgerInv, LedgerTypeOK, CallsInStep, LedgersOf,
     Goto, Begin
<1>3. RunningRaced'
  BY DEF LedgerInv, CallsInStep, RunningRaced, Goto, Begin, Busy
<1>4. StaleOnlyIfRaced'
  BY DEF LedgerInv, StaleOnlyIfRaced, LedgersOf, Running, Calls, Goto,
     Begin, Busy
<1>5. OneLedgerUnlessRaced'
  BY DEF LedgerInv, LedgerTypeOK, CallsInStep, OneLedgerUnlessRaced, Begin
<1>6. LostOnlyIfPosted'
  BY DEF LedgerInv, CallsInStep, LostOnlyIfPosted, LedgersOf, Calls, Goto,
     Begin
<1> QED  BY <1>1, <1>2, <1>3, <1>4, <1>5, <1>6 DEF LedgerInv

\* findOne returns a document of the transaction; a posted one ends the call.
LEMMA FindKeepsLedgerInv ==
  ASSUME LedgerInv, NEW c \in Calls, Find(c)
  PROVE  LedgerInv'
<1>1. LedgerTypeOK'
  BY DEF LedgerInv, LedgerTypeOK, LedgersOf, Running, Goto, Find
<1>2. CallsInStep'
  BY DEF LedgerInv, LedgerTypeOK, CallsInStep, LedgersOf, Calls, Goto, Find
<1>3. RunningRaced'
  BY DEF LedgerInv, LedgerTypeOK, RunningRaced, Goto, Find
<1>4. StaleOnlyIfRaced'
  BY DEF LedgerInv, LedgerTypeOK, StaleOnlyIfRaced, LedgersOf, Calls, Goto,
     Find
<1>5. OneLedgerUnlessRaced'
  BY DEF LedgerInv, OneLedgerUnlessRaced, Find
<1>6. LostOnlyIfPosted'
  BY DEF LedgerInv, LedgerTypeOK, LostOnlyIfPosted, LedgersOf, Calls, Goto,
     Find
<1> QED  BY <1>1, <1>2, <1>3, <1>4, <1>5, <1>6 DEF LedgerInv

\* A create that finds a document by then was overtaken while it waited.
LEMMA OpenKeepsLedgerInv ==
  ASSUME LedgerInv, NEW c \in Calls, Open(c)
  PROVE  LedgerInv'
<1>1. LedgerTypeOK'
  BY DEF LedgerInv, LedgerTypeOK, CallsInStep, Running, Calls, Goto, Open
<1>2. CallsInStep'
  BY DEF LedgerInv, LedgerTypeOK, CallsInStep, LedgersOf, Goto, Open
<1>3. RunningRaced'
  BY DEF LedgerInv, RunningRaced, Running, Goto, Open
<1>4. StaleOnlyIfRaced'
  BY DEF LedgerInv, LedgerTypeOK, RunningRaced, StaleOnlyIfRaced, LedgersOf,
     Calls, Goto, Open
<1>5. OneLedgerUnlessRaced'
  BY DEF LedgerInv, CallsInStep, StaleOnlyIfRaced, OneLedgerUnlessRaced,
     LedgersOf, Calls, Open
<1>6. LostOnlyIfPosted'
  BY DEF LedgerInv, LostOnlyIfPosted, LedgersOf, Goto, Open
<1> QED  BY <1>1, <1>2, <1>3, <1>4, <1>5, <1>6 DEF LedgerInv

\* An append to a posted document was overtaken by the closing call.
LEMMA AppendKeepsLedgerInv ==
  ASSUME LedgerInv, NEW c \in Calls, Append(c)
  PROVE  LedgerInv'
<1>1. LedgerTypeOK'
  BY DEF LedgerInv, LedgerTypeOK, CallsInStep, LedgersOf, Calls, Goto,
     Append
<1>2. CallsInStep'
  BY DEF LedgerInv, CallsInStep, LedgersOf, Goto, Append
<1>3. RunningRaced'
  BY DEF LedgerInv, RunningRaced, Running, Goto, Append
<1>4. StaleOnlyIfRaced'
  BY DEF LedgerInv, StaleOnlyIfRaced, LedgersOf, Goto, Append
<1>5. OneLedgerUnlessRaced'
  BY DEF LedgerInv, OneLedgerUnlessRaced, Append
<1>6. LostOnlyIfPosted'
  BY DEF LedgerInv, LedgerTypeOK, CallsInStep, LostOnlyIfPosted, LedgersOf,
     Goto, Append
<1> QED  BY <1>1, <1>2, <1>3, <1>4, <1>5, <1>6 DEF LedgerInv

\* The closing call keeps the document it found.
LEMMA LookUpKeepsLedgerInv ==
  ASSUME LedgerInv, NEW c \in Calls, LookUp(c)
  PROVE  LedgerInv'
<1>1. LedgerTypeOK'
  BY DEF LedgerInv, LedgerTypeOK, LedgersOf, Running, Goto, LookUp
<1>2. CallsInStep'
  BY DEF LedgerInv, LedgerTypeOK, CallsInStep, LedgersOf, Calls, Goto,
     LookUp
<1>3. RunningRaced'
  BY DEF LedgerInv, LedgerTypeOK, RunningRaced, Goto, LookUp
<1>4. StaleOnlyIfRaced'
  BY DEF LedgerInv, LedgerTypeOK, StaleOnlyIfRaced, LedgersOf, Calls, Goto,
     LookUp
<1>5. OneLedgerUnlessRaced'
  BY DEF LedgerInv, OneLedgerUnlessRaced, LookUp
<1>6. LostOnlyIfPosted'
  BY DEF LedgerInv, LedgerTypeOK, CallsInStep, LostOnlyIfPosted, LedgersOf,
     Calls, Goto, LookUp
<1> QED  BY <1>1, <1>2, <1>3, <1>4, <1>5, <1>6 DEF LedgerInv

\* Posting only adds to the posted documents; an append that waits raced with it.
LEMMA PostKeepsLedgerInv ==
  ASSUME LedgerInv, NEW c \in Calls, Post(c)
  PROVE  LedgerInv'
<1>1. LedgerTypeOK'
  BY DEF LedgerInv, LedgerTypeOK, CallsInStep, LedgersOf, Goto, Post
<1>2. CallsInStep'
  BY DEF LedgerInv, CallsInStep, LedgersOf, Goto, Post
<1>3. RunningRaced'
  BY DEF LedgerInv, RunningRaced, Running, Goto, Post
<1>4. StaleOnlyIfRaced'
  BY DEF LedgerInv, CallsInStep, RunningRaced, StaleOnlyIfRaced, LedgersOf,
     Running, Calls, Goto, Post
<1>5. OneLedgerUnlessRaced'
  BY DEF LedgerInv, OneLedgerUnlessRaced, Post
<1>6. LostOnlyIfPosted'
  BY DEF LedgerInv, CallsInStep, LostOnlyIfPosted, LedgersOf, Goto, Post
<1> QED  BY <1>1, <1>2, <1>3, <1>4, <1>5, <1>6 DEF LedgerInv

\* Calls cut short write nothing.
LEMMA AbortCallsKeepsLedgerInv ==
  ASSUME LedgerInv, NEW C, AbortCalls(C)
  PROVE  LedgerInv'
<1>1. LedgerTypeOK'
  BY DEF LedgerInv, LedgerTypeOK, AbortCalls
<1>2. CallsInStep'
  BY DEF LedgerInv, CallsInStep, LedgersOf, Running, Calls, AbortCalls
<1>3. RunningRaced'
  BY DEF LedgerInv, RunningRaced, AbortCalls
<1>4. StaleOnlyIfRaced'
  BY DEF LedgerInv, StaleOnlyIfRaced, LedgersOf, Calls, AbortCalls
<1>5. OneLedgerUnlessRaced'
  BY DEF LedgerInv, OneLedgerUnlessRaced, AbortCalls
<1>6. LostOnlyIfPosted'
  BY DEF LedgerInv, LostOnlyIfPosted, LedgersOf, Calls, AbortCalls
<1> QED  BY <1>1, <1>2, <1>3, <1>4, <1>5, <1>6 DEF LedgerInv

-----------------------------------------------------------------------------
\* Every step of the service, and every stutter, keeps the invariant.
LEMMA LedgerInvStep == LedgerInv /\ [LedgerNext]_ledgerVars => LedgerInv'
<1> SUFFICES ASSUME LedgerInv, [LedgerNext]_ledgerVars  PROVE LedgerInv'
  OBVIOUS
<1>1. ASSUME NEW c \in Calls, NEW t \in Transactions, Begin(c, t)
      PROVE  LedgerInv'
  BY <1>1, BeginKeepsLedgerInv
<1>2. ASSUME NEW c \in Calls, LedgerStep(c)  PROVE LedgerInv'
  <2>1. CASE Find(c)  BY <2>1, <1>2, FindKeepsLedgerInv
  <2>2. CASE Open(c)  BY <2>2, <1>2, OpenKeepsLedgerInv
  <2>3. CASE Append(c)  BY <2>3, <1>2, AppendKeepsLedgerInv
  <2>4. CASE LookUp(c)  BY <2>4, <1>2, LookUpKeepsLedgerInv
  <2>5. CASE Post(c)  BY <2>5, <1>2, PostKeepsLedgerInv
  <2> QED  BY <1>2, <2>1, <2>2, <2>3, <2>4, <2>5 DEF LedgerStep
<1>3. ASSUME NEW C \in SUBSET Calls, AbortCalls(C)  PROVE LedgerInv'
  BY <1>3, AbortCallsKeepsLedgerInv
<1>4. CASE UNCHANGED ledgerVars
  BY <1>4 DEF ledgerVars, LedgerInv, LedgerTypeOK, CallsInStep, RunningRaced,
     StaleOnlyIfRaced, OneLedgerUnlessRaced, LostOnlyIfPosted, LedgersOf
<1> QED  BY <1>1, <1>2, <1>3, <1>4 DEF LedgerNext

\* The inductive invariant holds in every reachable state.
THEOREM LedgerInvariant == LedgerSpec => []LedgerInv
  BY LedgerInvInit, LedgerInvStep, PTL DEF LedgerSpec

\* Type correctness of the ledger, for any callers.
THEOREM LedgerTypeCorrect == LedgerSpec => []LedgerTypeOK
  BY LedgerInvariant, PTL DEF LedgerInv

\* A transaction gets a second ledger document only if two calls about it
\* were in progress together, whatever fails or is cut short.
THEOREM DuplicateNeedsRace == LedgerSpec => []OneLedgerUnlessRaced
  BY LedgerInvariant, PTL DEF LedgerInv

\* A call that returned without an error lost its entries only to a posted
\* ledger.
THEOREM LossNeedsPosted == LedgerSpec => []LostOnlyIfPosted
  BY LedgerInvariant, PTL DEF LedgerInv

\* A posted document gains entries only in an append that raced with closing.
LEMMA FrozenByStep == LedgerInv /\ [LedgerNext]_ledgerVars => [FrozenStep]_ledgerVars
<1> SUFFICES ASSUME LedgerInv, LedgerNext, NEW d \in posted,
                    recorded'[d] # recorded[d]
             PROVE  about[d] \in raced
  BY DEF FrozenStep
<1>1. PICK c \in RecordCalls : Append(c) /\ found[c] = d
  BY DEF LedgerNext, LedgerStep, Begin, Find, Open, Append, LookUp, Post,
     AbortCalls, LedgerInv, LedgerTypeOK, CallsInStep, Calls
<1>2. about[c] \in raced
  BY <1>1 DEF Append, LedgerInv, StaleOnlyIfRaced
<1> QED  BY <1>1, <1>2 DEF Append, LedgerInv, CallsInStep, LedgersOf, Calls

\* The entries of a posted ledger change only if an append raced with the
\* closing: no other order of calls adds to it.
THEOREM FrozenUnlessRaced == LedgerSpec => PostedFrozenUnlessRaced
  BY LedgerInvariant, FrozenByStep, PTL DEF LedgerSpec, PostedFrozenUnlessRaced
=============================================================================
