--------------------------- MODULE Account_proofs ---------------------------
(***************************************************************************)
(* The safety of Account for any accounts, requests, codes, chains, crashes*)
(* and failures.                                                           *)
(*                                                                         *)
(* AccountInv is the inductive invariant: the types, the invariant of the  *)
(* wallets' module, and                                                    *)
(*   Shape     what a handler's program counter says about it,             *)
(*   Meeting   which handlers of an account must have met,                 *)
(*   Creating  where a request and its wallet's creation stand,            *)
(*   Ordered   what an account must have been before what it is,           *)
(*   Pinned    whom a request that replaces a pin has met,                 *)
(*   Coded     which code a verification was compared with,                *)
(*   Secrets   which secret the store names and a request has read,        *)
(*   Tokened   which token a client holds and a request was sent with,     *)
(*   Sessions  which tokens an account has, and how its sign-ins followed  *)
(*             one another.                                                *)
(*                                                                         *)
(* Most of the invariant says that something was there or has happened, so *)
(* the proof shows first what no step takes back (Kept, ChainsKept) and    *)
(* what lasts for that reason (Lasting): each part of the invariant then   *)
(* needs only the handlers a step moves.                                   *)
(***************************************************************************)
EXTENDS Account, WalletChains_proofs

\* The operations of each kind of handler.
StepsOf(h) ==
  IF h \in Parties THEN {"check", "save", "otp", "token"}
  ELSE IF h \in Logins THEN {"password", "token", "delete"}
  ELSE IF h \in TokenRequests THEN {"read"}
  ELSE IF h \in OtpRequests THEN {"guard", "otp", "send"}
  ELSE IF h \in Verifications THEN {"guard", "compare", "update", "wallet"}
  ELSE IF h \in PinRequests THEN {"guard", "update", "wallet"}
  ELSE IF h \in ChainRequests THEN {"guard", "wallet"}
  ELSE IF h \in MfaGets THEN {"guard", "record", "store"}
  ELSE {"guard", "read", "verify", "update"}

UserRequests == PinRequests \cup ChainRequests \cup MfaGets \cup MfaPosts

Shape ==
  /\ \A h \in Handlers :
       /\ pc[h] \in StepsOf(h) \cup Resting
       /\ pc[h] = "idle" <=> of[h] = None
       /\ pc[h] = "idle" => beside[h] = {}
       /\ \A g \in beside[h] : pc[g] # "idle"
  /\ \A u \in Parties : of[u] \in {u, None}
  /\ \A h \in UserRequests : of[h] \notin Merchants

Meeting ==
  \A g, h \in Handlers :
    g # h /\ of[g] = of[h] /\ AtWork(g) /\ AtWork(h) => Beside(g, h)

\* A creation's wallet exists, made by it or by another; a request whose part in the setup
\* was to have account u's default wallet created has called for it.
HasWallet(c) == \E d \in wallets : party[d] = party[c] /\ chain[d] = chain[c]
WalletAsked(u) ==
  \E c \in Creations :
    /\ of[c] = u /\ chain[c] = Base
    /\ creating[c] # "idle" /\ pc[c] \in {"wallet", "done"}

Creating ==
  /\ \A c \in Creations :
       /\ pc[c] \notin {"wallet", "done", "failed"} => creating[c] = "idle"
       /\ pc[c] = "wallet" => creating[c] # "idle"
       /\ creating[c] # "idle" => party[c] = of[c] /\ of[c] \in active
       /\ pc[c] = "done" => creating[c] \in {"idle", "done", "exists"}
       /\ creating[c] \in {"done", "exists"} => HasWallet(c)
  /\ \A u \in active : u \in faulted \/ WalletAsked(u)

\* A code sent to account u was submitted for it, a code of an OTP request.
Confirmed(u) == \E v \in Verifications : of[v] = u /\ code[v] \in inbox[u]
Requested(u) == \E v \in Verifications : of[v] = u /\ code[v] \in OtpRequests

Ordered ==
  /\ \A u \in Parties \ Merchants :
       /\ u \in active <=> pin[u] # None
       /\ pin[u] # None => u \in verified
       /\ secret[u] # None => u \in active /\ secret[u] \in shown[u]
       /\ u \in verified => Confirmed(u)
  /\ \A u \in Merchants : u \in active => Requested(u)
  /\ \A u \in Merchants : inbox[u] \subseteq OtpRequests /\ greeting[u] = "none"
  /\ \A v \in Verifications : pc[v] # "idle" => code[v] \in inbox[of[v]]
  /\ \A p \in PinRequests : pc[p] = "update" => of[p] \in verified
  /\ \A x \in MfaPosts :
       /\ pc[x] # "idle" => tried[x] \in shown[of[x]]
       /\ pc[x] \in {"read", "verify", "update"} => of[x] \in active
       /\ pc[x] = "update" => read[x] = tried[x]

Pinned ==
  \A p \in PinRequests :
    pc[p] = "update" /\ pin[of[p]] # None => Beside(pin[of[p]], p)

\* Another code was being made beside verification v, another secret beside request x; a
\* sign-in was at work beside token request t or was sent a token of its account from
\* another.
CodeBeside(v) == \E h \in OtpRequests \cup Parties : Beside(h, v)
SecretBeside(x) == \E g \in MfaGets : Beside(g, x)
Disturbed(t) == Strayed(of[t]) \/ \E l \in Logins : Beside(l, t)

Coded ==
  /\ \A u \in Parties : otp[u] \in {None, issued[u]}
  /\ \A v \in Verifications :
       pc[v] = "update" => code[v] = issued[of[v]] \/ CodeBeside(v)

Secrets ==
  /\ \A u \in Parties :
       /\ \A g \in shown[u] : pc[g] = "done"
       /\ mfa[u] # None => mfa[u] = latest[u] \/ pc[mfa[u]] = "failed"
  /\ \A x \in MfaPosts :
       pc[x] \in {"verify", "update"} =>
         /\ read[x] # None
         /\ \/ read[x] = latest[of[x]] \/ pc[read[x]] = "failed"
            \/ SecretBeside(x)

Tokened ==
  /\ \A t \in tokens : pc[t] # "idle"
  /\ \A u \in Parties :
       held[u] # None =>
         /\ of[held[u]] = u /\ pc[held[u]] = "done"
         /\ u \notin faulted /\ ~Strayed(u) => held[u] \in tokens
  /\ \A h \in Logins \cup TokenRequests :
       old[h] # None => pc[h] # "idle" /\ pc[old[h]] = "done"
  /\ \A t \in TokenRequests : old[t] # None => of[old[t]] = of[t]
  /\ \A l \in Logins : pc[l] = "delete" => l \in tokens /\ old[l] # None
  /\ \A t \in TokenRequests :
       pc[t] \in {"read", "refused"} =>
         \/ pc[t] = "read" /\ old[t] \in tokens
         \/ of[t] \in faulted \/ Disturbed(t)

\* The tokens that account u was given.
GivenTo(u) == {t \in Given : of[t] = u}

\* The sign-ins of an account were each sent one of its tokens, no two the same one, and
\* no other account's was sent any.
Orderly(u) ==
  /\ u \notin faulted /\ ~Strayed(u)
  /\ \A l \in SignIns(u) : old[l] # None /\ of[old[l]] = u
  /\ \A k, l \in SignIns(u) : old[k] = old[l] => k = l

\* The tokens that exist are those saved and not sent with a sign-in that is through.
Remaining(u) ==
  \A t \in Tokens :
    of[t] = u =>
      (t \in tokens <=> /\ pc[t] \in {"done", "delete"}
                        /\ \A l \in Logins : pc[l] = "done" => old[l] # t)

\* Each token given was sent with a sign-in, or is the last, sent with none yet: so only
\* one sign-in at a time can be sent a token that none was sent before.
Replaced(u) ==
  /\ \A t \in GivenTo(u) :
       \/ \E k \in SignIns(u) : old[k] = t
       \/ t = held[u] /\ \A k \in SignIns(u) : pc[k] = "done"
  /\ \A k \in SignIns(u) : pc[k] = "done" => old[k] # held[u]
  /\ \A k, l \in SignIns(u) : pc[k] # "done" /\ pc[l] # "done" => k = l
  /\ pc[u] # "done" => GivenTo(u) = {} /\ SignIns(u) = {}

SessionsAt(u) ==
  /\ u \notin faulted /\ ~Strayed(u) => Remaining(u)
  /\ Orderly(u) => Replaced(u)

Sessions == \A u \in Parties : SessionsAt(u)

AccountInv ==
  /\ AccountTypeOK /\ ChainsInv
  /\ Shape /\ Meeting /\ Creating /\ Ordered
  /\ Pinned /\ Coded /\ Secrets /\ Tokened /\ Sessions

\* What no step takes back.
Kept ==
  /\ \A h \in Handlers :
       /\ pc[h] # "idle" =>
            pc'[h] # "idle" /\ of'[h] = of[h] /\ beside'[h] = beside[h]
       /\ pc[h] \in {"done", "refused", "failed"} => pc'[h] = pc[h]
  /\ \A c \in Creations :
       pc[c] \in {"wallet", "done"} =>
         pc'[c] \in {"wallet", "done"} \/ of[c] \in faulted'
  /\ \A v \in Verifications : pc[v] # "idle" => code'[v] = code[v]
  /\ \A h \in Logins \cup TokenRequests : pc[h] # "idle" => old'[h] = old[h]
  /\ \A x \in MfaPosts : pc[x] # "idle" => tried'[x] = tried[x]
  /\ \A u \in Parties : inbox[u] \subseteq inbox'[u] /\ shown[u] \subseteq shown'[u]
  /\ verified \subseteq verified' /\ active \subseteq active' /\ faulted \subseteq faulted'

ChainsKept ==
  /\ wallets \subseteq wallets'
  /\ \A c \in Creations :
       creating[c] # "idle" =>
         creating'[c] # "idle" /\ party'[c] = party[c] /\ chain'[c] = chain[c]

\* What lasts because of it.
Lasting ==
  /\ \A g, h \in Handlers : Beside(g, h) => Beside(g, h)'
  /\ \A v \in Verifications : CodeBeside(v) => CodeBeside(v)'
  /\ \A x \in MfaPosts : SecretBeside(x) => SecretBeside(x)'
  /\ \A t \in TokenRequests : Disturbed(t) => Disturbed(t)'
  /\ \A u \in Parties :
       /\ Confirmed(u) => Confirmed(u)'
       /\ Requested(u) => Requested(u)'
       /\ WalletAsked(u) => WalletAsked(u)' \/ u \in faulted'
       /\ Strayed(u) => Strayed(u)'
  /\ \A c \in Creations : creating[c] # "idle" /\ HasWallet(c) => HasWallet(c)'

\* A step makes no token, deletes none and moves no sign-in of any account but a.
SessionsOnlyOf(a) ==
  \A u \in Parties \ {a} :
    /\ held'[u] = held[u]
    /\ \/ u \in faulted' \/ Strayed(u)'
       \/ /\ \A t \in Tokens : of'[t] = u => (t \in tokens' <=> t \in tokens)
          /\ pc'[u] = "done" => pc[u] = "done"
          /\ \A l \in Logins :
               of'[l] = u => /\ pc'[l] = "token" <=> pc[l] = "token"
                             /\ pc'[l] = "delete" <=> pc[l] = "delete"
                             /\ pc'[l] = "done" <=> pc[l] = "done"

\* A request fails before its write is made, or after one of its writes is.
Throws(h) == AtWork(h) /\ Moves(h, "failed") /\ Faults(h)
FailsUnwritten(h) == Throws(h) /\ UNCHANGED <<chainVars, documents, codes, sessions, factor>>
FailsSaving(h) == Throws(h) /\ AccountSaved(h)
FailsStoringCode(h) == Throws(h) /\ OtpSaved(h) /\ UNCHANGED greeting
FailsSavingToken(h) == Throws(h) /\ TokenSaved(h) /\ UNCHANGED held
FailsDeleting(h) == Throws(h) /\ OldDeleted(h) /\ UNCHANGED held
FailsVerifying(h) == Throws(h) /\ VerificationSaved(h) /\ UNCHANGED chainVars
FailsSettingPin(h) == Throws(h) /\ PinSaved(h) /\ UNCHANGED chainVars
FailsEnabling(h) == Throws(h) /\ SecretSaved(h) /\ UNCHANGED chainVars
FailsStoringSecret(h) == Throws(h) /\ SecretStored(h) /\ UNCHANGED <<shown, latest>>

-----------------------------------------------------------------------------
\* A handler is of one kind.
LEMMA Names ==
  /\ None \notin Handlers
  /\ \A h \in Parties : h \notin Requests
  /\ \A h \in OtpRequests :
       h \notin Verifications \cup PinRequests \cup ChainRequests \cup Logins
                \cup TokenRequests \cup MfaGets \cup MfaPosts
  /\ \A h \in Verifications :
       h \notin PinRequests \cup ChainRequests \cup Logins \cup TokenRequests
                \cup MfaGets \cup MfaPosts
  /\ \A h \in PinRequests :
       h \notin ChainRequests \cup Logins \cup TokenRequests \cup MfaGets \cup MfaPosts
  /\ \A h \in ChainRequests : h \notin Logins \cup TokenRequests \cup MfaGets \cup MfaPosts
  /\ \A h \in Logins : h \notin TokenRequests \cup MfaGets \cup MfaPosts
  /\ \A h \in TokenRequests : h \notin MfaGets \cup MfaPosts
  /\ \A h \in MfaGets : h \notin MfaPosts
<1> DEFINE kinds == <<Parties, OtpRequests, Verifications, PinRequests, ChainRequests,
                      Logins, TokenRequests, MfaGets, MfaPosts>>
<1>1. \A i, j \in 1 .. 9 : i # j => kinds[i] \cap kinds[j] = {}
  BY AccountAssumption
<1>2. /\ kinds[1] = Parties /\ kinds[2] = OtpRequests /\ kinds[3] = Verifications
      /\ kinds[4] = PinRequests /\ kinds[5] = ChainRequests /\ kinds[6] = Logins
      /\ kinds[7] = TokenRequests /\ kinds[8] = MfaGets /\ kinds[9] = MfaPosts
  OBVIOUS
<1> HIDE DEF kinds
<1>3. \A h : \A i, j \in 1 .. 9 : i # j /\ h \in kinds[i] => h \notin kinds[j]
  BY <1>1
<1>4. None \notin Handlers
  BY AccountAssumption, ChainsAssumption DEF Handlers
<1>5. \A h \in Parties : h \notin Requests
  BY <1>2, <1>3 DEF Requests
<1> QED BY <1>2, <1>3, <1>4, <1>5

\* These are the ways a request fails.
LEMMA Failing ==
  ASSUME NEW h, RequestFails(h)
  PROVE  \/ FailsUnwritten(h) \/ FailsSaving(h) \/ FailsStoringCode(h)
         \/ FailsSavingToken(h) \/ FailsDeleting(h) \/ FailsVerifying(h)
         \/ FailsSettingPin(h) \/ FailsEnabling(h) \/ FailsStoringSecret(h)
<1>1. Throws(h)
  BY DEF RequestFails, Throws, AtWork, Resting
<1> QED BY <1>1 DEF RequestFails, FailsUnwritten, FailsSaving, FailsStoringCode,
       FailsSavingToken, FailsDeleting, FailsVerifying, FailsSettingPin, FailsEnabling,
       FailsStoringSecret

\* The accounts use the wallets as their module says.
LEMMA ChainsUsed ==
  ASSUME AccountTypeOK, Shape, [AccountNext]_vars
  PROVE  [ChainsNext]_chainVars
<1> USE AccountAssumption
<1>1. ASSUME NEW u \in Parties, Arrives(u) \/ RegistrationStep(u) \/ Greet(u) \/ Expire(u)
      PROVE  UNCHANGED chainVars
  BY <1>1 DEF Arrives, Register, LoginBegins, TokenBegins, OtpBegins, VerificationBegins,
     PinBegins, ChainBegins, MfaGetBegins, MfaPostBegins, RegistrationStep, CheckExisting,
     SaveAccount, AccountSaved, RegistrationOtp, OtpSaved, RegistrationToken, TokenSaved,
     Greet, Expire
<1>2. ASSUME NEW h, SessionStep(h) \/ MfaStep(h)  PROVE UNCHANGED chainVars
  BY <1>2 DEF SessionStep, MfaStep, ComparePassword, LoginToken, TokenSaved, DeleteOld,
       OldDeleted, ReadToken, MfaGetGuard, Guards, MfaRecord, MfaStore, SecretStored,
       MfaPostGuard, MfaRead, MfaVerify, MfaEnable, SecretSaved
<1>3. ASSUME NEW h, RequestFails(h)  PROVE UNCHANGED chainVars
  BY <1>3, Failing DEF FailsUnwritten, FailsSaving, FailsStoringCode, FailsSavingToken,
       FailsDeleting, FailsVerifying, FailsSettingPin, FailsEnabling, FailsStoringSecret,
       AccountSaved, OtpSaved, TokenSaved, OldDeleted, SecretStored
<1>4. ASSUME NEW h \in Creations, AtWork(h)  PROVE of[h] \in Parties
  BY <1>4 DEF AccountTypeOK, Shape, AtWork, Resting, Handlers, Requests
<1>5. ASSUME NEW h \in OtpRequests \cup Verifications, VerificationStep(h)
      PROVE  [ChainsNext]_chainVars
  <2>1. CASE Verify(h)
    <3>1. h \in Creations /\ AtWork(h)
      BY <2>1 DEF Verify, VerificationSaved, AtWork, Resting
    <3> QED BY <1>4, <2>1, <3>1 DEF Verify, ChainsNext
  <2> QED BY <1>5, <2>1 DEF VerificationStep, OtpGuard, Guards, OtpStore, OtpSaved,
     OtpSend, VerificationGuard, CompareOtp
<1>6. ASSUME NEW h \in Creations, SetupStep(h)
      PROVE  [ChainsNext]_chainVars
  <2>1. CASE SetPin(h)
    BY <1>4, <2>1 DEF SetPin, PinSaved, AtWork, Resting, ChainsNext
  <2>2. CASE ChainGuard(h)
    BY <1>4, <2>2 DEF ChainGuard, AtWork, Resting, ChainsNext
  <2> QED BY <1>6, <2>1, <2>2 DEF SetupStep, PinGuard, Guards, WalletAnswered
<1>7. ASSUME NEW c \in Creations, CreationRuns(c)  PROVE ChainsNext
  BY <1>7 DEF CreationRuns, ChainsNext
<1>8. CASE Crash
  BY <1>8 DEF Crash, ChainsNext
<1>9. CASE UNCHANGED vars
  BY <1>9 DEF vars
<1> QED BY <1>1, <1>2, <1>3, <1>5, <1>6, <1>7, <1>8, <1>9 DEF AccountNext

-----------------------------------------------------------------------------
\* The message of a registration puts the account's own code in its inbox.
LEMMA GreetKeepsTypes ==
  ASSUME AccountTypeOK, ChainsTypeOK', Shape, NEW u \in Parties, Greet(u)
  PROVE  AccountTypeOK'
<1>1. inbox' \in [Parties -> SUBSET Codes]
  <2>1. inbox \in [Parties -> SUBSET Codes] /\ u \in Codes
    BY DEF AccountTypeOK, Codes
  <2> QED BY <2>1 DEF Greet
<1>2. greeting' \in [Parties -> {"none", "sent", "done"}]
  BY DEF AccountTypeOK, Greet
<1> QED BY <1>1, <1>2 DEF AccountTypeOK, Greet, documents, sessions, factor, request

\* What expires leaves its entry of the memory store empty.
LEMMA ExpireKeepsTypes ==
  ASSUME AccountTypeOK, ChainsTypeOK', Shape, NEW u \in Parties, Expire(u)
  PROVE  AccountTypeOK'
<1>1. otp' \in [Parties -> Codes \cup {None}] /\ mfa' \in [Parties -> MfaGets \cup {None}]
  BY DEF AccountTypeOK, Expire
<1> QED BY <1>1 DEF AccountTypeOK, Expire, documents, sessions, request

\* A sign-in goes on to its token or is refused.
LEMMA ComparePasswordKeepsTypes ==
  ASSUME AccountTypeOK, ChainsTypeOK', Shape, NEW h \in Logins \cup TokenRequests,
         ComparePassword(h)
  PROVE  AccountTypeOK'
<1>1. h \in Handlers /\ {"token", "refused"} \subseteq Steps \cup Resting
  BY DEF Handlers, Requests, Steps, Resting
<1>2. pc' \in [Handlers -> Steps \cup Resting]
  BY <1>1 DEF AccountTypeOK, ComparePassword, Moves, Goes
<1> QED BY <1>2 DEF AccountTypeOK, ComparePassword, Moves, documents, codes, sessions,
   factor

\* A sign-in's token is one of the tokens, held at once or after the old one's deletion.
LEMMA LoginTokenKeepsTypes ==
  ASSUME AccountTypeOK, ChainsTypeOK', Shape, NEW h \in Logins \cup TokenRequests,
         LoginToken(h)
  PROVE  AccountTypeOK'
<1>1. h \in Handlers /\ h \in Tokens /\ {"done", "delete"} \subseteq Steps \cup Resting
  BY DEF Handlers, Requests, Tokens, Steps, Resting, LoginToken
<1>2. pc' \in [Handlers -> Steps \cup Resting]
  BY <1>1 DEF AccountTypeOK, LoginToken, Moves, Goes
<1>3. held' \in [Parties -> Tokens \cup {None}]
  BY <1>1 DEF AccountTypeOK, LoginToken, Answered
<1>4. tokens' \subseteq Tokens
  BY <1>1 DEF AccountTypeOK, LoginToken, TokenSaved
<1> QED BY <1>2, <1>3, <1>4 DEF AccountTypeOK, LoginToken, TokenSaved, Moves, documents,
       codes, factor

\* Only an OTP request sends a code, its own.
LEMMA OtpSendKeepsTypes ==
  ASSUME AccountTypeOK, ChainsTypeOK', Shape, NEW h \in OtpRequests \cup Verifications,
         OtpSend(h)
  PROVE  AccountTypeOK'
<1>1. h \in Handlers /\ h \in OtpRequests
  BY Names DEF Handlers, Requests, OtpSend, AccountTypeOK, Shape, StepsOf, Resting
<1>2. pc' \in [Handlers -> Steps \cup Resting]
  BY <1>1 DEF AccountTypeOK, OtpSend, Moves, Goes, Resting
<1>3. inbox' \in [Parties -> SUBSET Codes]
  <2>1. inbox \in [Parties -> SUBSET Codes] /\ h \in Codes
    BY <1>1 DEF AccountTypeOK, Codes
  <2> QED BY <2>1 DEF OtpSend
<1> QED BY <1>2, <1>3 DEF AccountTypeOK, OtpSend, Moves, documents, sessions, factor

\* A verification changes one account document.
LEMMA VerifyKeepsTypes ==
  ASSUME AccountTypeOK, ChainsTypeOK', Shape, NEW h \in OtpRequests \cup Verifications,
         Verify(h)
  PROVE  AccountTypeOK'
<1>1. h \in Handlers /\ of[h] \in Parties /\ {"done", "wallet"} \subseteq Steps \cup Resting
  BY DEF Handlers, Requests, Verify, VerificationSaved, AccountTypeOK, Shape, Steps,
     Resting
<1>2. pc' \in [Handlers -> Steps \cup Resting]
  BY <1>1 DEF AccountTypeOK, Verify, Moves, Goes
<1>3. verified' \subseteq Parties \ Merchants /\ active' \subseteq Parties
  BY <1>1 DEF AccountTypeOK, Verify, VerificationSaved
<1> QED BY <1>2, <1>3 DEF AccountTypeOK, Verify, VerificationSaved, Moves, codes,
   sessions, factor

\* The guard of a new chain refuses the request or calls for the wallet.
LEMMA ChainGuardKeepsTypes ==
  ASSUME AccountTypeOK, ChainsTypeOK', Shape, NEW h \in Creations, ChainGuard(h)
  PROVE  AccountTypeOK'
<1>1. h \in Handlers /\ {"refused", "wallet"} \subseteq Steps \cup Resting
  BY DEF Handlers, Requests, ChainGuard, Steps, Resting
<1>2. pc' \in [Handlers -> Steps \cup Resting] /\ UNCHANGED <<of, beside>>
  BY <1>1 DEF AccountTypeOK, ChainGuard, Moves, Goes
<1> QED BY <1>2 DEF AccountTypeOK, ChainGuard, documents, codes, sessions, factor

\* A wallet's creation was called for by a request about an account.
LEMMA WalletAnsweredKeepsTypes ==
  ASSUME AccountTypeOK, ChainsTypeOK', Shape, NEW h \in Creations, WalletAnswered(h)
  PROVE  AccountTypeOK'
<1>1. /\ h \in Handlers /\ {"done", "failed"} \subseteq Steps \cup Resting
      /\ of[h] \in Parties
  BY AccountAssumption DEF Handlers, Requests, WalletAnswered, AccountTypeOK, Shape,
     Steps, Resting
<1>2. pc' \in [Handlers -> Steps \cup Resting] /\ UNCHANGED <<of, beside>>
  BY <1>1 DEF AccountTypeOK, WalletAnswered, Moves, Goes
<1>3. faulted' \subseteq Parties
  BY <1>1 DEF AccountTypeOK, WalletAnswered, Faults
<1> QED BY <1>2, <1>3 DEF AccountTypeOK, WalletAnswered, documents, codes, sessions,
   factor

\* Only a GET of a secret stores and shows one, its own.
LEMMA MfaStoreKeepsTypes ==
  ASSUME AccountTypeOK, ChainsTypeOK', Shape, NEW h \in MfaGets \cup MfaPosts,
         MfaStore(h)
  PROVE  AccountTypeOK'
<1>1. h \in Handlers /\ h \in MfaGets
  BY Names DEF Handlers, Requests, MfaStore, SecretStored, AccountTypeOK, Shape, StepsOf,
     Resting
<1>2. pc' \in [Handlers -> Steps \cup Resting]
  BY <1>1 DEF AccountTypeOK, MfaStore, Moves, Goes, Resting
<1>3. shown' \in [Parties -> SUBSET MfaGets]
  <2>1. shown \in [Parties -> SUBSET MfaGets]
    BY <1>1 DEF AccountTypeOK
  <2> QED BY <1>1, <2>1 DEF MfaStore
<1>4. /\ mfa' \in [Parties -> MfaGets \cup {None}]
      /\ latest' \in [Parties -> MfaGets \cup {None}]
  BY <1>1 DEF AccountTypeOK, MfaStore, SecretStored
<1> QED BY <1>2, <1>3, <1>4 DEF AccountTypeOK, MfaStore, SecretStored, Moves, documents,
       codes, sessions

\* A POST reads the secret the store holds for its account.
LEMMA MfaReadKeepsTypes ==
  ASSUME AccountTypeOK, ChainsTypeOK', Shape, NEW h \in MfaGets \cup MfaPosts,
         MfaRead(h)
  PROVE  AccountTypeOK'
<1>1. h \in Handlers /\ of[h] \in Parties /\ {"refused", "verify"} \subseteq Steps \cup Resting
  BY DEF Handlers, Requests, MfaRead, AccountTypeOK, Shape, Steps, Resting
<1>2. pc' \in [Handlers -> Steps \cup Resting] /\ UNCHANGED <<of, beside>>
  BY <1>1 DEF AccountTypeOK, MfaRead, Moves, Goes
<1>3. read' \in [MfaPosts -> MfaGets \cup {None}]
  BY <1>1 DEF AccountTypeOK, MfaRead
<1> QED BY <1>2, <1>3 DEF AccountTypeOK, MfaRead, documents, codes, sessions

\* Only a registration saves an account, and it is about an account.
LEMMA FailsSavingKeepsTypes ==
  ASSUME AccountTypeOK, ChainsTypeOK', Shape, NEW h \in Handlers, FailsSaving(h)
  PROVE  AccountTypeOK'
<1>1. h \in Parties /\ of[h] \in Parties /\ "failed" \in Resting
  <2>1. h \in Handlers /\ pc[h] \in StepsOf(h) \cup Resting /\ pc[h] = "save"
    BY DEF Shape, FailsSaving, AccountSaved
  <2>2. h \in Parties
    BY <2>1, Names DEF StepsOf, Resting, Handlers, Requests
  <2> QED BY <2>1, <2>2 DEF AccountTypeOK, Shape, Resting
<1>2. pc' \in [Handlers -> Steps \cup Resting] /\ UNCHANGED <<of, beside>>
  BY <1>1 DEF AccountTypeOK, FailsSaving, Throws, Moves, Goes, Handlers
<1>3. faulted' \subseteq Parties /\ accounts' \subseteq Parties
  BY <1>1 DEF AccountTypeOK, FailsSaving, Throws, AccountSaved, Faults
<1> QED BY <1>2, <1>3 DEF AccountTypeOK, FailsSaving, AccountSaved, codes, sessions,
   factor

\* Only a registration or an OTP request stores a code.
LEMMA FailsStoringCodeKeepsTypes ==
  ASSUME AccountTypeOK, ChainsTypeOK', Shape, NEW h \in Handlers, FailsStoringCode(h)
  PROVE  AccountTypeOK'
<1>1. h \in Codes /\ of[h] \in Parties /\ "failed" \in Resting
  <2>1. h \in Handlers /\ pc[h] \in StepsOf(h) \cup Resting /\ pc[h] = "otp"
    BY DEF Shape, FailsStoringCode, OtpSaved
  <2>2. h \in Codes
    BY <2>1, Names DEF StepsOf, Resting, Handlers, Requests, Codes
  <2> QED BY <2>1, <2>2 DEF AccountTypeOK, Shape, Resting
<1>2. pc' \in [Handlers -> Steps \cup Resting] /\ UNCHANGED <<of, beside>>
  BY <1>1 DEF AccountTypeOK, FailsStoringCode, Throws, Moves, Goes, Handlers
<1>3. faulted' \subseteq Parties
  BY <1>1 DEF AccountTypeOK, FailsStoringCode, Throws, Faults
<1>4. otp' \in [Parties -> Codes \cup {None}] /\ issued' \in [Parties -> Codes \cup {None}]
  BY <1>1 DEF AccountTypeOK, FailsStoringCode, OtpSaved
<1> QED BY <1>2, <1>3, <1>4 DEF AccountTypeOK, FailsStoringCode, OtpSaved, documents,
       sessions, factor

\* Only a registration or a sign-in saves a token.
LEMMA FailsSavingTokenKeepsTypes ==
  ASSUME AccountTypeOK, ChainsTypeOK', Shape, NEW h \in Handlers, FailsSavingToken(h)
  PROVE  AccountTypeOK'
<1>1. h \in Tokens /\ of[h] \in Parties /\ "failed" \in Resting
  <2>1. h \in Handlers /\ pc[h] \in StepsOf(h) \cup Resting /\ pc[h] = "token"
    BY DEF Shape, FailsSavingToken, TokenSaved
  <2>2. h \in Tokens
    BY <2>1, Names DEF StepsOf, Resting, Handlers, Requests, Tokens
  <2> QED BY <2>1, <2>2 DEF AccountTypeOK, Shape, Resting
<1>2. pc' \in [Handlers -> Steps \cup Resting] /\ UNCHANGED <<of, beside>>
  BY <1>1 DEF AccountTypeOK, FailsSavingToken, Throws, Moves, Goes, Handlers
<1>3. faulted' \subseteq Parties /\ tokens' \subseteq Tokens
  BY <1>1 DEF AccountTypeOK, FailsSavingToken, Throws, TokenSaved, Faults
<1> QED BY <1>2, <1>3 DEF AccountTypeOK, FailsSavingToken, TokenSaved, documents, codes,
       factor

\* Only a GET of a secret stores one.
LEMMA FailsStoringSecretKeepsTypes ==
  ASSUME AccountTypeOK, ChainsTypeOK', Shape, NEW h \in Handlers, FailsStoringSecret(h)
  PROVE  AccountTypeOK'
<1>1. h \in MfaGets /\ of[h] \in Parties /\ "failed" \in Resting
  <2>1. h \in Handlers /\ pc[h] \in StepsOf(h) \cup Resting /\ pc[h] = "store"
    BY DEF Shape, FailsStoringSecret, SecretStored
  <2>2. h \in MfaGets
    BY <2>1, Names DEF StepsOf, Resting, Handlers, Requests
  <2> QED BY <2>1, <2>2 DEF AccountTypeOK, Shape, Resting
<1>2. pc' \in [Handlers -> Steps \cup Resting] /\ UNCHANGED <<of, beside>>
  BY <1>1 DEF AccountTypeOK, FailsStoringSecret, Throws, Moves, Goes, Handlers
<1>3. faulted' \subseteq Parties
  BY <1>1 DEF AccountTypeOK, FailsStoringSecret, Throws, Faults
<1>4. mfa' \in [Parties -> MfaGets \cup {None}]
  BY <1>1 DEF AccountTypeOK, FailsStoringSecret, SecretStored
<1> QED BY <1>2, <1>3, <1>4 DEF AccountTypeOK, FailsStoringSecret, SecretStored,
   documents, codes, sessions

\* Each step assigns values of the right types; the wallets' are their own matter.
LEMMA TypesStep ==
  ASSUME AccountTypeOK, ChainsTypeOK', Shape, [AccountNext]_vars
  PROVE  AccountTypeOK'
<1>1. CASE UNCHANGED accountVars
  BY <1>1 DEF AccountTypeOK, accountVars, documents, codes, sessions, factor, request
<1>2. CASE UNCHANGED vars
  BY <1>1, <1>2 DEF vars, accountVars
<1>3. ASSUME NEW u \in Parties, Register(u)  PROVE AccountTypeOK'
  BY <1>3 DEF AccountTypeOK, Handlers, Steps, Register, documents, codes, sessions,
     factor, Begins, Goes
<1>4. ASSUME NEW h \in Logins, NEW u \in Parties, LoginBegins(h, u)
      PROVE  AccountTypeOK'
  BY <1>4 DEF AccountTypeOK, Handlers, Requests, Steps, LoginBegins, Given, documents,
     codes, factor, Begins, Goes
<1>5. ASSUME NEW h \in TokenRequests, NEW u \in Parties, TokenBegins(h, u)
      PROVE  AccountTypeOK'
  BY <1>5 DEF AccountTypeOK, Handlers, Requests, Steps, TokenBegins, documents, codes,
     factor, Begins, Goes
<1>6. ASSUME NEW h \in OtpRequests, NEW u \in Parties, OtpBegins(h, u)
      PROVE  AccountTypeOK'
  BY <1>6 DEF AccountTypeOK, Handlers, Requests, Steps, OtpBegins, documents, codes,
     sessions, factor, Authorised, Begins, Goes
<1>7. ASSUME NEW h \in Verifications, NEW u \in Parties, VerificationBegins(h, u)
      PROVE  AccountTypeOK'
  BY <1>7 DEF AccountTypeOK, Handlers, Requests, Steps, VerificationBegins, documents,
     sessions, factor, Authorised, Begins, Goes
<1>8. ASSUME NEW h \in PinRequests, NEW u \in Parties, PinBegins(h, u)
      PROVE  AccountTypeOK'
  BY <1>8 DEF AccountTypeOK, Handlers, Requests, Steps, PinBegins, documents, codes,
     sessions, factor, Authorised, Begins, Goes
<1>9. ASSUME NEW h \in ChainRequests, NEW u \in Parties, ChainBegins(h, u)
      PROVE  AccountTypeOK'
  BY <1>9 DEF AccountTypeOK, Handlers, Requests, Steps, ChainBegins, documents, codes,
     sessions, factor, Authorised, Begins, Goes
<1>10. ASSUME NEW h \in MfaGets, NEW u \in Parties, MfaGetBegins(h, u)
      PROVE  AccountTypeOK'
  BY <1>10 DEF AccountTypeOK, Handlers, Requests, Steps, MfaGetBegins, documents, codes,
     sessions, factor, Authorised, Begins, Goes
<1>11. ASSUME NEW h \in MfaPosts, NEW u \in Parties, MfaPostBegins(h, u)
      PROVE  AccountTypeOK'
  BY <1>11 DEF AccountTypeOK, Handlers, Requests, Steps, MfaPostBegins, documents,
     codes, sessions, Authorised, Begins, Goes
<1>12. ASSUME NEW u \in Parties, CheckExisting(u)  PROVE AccountTypeOK'
  BY <1>12, Names DEF AccountTypeOK, Handlers, Resting, Tokens, Steps, UserRequests,
     CheckExisting, documents, codes, sessions, factor, Moves, Goes
<1>13. ASSUME NEW u \in Parties, SaveAccount(u)  PROVE AccountTypeOK'
  BY <1>13 DEF AccountTypeOK, Handlers, Steps, SaveAccount, Moves, AccountSaved, Goes,
     codes, sessions, factor
<1>14. ASSUME NEW u \in Parties, RegistrationOtp(u)  PROVE AccountTypeOK'
  BY <1>14 DEF AccountTypeOK, Shape, Handlers, Codes, Steps, RegistrationOtp, Moves,
     OtpSaved, Goes, documents, sessions, factor
<1>15. ASSUME NEW u \in Parties, RegistrationToken(u)  PROVE AccountTypeOK'
  BY <1>15 DEF AccountTypeOK, Shape, Handlers, Resting, Tokens, RegistrationToken,
     Moves, TokenSaved, Answered, Goes, documents, codes, factor
<1>16. ASSUME NEW u \in Parties, Greet(u)  PROVE AccountTypeOK'
  BY <1>16, GreetKeepsTypes
<1>17. ASSUME NEW u \in Parties, Expire(u)  PROVE AccountTypeOK'
  BY <1>17, ExpireKeepsTypes
<1>18. ASSUME NEW h \in Logins \cup TokenRequests, ComparePassword(h)
      PROVE  AccountTypeOK'
  BY <1>18, ComparePasswordKeepsTypes
<1>19. ASSUME NEW h \in Logins \cup TokenRequests, LoginToken(h)  PROVE AccountTypeOK'
  BY <1>19, LoginTokenKeepsTypes
<1>20. ASSUME NEW h \in Logins \cup TokenRequests, DeleteOld(h)  PROVE AccountTypeOK'
  BY <1>20, Names DEF AccountTypeOK, Shape, Handlers, Requests, Resting, AtWork, Codes,
     Tokens, Steps, StepsOf, UserRequests, DeleteOld, Moves, Answered, OldDeleted, Goes,
     documents, codes, factor, chainVars
<1>21. ASSUME NEW h \in Logins \cup TokenRequests, ReadToken(h)  PROVE AccountTypeOK'
  BY <1>21 DEF AccountTypeOK, Handlers, Requests, Resting, ReadToken, documents, codes,
     sessions, factor, Moves, Goes
<1>22. ASSUME NEW h \in OtpRequests \cup Verifications, OtpGuard(h)
      PROVE  AccountTypeOK'
  BY <1>22 DEF AccountTypeOK, Handlers, Requests, Resting, Steps, OtpGuard, Guards,
     documents, codes, sessions, factor, Moves, Goes
<1>23. ASSUME NEW h \in OtpRequests \cup Verifications, OtpStore(h)
      PROVE  AccountTypeOK'
  BY <1>23 DEF AccountTypeOK, Shape, Handlers, Requests, Codes, Steps, OtpStore, Moves,
     OtpSaved, Goes, documents, sessions, factor
<1>24. ASSUME NEW h \in OtpRequests \cup Verifications, OtpSend(h)  PROVE AccountTypeOK'
  BY <1>24, OtpSendKeepsTypes
<1>25. ASSUME NEW h \in OtpRequests \cup Verifications, VerificationGuard(h)
      PROVE  AccountTypeOK'
  BY <1>25 DEF AccountTypeOK, Handlers, Requests, Resting, Steps, VerificationGuard,
     Guards, documents, codes, sessions, factor, Moves, Goes
<1>26. ASSUME NEW h \in OtpRequests \cup Verifications, CompareOtp(h)
      PROVE  AccountTypeOK'
  BY <1>26 DEF AccountTypeOK, Handlers, Requests, Resting, Steps, CompareOtp, documents,
     codes, sessions, factor, Moves, Goes
<1>27. ASSUME NEW h \in OtpRequests \cup Verifications, Verify(h)  PROVE AccountTypeOK'
  BY <1>27, VerifyKeepsTypes
<1>28. ASSUME NEW h \in Creations, PinGuard(h)  PROVE AccountTypeOK'
  BY <1>28 DEF AccountTypeOK, Handlers, Requests, Resting, Steps, PinGuard, Guards,
     documents, codes, sessions, factor, Moves, Goes
<1>29. ASSUME NEW h \in Creations, SetPin(h)  PROVE AccountTypeOK'
  BY <1>29 DEF AccountTypeOK, Shape, Handlers, Requests, Steps, SetPin, Moves, PinSaved,
     Goes, codes, sessions, factor
<1>30. ASSUME NEW h \in Creations, ChainGuard(h)  PROVE AccountTypeOK'
  BY <1>30, ChainGuardKeepsTypes
<1>31. ASSUME NEW h \in Creations, WalletAnswered(h)  PROVE AccountTypeOK'
  BY <1>31, WalletAnsweredKeepsTypes
<1>32. ASSUME NEW h \in MfaGets \cup MfaPosts, MfaGetGuard(h)  PROVE AccountTypeOK'
  BY <1>32 DEF AccountTypeOK, Handlers, Requests, Resting, Steps, MfaGetGuard, Guards,
     documents, codes, sessions, factor, Moves, Goes
<1>33. ASSUME NEW h \in MfaGets \cup MfaPosts, MfaRecord(h)  PROVE AccountTypeOK'
  BY <1>33 DEF AccountTypeOK, Handlers, Requests, Steps, MfaRecord, documents, codes,
     sessions, factor, Moves, Goes
<1>34. ASSUME NEW h \in MfaGets \cup MfaPosts, MfaStore(h)  PROVE AccountTypeOK'
  BY <1>34, MfaStoreKeepsTypes
<1>35. ASSUME NEW h \in MfaGets \cup MfaPosts, MfaPostGuard(h)  PROVE AccountTypeOK'
  BY <1>35 DEF AccountTypeOK, Handlers, Requests, Resting, Steps, MfaPostGuard, Guards,
     documents, codes, sessions, factor, Moves, Goes
<1>36. ASSUME NEW h \in MfaGets \cup MfaPosts, MfaRead(h)  PROVE AccountTypeOK'
  BY <1>36, MfaReadKeepsTypes
<1>37. ASSUME NEW h \in MfaGets \cup MfaPosts, MfaVerify(h)  PROVE AccountTypeOK'
  BY <1>37 DEF AccountTypeOK, Handlers, Requests, Resting, Steps, MfaVerify, documents,
     codes, sessions, factor, Moves, Goes
<1>38. ASSUME NEW h \in MfaGets \cup MfaPosts, MfaEnable(h)  PROVE AccountTypeOK'
  BY <1>38 DEF AccountTypeOK, Shape, Handlers, Requests, Resting, MfaEnable, Moves,
     SecretSaved, Goes, documents, codes, sessions
<1>39. ASSUME NEW h \in Handlers, FailsUnwritten(h)  PROVE AccountTypeOK'
  BY <1>39 DEF AccountTypeOK, Shape, Resting, AtWork, FailsUnwritten, documents, codes,
     sessions, factor, Throws, Moves, Faults, Goes
<1>40. ASSUME NEW h \in Handlers, FailsSaving(h)  PROVE AccountTypeOK'
  BY <1>40, FailsSavingKeepsTypes
<1>41. ASSUME NEW h \in Handlers, FailsStoringCode(h)  PROVE AccountTypeOK'
  BY <1>41, FailsStoringCodeKeepsTypes
<1>42. ASSUME NEW h \in Handlers, FailsSavingToken(h)  PROVE AccountTypeOK'
  BY <1>42, FailsSavingTokenKeepsTypes
<1>43. ASSUME NEW h \in Handlers, FailsDeleting(h)  PROVE AccountTypeOK'
  BY <1>43 DEF AccountTypeOK, Shape, Resting, FailsDeleting, OldDeleted, Throws,
     documents, codes, factor, Moves, Faults, Goes
<1>44. ASSUME NEW h \in Handlers, FailsVerifying(h)  PROVE AccountTypeOK'
  BY <1>44 DEF AccountTypeOK, Shape, Resting, FailsVerifying, VerificationSaved, Throws,
     codes, sessions, factor, Moves, Faults, Goes
<1>45. ASSUME NEW h \in Handlers, FailsSettingPin(h)  PROVE AccountTypeOK'
  BY <1>45 DEF AccountTypeOK, Shape, Resting, FailsSettingPin, PinSaved, Throws, codes,
     sessions, factor, Moves, Faults, Goes
<1>46. ASSUME NEW h \in Handlers, FailsEnabling(h)  PROVE AccountTypeOK'
  BY <1>46 DEF AccountTypeOK, Shape, Resting, FailsEnabling, SecretSaved, Throws,
     documents, codes, sessions, Moves, Faults, Goes
<1>47. ASSUME NEW h \in Handlers, FailsStoringSecret(h)  PROVE AccountTypeOK'
  BY <1>47, FailsStoringSecretKeepsTypes
<1>48. CASE Crash
  BY <1>48 DEF AccountTypeOK, Shape, Resting, AtWork, Crash, documents, sessions, factor
<1>49. ASSUME NEW h \in Handlers, RequestFails(h)  PROVE AccountTypeOK'
  BY <1>49, Failing, <1>39, <1>40, <1>41, <1>42, <1>43, <1>44, <1>45, <1>46, <1>47
<1> QED BY <1>1, <1>2, <1>3, <1>4, <1>5, <1>6, <1>7, <1>8, <1>9, <1>10, <1>11, <1>12,
   <1>13, <1>14, <1>15, <1>16, <1>17, <1>18, <1>19, <1>20, <1>21, <1>22, <1>23, <1>24,
   <1>25, <1>26, <1>27, <1>28, <1>29, <1>30, <1>31, <1>32, <1>33, <1>34, <1>35, <1>36,
   <1>37, <1>38, <1>48, <1>49 DEF AccountNext, Arrives, RegistrationStep, SessionStep,
   VerificationStep, SetupStep, MfaStep, CreationRuns, vars

\* A GET goes on to an operation of its kind.
LEMMA MfaRecordKeepsShape ==
  ASSUME AccountTypeOK, Shape, NEW h \in MfaGets \cup MfaPosts, MfaRecord(h)
  PROVE  Shape'
<1>1. h \in MfaGets /\ of[h] # None
  BY Names DEF Shape, MfaRecord, StepsOf, Resting, Handlers, Requests
<1>2. /\ \A g \in Handlers \ {h} : pc'[g] = pc[g]
      /\ pc'[h] = "store" /\ UNCHANGED <<of, beside>>
  BY <1>1 DEF AccountTypeOK, MfaRecord, Moves, Goes, Handlers, Requests
<1>3. "store" \in StepsOf(h)
  BY <1>1, Names DEF StepsOf, Requests
<1>4. ASSUME NEW g \in Handlers
      PROVE  /\ pc'[g] \in StepsOf(g) \cup Resting
             /\ pc'[g] = "idle" <=> of[g] = None
             /\ pc'[g] = "idle" => beside[g] = {}
             /\ \A f \in beside[g] : pc'[f] # "idle"
  <2>1. \A f \in beside[g] : f \in Handlers
    BY DEF AccountTypeOK
  <2> QED BY <1>1, <1>2, <1>3, <2>1 DEF Shape
<1> QED BY <1>2, <1>4 DEF Shape

\* The program counters keep telling what they told.
LEMMA ShapeStep ==
  ASSUME AccountTypeOK, Shape, [AccountNext]_vars
  PROVE  Shape'
<1>1. CASE UNCHANGED <<pc, of, beside>>
  BY <1>1 DEF Shape
<1>2. CASE UNCHANGED vars
  BY <1>1, <1>2 DEF vars, accountVars, documents, codes, sessions, factor, request,
     chainVars
<1>3. ASSUME NEW u \in Parties, Greet(u) \/ Expire(u)
      PROVE  Shape'
  BY <1>1, <1>3 DEF Greet, documents, sessions, factor, request, chainVars, Expire
<1>4. ASSUME NEW c \in Creations, CreationRuns(c)
      PROVE  Shape'
  BY <1>1, <1>4 DEF CreationRuns, accountVars, documents, codes, sessions, factor,
     request
<1>5. ASSUME NEW u \in Parties, Register(u)  PROVE Shape'
  BY <1>5, Names DEF AccountTypeOK, Requests, Shape, StepsOf, UserRequests, Register,
     Begins, Goes
<1>6. ASSUME NEW h \in Logins, NEW u \in Parties, LoginBegins(h, u)  PROVE Shape'
  BY <1>6, Names DEF AccountTypeOK, Handlers, Requests, Shape, StepsOf, UserRequests,
     LoginBegins, Begins, Goes
<1>7. ASSUME NEW h \in TokenRequests, NEW u \in Parties, TokenBegins(h, u)  PROVE Shape'
  BY <1>7, Names DEF AccountTypeOK, Handlers, Requests, Shape, StepsOf, UserRequests,
     TokenBegins, Begins, Goes
<1>8. ASSUME NEW h \in OtpRequests, NEW u \in Parties, OtpBegins(h, u)  PROVE Shape'
  BY <1>8, Names DEF AccountTypeOK, Handlers, Requests, Shape, StepsOf, UserRequests,
     OtpBegins, Authorised, Begins, Goes
<1>9. ASSUME NEW h \in Verifications, NEW u \in Parties, VerificationBegins(h, u)
      PROVE  Shape'
  BY <1>9, Names DEF AccountTypeOK, Handlers, Requests, Shape, StepsOf, UserRequests,
     VerificationBegins, Authorised, Begins, Goes
<1>10. ASSUME NEW h \in PinRequests, NEW u \in Parties, PinBegins(h, u)  PROVE Shape'
  BY <1>10, Names DEF AccountTypeOK, Handlers, Requests, Shape, StepsOf, PinBegins,
     Authorised, Begins, Goes
<1>11. ASSUME NEW h \in ChainRequests, NEW u \in Parties, ChainBegins(h, u)
      PROVE  Shape'
  BY <1>11, Names DEF AccountTypeOK, Handlers, Requests, Shape, StepsOf, ChainBegins,
     Authorised, Begins, Goes
<1>12. ASSUME NEW h \in MfaGets, NEW u \in Parties, MfaGetBegins(h, u)  PROVE Shape'
  BY <1>12, Names DEF AccountTypeOK, Handlers, Requests, Shape, StepsOf, MfaGetBegins,
     Authorised, Begins, Goes
<1>13. ASSUME NEW h \in MfaPosts, NEW u \in Parties, MfaPostBegins(h, u)  PROVE Shape'
  BY <1>13, Names DEF AccountTypeOK, Handlers, Requests, Shape, StepsOf, MfaPostBegins,
     Authorised, Begins, Goes
<1>14. ASSUME NEW u \in Parties, CheckExisting(u)  PROVE Shape'
  BY <1>14 DEF AccountTypeOK, Requests, Resting, Shape, StepsOf, CheckExisting, Moves,
     Goes
<1>15. ASSUME NEW u \in Parties, SaveAccount(u)  PROVE Shape'
  BY <1>15 DEF Shape, StepsOf, SaveAccount, Moves, AccountSaved, Goes
<1>16. ASSUME NEW u \in Parties, RegistrationOtp(u)  PROVE Shape'
  BY <1>16 DEF Shape, StepsOf, RegistrationOtp, Moves, OtpSaved, Goes
<1>17. ASSUME NEW u \in Parties, RegistrationToken(u)  PROVE Shape'
  BY <1>17 DEF Resting, Shape, RegistrationToken, Moves, TokenSaved, Goes
<1>18. ASSUME NEW h \in Logins \cup TokenRequests, ComparePassword(h)  PROVE Shape'
  BY <1>18 DEF AccountTypeOK, Resting, AtWork, Shape, StepsOf, ComparePassword, codes,
     factor, Moves, chainVars, Goes
<1>19. ASSUME NEW h \in Logins \cup TokenRequests, LoginToken(h)  PROVE Shape'
  BY <1>19, Names DEF AccountTypeOK, Requests, Resting, Shape, StepsOf, UserRequests,
     LoginToken, Moves, TokenSaved, Goes
<1>20. ASSUME NEW h \in Logins \cup TokenRequests, DeleteOld(h)  PROVE Shape'
  BY <1>20 DEF Resting, Shape, DeleteOld, Moves, OldDeleted, Goes
<1>21. ASSUME NEW h \in Logins \cup TokenRequests, ReadToken(h)  PROVE Shape'
  BY <1>21 DEF Resting, Shape, ReadToken, Moves, Goes
<1>22. ASSUME NEW h \in OtpRequests \cup Verifications, OtpGuard(h)  PROVE Shape'
  BY <1>22, Names DEF Resting, Shape, StepsOf, OtpGuard, Guards, Moves, Goes
<1>23. ASSUME NEW h \in OtpRequests \cup Verifications, OtpStore(h)  PROVE Shape'
  BY <1>23, Names DEF Requests, Shape, StepsOf, OtpStore, Moves, OtpSaved, Goes
<1>24. ASSUME NEW h \in OtpRequests \cup Verifications, OtpSend(h)  PROVE Shape'
  BY <1>24 DEF Resting, Shape, OtpSend, Moves, Goes
<1>25. ASSUME NEW h \in OtpRequests \cup Verifications, VerificationGuard(h)
      PROVE  Shape'
  BY <1>25, Names DEF Requests, Resting, Shape, StepsOf, VerificationGuard, Guards,
     Moves, Goes
<1>26. ASSUME NEW h \in OtpRequests \cup Verifications, CompareOtp(h)  PROVE Shape'
  BY <1>26, Names DEF Requests, Resting, Shape, StepsOf, UserRequests, CompareOtp,
     codes, Moves, Goes
<1>27. ASSUME NEW h \in OtpRequests \cup Verifications, Verify(h)  PROVE Shape'
  BY <1>27 DEF AccountTypeOK, Resting, Shape, StepsOf, Verify, Moves, VerificationSaved,
     Goes
<1>28. ASSUME NEW h \in Creations, PinGuard(h)  PROVE Shape'
  BY <1>28, Names DEF Requests, Resting, Shape, StepsOf, PinGuard, Guards, Moves, Goes
<1>29. ASSUME NEW h \in Creations, SetPin(h)  PROVE Shape'
  BY <1>29 DEF Resting, Shape, StepsOf, SetPin, Moves, PinSaved, Goes
<1>30. ASSUME NEW h \in Creations, ChainGuard(h)  PROVE Shape'
  BY <1>30, AccountAssumption DEF AccountTypeOK, Resting, Shape, StepsOf, ChainGuard,
     Moves, BeginCreation, Goes
<1>31. ASSUME NEW h \in Creations, WalletAnswered(h)  PROVE Shape'
  BY <1>31 DEF AccountTypeOK, Resting, Shape, StepsOf, WalletAnswered, Moves, Goes
<1>32. ASSUME NEW h \in MfaGets \cup MfaPosts, MfaGetGuard(h)  PROVE Shape'
  BY <1>32, Names DEF Resting, Shape, StepsOf, MfaGetGuard, Guards, Moves, Goes
<1>33. ASSUME NEW h \in MfaGets \cup MfaPosts, MfaRecord(h)  PROVE Shape'
  BY <1>33, MfaRecordKeepsShape
<1>34. ASSUME NEW h \in MfaGets \cup MfaPosts, MfaStore(h)  PROVE Shape'
  BY <1>34 DEF Resting, Shape, MfaStore, Moves, SecretStored, Goes
<1>35. ASSUME NEW h \in MfaGets \cup MfaPosts, MfaPostGuard(h)  PROVE Shape'
  BY <1>35, Names DEF Requests, Resting, Shape, StepsOf, MfaPostGuard, Guards, Moves,
     Goes
<1>36. ASSUME NEW h \in MfaGets \cup MfaPosts, MfaRead(h)  PROVE Shape'
  BY <1>36, Names DEF AccountTypeOK, Requests, Resting, Shape, StepsOf, MfaRead, Moves,
     Goes
<1>37. ASSUME NEW h \in MfaGets \cup MfaPosts, MfaVerify(h)  PROVE Shape'
  BY <1>37, Names DEF Resting, Shape, StepsOf, MfaVerify, Moves, Goes
<1>38. ASSUME NEW h \in MfaGets \cup MfaPosts, MfaEnable(h)  PROVE Shape'
  BY <1>38 DEF Resting, Shape, MfaEnable, Moves, SecretSaved, Goes
<1>39. ASSUME NEW h \in Handlers, FailsUnwritten(h)  PROVE Shape'
  BY <1>39 DEF Resting, AtWork, Shape, FailsUnwritten, Throws, Moves, Goes
<1>40. ASSUME NEW h \in Handlers, FailsSaving(h)  PROVE Shape'
  BY <1>40 DEF Resting, Shape, FailsSaving, AccountSaved, Throws, Moves, Goes
<1>41. ASSUME NEW h \in Handlers, FailsStoringCode(h)  PROVE Shape'
  BY <1>41 DEF Resting, Shape, FailsStoringCode, OtpSaved, Throws, Moves, Goes
<1>42. ASSUME NEW h \in Handlers, FailsSavingToken(h)  PROVE Shape'
  BY <1>42 DEF Resting, Shape, FailsSavingToken, TokenSaved, Throws, Moves, Goes
<1>43. ASSUME NEW h \in Handlers, FailsDeleting(h)  PROVE Shape'
  BY <1>43 DEF Resting, Shape, FailsDeleting, OldDeleted, Throws, Moves, Goes
<1>44. ASSUME NEW h \in Handlers, FailsVerifying(h)  PROVE Shape'
  BY <1>44 DEF Resting, Shape, FailsVerifying, VerificationSaved, Throws, Moves, Goes
<1>45. ASSUME NEW h \in Handlers, FailsSettingPin(h)  PROVE Shape'
  BY <1>45 DEF Resting, Shape, FailsSettingPin, PinSaved, Throws, Moves, Goes
<1>46. ASSUME NEW h \in Handlers, FailsEnabling(h)  PROVE Shape'
  BY <1>46 DEF Resting, Shape, FailsEnabling, SecretSaved, Throws, Moves, Goes
<1>47. ASSUME NEW h \in Handlers, FailsStoringSecret(h)  PROVE Shape'
  BY <1>47 DEF Resting, Shape, FailsStoringSecret, SecretStored, Throws, Moves, Goes
<1>48. CASE Crash
  BY <1>48 DEF AccountTypeOK, Resting, AtWork, Shape, Crash
<1>49. ASSUME NEW h \in Handlers, RequestFails(h)  PROVE Shape'
  BY <1>49, Failing, <1>39, <1>40, <1>41, <1>42, <1>43, <1>44, <1>45, <1>46, <1>47
<1> QED BY <1>1, <1>2, <1>3, <1>4, <1>5, <1>6, <1>7, <1>8, <1>9, <1>10, <1>11, <1>12,
   <1>13, <1>14, <1>15, <1>16, <1>17, <1>18, <1>19, <1>20, <1>21, <1>22, <1>23, <1>24,
   <1>25, <1>26, <1>27, <1>28, <1>29, <1>30, <1>31, <1>32, <1>33, <1>34, <1>35, <1>36,
   <1>37, <1>38, <1>48, <1>49 DEF AccountNext, Arrives, RegistrationStep, SessionStep,
   VerificationStep, SetupStep, MfaStep

\* The message of a registration only adds to the inbox.
LEMMA GreetKeepsKept ==
  ASSUME AccountTypeOK, Shape, NEW u \in Parties, Greet(u)
  PROVE  Kept
<1>1. UNCHANGED request /\ UNCHANGED <<code, old, tried, shown, documents, faulted>>
  BY DEF Greet, sessions, factor
<1>2. \A r \in Parties : inbox[r] \subseteq inbox'[r]
  BY DEF Greet, AccountTypeOK
<1> QED BY <1>1, <1>2 DEF Kept, request, documents

\* A sign-in's token takes nothing back: it is not a creation.
LEMMA LoginTokenKeepsKept ==
  ASSUME AccountTypeOK, Shape, NEW h \in Logins \cup TokenRequests, LoginToken(h)
  PROVE  Kept
<1>1. PICK s \in {"done", "delete"} : Moves(h, s)
  BY DEF LoginToken
<1>2. /\ h \in Handlers /\ h \notin Creations /\ pc[h] = "token"
      /\ UNCHANGED <<documents, codes, old, factor, faulted>>
  BY Names, AccountAssumption DEF LoginToken, TokenSaved, Handlers, Requests
<1>3. pc' = [pc EXCEPT ![h] = s] /\ UNCHANGED <<of, beside>>
  BY <1>1 DEF Moves, Goes
<1> QED BY <1>2, <1>3 DEF Kept, AccountTypeOK, documents, codes, factor

\* Nor does reading a secret.
LEMMA MfaReadKeepsKept ==
  ASSUME AccountTypeOK, Shape, NEW h \in MfaGets \cup MfaPosts, MfaRead(h)
  PROVE  Kept
<1>1. PICK s \in {"refused", "verify"} : Moves(h, s)
  BY DEF MfaRead
<1>2. /\ h \in Handlers /\ h \notin Creations /\ pc[h] = "read"
      /\ UNCHANGED <<documents, codes, sessions, shown, tried, faulted>>
  BY Names, AccountAssumption DEF MfaRead, Handlers, Requests
<1>3. pc' = [pc EXCEPT ![h] = s] /\ UNCHANGED <<of, beside>>
  BY <1>1 DEF Moves, Goes
<1> QED BY <1>2, <1>3 DEF Kept, AccountTypeOK, documents, codes, sessions

\* A crash ends the requests at work, and marks the accounts they are about.
LEMMA CrashKeepsKept ==
  ASSUME AccountTypeOK, Shape, Crash
  PROVE  Kept
<1>1. /\ \A g \in Handlers : pc'[g] = IF AtWork(g) THEN "failed" ELSE pc[g]
      /\ UNCHANGED <<of, beside, inbox, code, old, shown, tried, verified, active>>
      /\ faulted' = faulted \cup {of[g] : g \in {r \in Handlers : AtWork(r)}}
  BY DEF Crash, documents, sessions, factor
<1>2. \A c \in Creations : c \in Handlers
  BY AccountAssumption DEF Handlers, Requests
<1>3. ASSUME NEW c \in Creations, pc[c] = "wallet"  PROVE of[c] \in faulted'
  BY <1>1, <1>2, <1>3 DEF AtWork, Resting
<1> QED BY <1>1, <1>2, <1>3 DEF Kept, AtWork, Resting

\* No step takes back what a handler has done, an account reached or a client saw.
LEMMA KeptStep ==
  ASSUME AccountTypeOK, Shape, [AccountNext]_vars
  PROVE  Kept
<1>1. CASE UNCHANGED <<pc, of, beside, code, old, tried, inbox, shown, verified, active,
                        faulted>>
  BY <1>1 DEF Kept
<1>2. CASE UNCHANGED vars
  BY <1>1, <1>2 DEF vars, accountVars, documents, codes, sessions, factor, request,
     chainVars
<1>3. ASSUME NEW u \in Parties, Expire(u)
      PROVE  Kept
  BY <1>1, <1>3 DEF Expire, documents, sessions, request, chainVars
<1>4. ASSUME NEW c \in Creations, CreationRuns(c)
      PROVE  Kept
  BY <1>1, <1>4 DEF CreationRuns, accountVars, documents, codes, sessions, factor,
     request
<1>5. ASSUME NEW u \in Parties, Register(u)  PROVE Kept
  BY <1>5 DEF Kept, Register, documents, codes, sessions, factor, Begins, Goes
<1>6. ASSUME NEW h \in Logins, NEW u \in Parties, LoginBegins(h, u)  PROVE Kept
  BY <1>6 DEF Kept, LoginBegins, documents, codes, factor, Begins, Goes
<1>7. ASSUME NEW h \in TokenRequests, NEW u \in Parties, TokenBegins(h, u)  PROVE Kept
  BY <1>7 DEF Kept, TokenBegins, documents, codes, factor, Begins, Goes
<1>8. ASSUME NEW h \in OtpRequests, NEW u \in Parties, OtpBegins(h, u)  PROVE Kept
  BY <1>8 DEF Kept, OtpBegins, documents, codes, sessions, factor, Authorised, Begins,
     Goes
<1>9. ASSUME NEW h \in Verifications, NEW u \in Parties, VerificationBegins(h, u)
      PROVE  Kept
  BY <1>9 DEF Kept, VerificationBegins, documents, sessions, factor, Authorised, Begins,
     Goes
<1>10. ASSUME NEW h \in PinRequests, NEW u \in Parties, PinBegins(h, u)  PROVE Kept
  BY <1>10 DEF Kept, PinBegins, documents, codes, sessions, factor, Authorised, Begins,
     Goes
<1>11. ASSUME NEW h \in ChainRequests, NEW u \in Parties, ChainBegins(h, u)  PROVE Kept
  BY <1>11 DEF Kept, ChainBegins, documents, codes, sessions, factor, Authorised,
     Begins, Goes
<1>12. ASSUME NEW h \in MfaGets, NEW u \in Parties, MfaGetBegins(h, u)  PROVE Kept
  BY <1>12 DEF Kept, MfaGetBegins, documents, codes, sessions, factor, Authorised,
     Begins, Goes
<1>13. ASSUME NEW h \in MfaPosts, NEW u \in Parties, MfaPostBegins(h, u)  PROVE Kept
  BY <1>13 DEF Kept, MfaPostBegins, documents, codes, sessions, Authorised, Begins, Goes
<1>14. ASSUME NEW u \in Parties, CheckExisting(u)  PROVE Kept
  <2>1. CASE Moves(u, "save")
    BY <2>1, <1>14, Names DEF AccountTypeOK, Handlers, Requests, Resting, AtWork, Shape,
       Kept, StepsOf, UserRequests, CheckExisting, documents, codes, sessions, factor,
       Moves, chainVars, Goes
  <2>2. CASE Moves(u, "refused")
    BY <2>2, <1>14, Names DEF AccountTypeOK, Handlers, Requests, Resting, AtWork, Shape,
       Kept, StepsOf, UserRequests, CheckExisting, documents, codes, sessions, factor,
       Moves, chainVars, Goes
  <2> QED BY <1>14, <2>1, <2>2 DEF CheckExisting
<1>15. ASSUME NEW u \in Parties, SaveAccount(u)  PROVE Kept
  BY <1>15 DEF Kept, SaveAccount, Moves, AccountSaved, Goes, codes, sessions, factor
<1>16. ASSUME NEW u \in Parties, RegistrationOtp(u)  PROVE Kept
  BY <1>16 DEF Kept, RegistrationOtp, Moves, OtpSaved, Goes, documents, sessions, factor
<1>17. ASSUME NEW u \in Parties, RegistrationToken(u)  PROVE Kept
  BY <1>17 DEF Kept, RegistrationToken, Moves, TokenSaved, Goes, documents, codes,
     factor
<1>18. ASSUME NEW u \in Parties, Greet(u)  PROVE Kept
  BY <1>18, GreetKeepsKept
<1>19. ASSUME NEW h \in Logins \cup TokenRequests, ComparePassword(h)  PROVE Kept
  <2>1. CASE Moves(h, "token")
    BY <2>1, <1>19, Names DEF AccountTypeOK, Handlers, Requests, Resting, AtWork, Shape,
       Kept, StepsOf, UserRequests, ComparePassword, documents, codes, sessions, factor,
       Moves, chainVars, Goes
  <2>2. CASE Moves(h, "refused")
    BY <2>2, <1>19, Names DEF AccountTypeOK, Handlers, Requests, Resting, AtWork, Shape,
       Kept, StepsOf, UserRequests, ComparePassword, documents, codes, sessions, factor,
       Moves, chainVars, Goes
  <2> QED BY <1>19, <2>1, <2>2 DEF ComparePassword
<1>20. ASSUME NEW h \in Logins \cup TokenRequests, LoginToken(h)  PROVE Kept
  BY <1>20, LoginTokenKeepsKept
<1>21. ASSUME NEW h \in Logins \cup TokenRequests, DeleteOld(h)  PROVE Kept
  BY <1>21 DEF Kept, DeleteOld, Moves, OldDeleted, Goes, documents, codes, factor
<1>22. ASSUME NEW h \in Logins \cup TokenRequests, ReadToken(h)  PROVE Kept
  BY <1>22 DEF Kept, ReadToken, documents, codes, sessions, factor, Moves, Goes
<1>23. ASSUME NEW h \in OtpRequests \cup Verifications, OtpGuard(h)  PROVE Kept
  BY <1>23 DEF Kept, OtpGuard, Guards, documents, codes, sessions, factor, Moves, Goes
<1>24. ASSUME NEW h \in OtpRequests \cup Verifications, OtpStore(h)  PROVE Kept
  BY <1>24 DEF Kept, OtpStore, Moves, OtpSaved, Goes, documents, sessions, factor
<1>25. ASSUME NEW h \in OtpRequests \cup Verifications, OtpSend(h)  PROVE Kept
  BY <1>25 DEF Kept, OtpSend, documents, sessions, factor, Moves, Goes
<1>26. ASSUME NEW h \in OtpRequests \cup Verifications, VerificationGuard(h)  PROVE Kept
  BY <1>26 DEF Kept, VerificationGuard, Guards, documents, codes, sessions, factor,
     Moves, Goes
<1>27. ASSUME NEW h \in OtpRequests \cup Verifications, CompareOtp(h)  PROVE Kept
  BY <1>27 DEF Kept, CompareOtp, documents, codes, sessions, factor, Moves, Goes
<1>28. ASSUME NEW h \in OtpRequests \cup Verifications, Verify(h)  PROVE Kept
  BY <1>28, AccountAssumption DEF AccountTypeOK, Handlers, Requests, Kept, Verify,
     Moves, VerificationSaved, Goes, codes, sessions, factor
<1>29. ASSUME NEW h \in Creations, PinGuard(h)  PROVE Kept
  BY <1>29 DEF Kept, PinGuard, Guards, documents, codes, sessions, factor, Moves, Goes
<1>30. ASSUME NEW h \in Creations, SetPin(h)  PROVE Kept
  BY <1>30 DEF Kept, SetPin, Moves, PinSaved, Goes, codes, sessions, factor
<1>31. ASSUME NEW h \in Creations, ChainGuard(h)  PROVE Kept
  BY <1>31, AccountAssumption DEF AccountTypeOK, Handlers, Requests, Kept, ChainGuard,
     documents, codes, sessions, factor, Moves, Goes
<1>32. ASSUME NEW h \in Creations, WalletAnswered(h)  PROVE Kept
  BY <1>32, AccountAssumption DEF AccountTypeOK, Handlers, Requests, Kept,
     WalletAnswered, documents, codes, sessions, factor, Moves, Faults, Goes
<1>33. ASSUME NEW h \in MfaGets \cup MfaPosts, MfaGetGuard(h)  PROVE Kept
  BY <1>33 DEF Kept, MfaGetGuard, Guards, documents, codes, sessions, factor, Moves,
     Goes
<1>34. ASSUME NEW h \in MfaGets \cup MfaPosts, MfaRecord(h)  PROVE Kept
  BY <1>34 DEF Kept, MfaRecord, documents, codes, sessions, factor, Moves, Goes
<1>35. ASSUME NEW h \in MfaGets \cup MfaPosts, MfaStore(h)  PROVE Kept
  BY <1>35 DEF Kept, MfaStore, Moves, SecretStored, Goes, documents, codes, sessions
<1>36. ASSUME NEW h \in MfaGets \cup MfaPosts, MfaPostGuard(h)  PROVE Kept
  BY <1>36 DEF Kept, MfaPostGuard, Guards, documents, codes, sessions, factor, Moves,
     Goes
<1>37. ASSUME NEW h \in MfaGets \cup MfaPosts, MfaRead(h)  PROVE Kept
  BY <1>37, MfaReadKeepsKept
<1>38. ASSUME NEW h \in MfaGets \cup MfaPosts, MfaVerify(h)  PROVE Kept
  BY <1>38 DEF Kept, MfaVerify, documents, codes, sessions, factor, Moves, Goes
<1>39. ASSUME NEW h \in MfaGets \cup MfaPosts, MfaEnable(h)  PROVE Kept
  BY <1>39 DEF Kept, MfaEnable, Moves, SecretSaved, Goes, documents, codes, sessions
<1>40. ASSUME NEW h \in Handlers, FailsUnwritten(h)  PROVE Kept
  BY <1>40 DEF Resting, AtWork, Kept, FailsUnwritten, documents, codes, sessions,
     factor, Throws, Moves, Faults, Goes
<1>41. ASSUME NEW h \in Handlers, FailsSaving(h)  PROVE Kept
  BY <1>41 DEF Kept, FailsSaving, AccountSaved, Throws, codes, sessions, factor, Moves,
     Faults, Goes
<1>42. ASSUME NEW h \in Handlers, FailsStoringCode(h)  PROVE Kept
  BY <1>42 DEF Kept, FailsStoringCode, OtpSaved, Throws, documents, sessions, factor,
     Moves, Faults, Goes
<1>43. ASSUME NEW h \in Handlers, FailsSavingToken(h)  PROVE Kept
  BY <1>43 DEF Kept, FailsSavingToken, TokenSaved, Throws, documents, codes, factor,
     Moves, Faults, Goes
<1>44. ASSUME NEW h \in Handlers, FailsDeleting(h)  PROVE Kept
  BY <1>44 DEF Kept, FailsDeleting, OldDeleted, Throws, documents, codes, factor, Moves,
     Faults, Goes
<1>45. ASSUME NEW h \in Handlers, FailsVerifying(h)  PROVE Kept
  BY <1>45 DEF Kept, FailsVerifying, VerificationSaved, Throws, codes, sessions, factor,
     Moves, Faults, Goes
<1>46. ASSUME NEW h \in Handlers, FailsSettingPin(h)  PROVE Kept
  BY <1>46 DEF Kept, FailsSettingPin, PinSaved, Throws, codes, sessions, factor, Moves,
     Faults, Goes
<1>47. ASSUME NEW h \in Handlers, FailsEnabling(h)  PROVE Kept
  BY <1>47 DEF Kept, FailsEnabling, SecretSaved, Throws, documents, codes, sessions,
     Moves, Faults, Goes
<1>48. ASSUME NEW h \in Handlers, FailsStoringSecret(h)  PROVE Kept
  BY <1>48 DEF Kept, FailsStoringSecret, SecretStored, Throws, documents, codes,
     sessions, Moves, Faults, Goes
<1>49. CASE Crash
  BY <1>49, CrashKeepsKept
<1>50. ASSUME NEW h \in Handlers, RequestFails(h)  PROVE Kept
  BY <1>50, Failing, <1>40, <1>41, <1>42, <1>43, <1>44, <1>45, <1>46, <1>47, <1>48
<1> QED BY <1>1, <1>2, <1>3, <1>4, <1>5, <1>6, <1>7, <1>8, <1>9, <1>10, <1>11, <1>12,
   <1>13, <1>14, <1>15, <1>16, <1>17, <1>18, <1>19, <1>20, <1>21, <1>22, <1>23, <1>24,
   <1>25, <1>26, <1>27, <1>28, <1>29, <1>30, <1>31, <1>32, <1>33, <1>34, <1>35, <1>36,
   <1>37, <1>38, <1>39, <1>49, <1>50 DEF AccountNext, Arrives, RegistrationStep,
   SessionStep, VerificationStep, SetupStep, MfaStep

\* Steps of the wallets take nothing back.
LEMMA ChainsKeep ==
  ASSUME ChainsTypeOK, CreationShape, [ChainsNext]_chainVars
  PROVE  ChainsKept
<1> USE DEF ChainsTypeOK, ChainsKept, Resting
<1>1. ASSUME NEW c \in Creations, NEW u \in Parties, NEW k \in Chains,
             BeginCreation(c, u, k)
      PROVE  ChainsKept
  BY <1>1 DEF BeginCreation, Creates, Calls
<1>2. ASSUME NEW q \in Queries, NEW u \in Parties, NEW k \in Chains,
             BeginQuery(q, u, k)
      PROVE  ChainsKept
  <2> q \notin Creations /\ \A c \in Creations : c # q /\ c \in Calls
    BY ChainsAssumption DEF Calls
  <2> QED BY <1>2 DEF BeginQuery, creationVars
<1>3. ASSUME NEW c \in Creations, CreationStep(c)
      PROVE  ChainsKept
  BY <1>3 DEF CreationStep, CheckChain, FindAddress, CustodianAnswers, SaveWallet,
              CreationFails, Creates, about
<1>4. ASSUME NEW q \in Queries, QueryStep(q)
      PROVE  ChainsKept
  <2> UNCHANGED <<creationVars, about>>
    BY <1>4 DEF QueryStep, FindWallet, ReadAssets, FetchAssets, AssetsCreated, QueryFails,
                SaveAsset, SaveFails
  <2> QED BY DEF creationVars, about
<1>5. CASE ChainsCrash
  BY <1>5 DEF ChainsCrash, about
<1>6. CASE UNCHANGED chainVars
  BY <1>6 DEF chainVars
<1> QED BY <1>1, <1>2, <1>3, <1>4, <1>5, <1>6 DEF ChainsNext

\* What is kept of each handler is kept of what they did together.
LEMMA KeptLasts ==
  ASSUME AccountTypeOK, Shape, CreationShape, Creating, Tokened, Kept, ChainsKept
  PROVE  Lasting
<1> USE Names DEF Handlers, Requests
<1>1. ASSUME NEW g \in Handlers, NEW h \in Handlers, Beside(g, h)  PROVE Beside(g, h)'
  BY <1>1 DEF Beside, Shape, Kept
<1>2. /\ \A v \in Verifications : CodeBeside(v) => CodeBeside(v)'
      /\ \A x \in MfaPosts : SecretBeside(x) => SecretBeside(x)'
  BY <1>1 DEF CodeBeside, SecretBeside
<1>3. \A h \in Handlers : of[h] # None => pc[h] # "idle" /\ of'[h] = of[h]
  BY DEF Shape, Kept
<1>4. ASSUME NEW u, u # None, Strayed(u)  PROVE Strayed(u)'
  <2>1. PICK l \in Logins : old[l] # None /\ of[old[l]] = u /\ of[l] # u
    BY <1>4 DEF Strayed
  <2>2. pc[l] # "idle" /\ old[l] \in Handlers
    BY <2>1 DEF Tokened, AccountTypeOK, Tokens
  <2>3. old'[l] = old[l] /\ of'[l] = of[l] /\ of'[old[l]] = u
    BY <1>3, <1>4, <2>1, <2>2 DEF Kept
  <2> QED BY <2>1, <2>3 DEF Strayed
<1>5. ASSUME NEW t \in TokenRequests, Disturbed(t)  PROVE Disturbed(t)'
  <2>1. ASSUME Strayed(of[t])  PROVE Strayed(of[t])'
    <3>1. PICK l \in Logins : old[l] # None /\ of[old[l]] = of[t]
      BY <2>1 DEF Strayed
    <3>2. pc[old[l]] = "done" /\ old[l] \in Handlers
      BY <3>1 DEF Tokened, AccountTypeOK, Tokens
    <3>3. of[t] # None
      BY <3>1, <3>2 DEF Shape
    <3>4. of'[t] = of[t]
      BY <1>3, <3>3
    <3> QED BY <1>4, <2>1, <3>3, <3>4
  <2> QED BY <1>1, <1>5, <2>1 DEF Disturbed
<1>6. ASSUME NEW u \in Parties
      PROVE  /\ Confirmed(u) => Confirmed(u)'
             /\ Requested(u) => Requested(u)'
             /\ WalletAsked(u) => WalletAsked(u)' \/ u \in faulted'
             /\ Strayed(u) => Strayed(u)'
  <2>1. u # None
    BY DEF Handlers
  <2>2. Confirmed(u) => Confirmed(u)'
    BY <1>3, <2>1 DEF Confirmed, Kept
  <2>3. Requested(u) => Requested(u)'
    BY <1>3, <2>1 DEF Requested, Kept
  <2>4. WalletAsked(u) => WalletAsked(u)' \/ u \in faulted'
    <3> SUFFICES ASSUME WalletAsked(u), u \notin faulted'  PROVE WalletAsked(u)'
      OBVIOUS
    <3>1. PICK c \in Creations :
            /\ of[c] = u /\ chain[c] = Base
            /\ creating[c] # "idle" /\ pc[c] \in {"wallet", "done"}
      BY DEF WalletAsked
    <3>2. creating'[c] # "idle" /\ chain'[c] = Base
      BY <3>1 DEF ChainsKept
    <3>3. of'[c] = u
      BY <1>3, <2>1, <3>1, AccountAssumption
    <3>4. pc'[c] \in {"wallet", "done"}
      BY <3>1 DEF Kept
    <3> QED BY <3>2, <3>3, <3>4 DEF WalletAsked
  <2> QED BY <1>4, <2>1, <2>2, <2>3, <2>4
<1>7. ASSUME NEW c \in Creations, creating[c] # "idle", HasWallet(c)  PROVE HasWallet(c)'
  <2>1. PICK d \in wallets : party[d] = party[c] /\ chain[d] = chain[c]
    BY <1>7 DEF HasWallet
  <2>2. d \in Creations /\ creating[d] # "idle"
    BY DEF AccountTypeOK, ChainsTypeOK, CreationShape
  <2>3. d \in wallets' /\ party'[d] = party'[c] /\ chain'[d] = chain'[c]
    BY <1>7, <2>1, <2>2 DEF ChainsKept
  <2> QED BY <2>3 DEF HasWallet
<1> QED BY <1>1, <1>2, <1>5, <1>6, <1>7 DEF Lasting

\* Whoever is at work after a verification's write was before it.
LEMMA VerifyKeepsMeeting ==
  ASSUME AccountTypeOK, Shape, Meeting, Lasting,
         NEW h \in OtpRequests \cup Verifications, Verify(h)
  PROVE  Meeting'
<1>1. PICK s \in {"done", "wallet"} : Moves(h, s)
  BY DEF Verify
<1>2. AtWork(h) /\ \A g \in Handlers : AtWork(g)' => AtWork(g)
  BY <1>1 DEF Verify, VerificationSaved, AccountTypeOK, Moves, Goes, AtWork, Resting
<1> QED BY <1>1, <1>2 DEF Meeting, Lasting, Moves

\* Whoever is at work after a new chain's guard was before it.
LEMMA ChainGuardKeepsMeeting ==
  ASSUME AccountTypeOK, Shape, Meeting, Lasting, NEW h \in Creations, ChainGuard(h)
  PROVE  Meeting'
<1>1. PICK s \in {"refused", "wallet"} : Moves(h, s)
  BY DEF ChainGuard
<1>2. AtWork(h) /\ \A g \in Handlers : AtWork(g)' => AtWork(g)
  BY <1>1 DEF ChainGuard, AccountTypeOK, Moves, Goes, AtWork, Resting
<1> QED BY <1>1, <1>2 DEF Meeting, Lasting, Moves

\* Whoever is at work after a secret is read was before it.
LEMMA MfaReadKeepsMeeting ==
  ASSUME AccountTypeOK, Shape, Meeting, Lasting, NEW h \in MfaGets \cup MfaPosts,
         MfaRead(h)
  PROVE  Meeting'
<1>1. PICK s \in {"refused", "verify"} : Moves(h, s)
  BY DEF MfaRead
<1>2. AtWork(h) /\ \A g \in Handlers : AtWork(g)' => AtWork(g)
  BY <1>1 DEF MfaRead, AccountTypeOK, Moves, Goes, AtWork, Resting
<1> QED BY <1>1, <1>2 DEF Meeting, Lasting, Moves

\* Two handlers at work on one account were at work when one of them began.
LEMMA MeetingStep ==
  ASSUME AccountTypeOK, Shape, Meeting, Lasting, [AccountNext]_vars
  PROVE  Meeting'
<1>1. CASE UNCHANGED <<pc, of, beside>>
  BY <1>1 DEF Meeting, Lasting, AtWork
<1>2. CASE UNCHANGED vars
  BY <1>1, <1>2 DEF vars, accountVars, documents, codes, sessions, factor, request,
     chainVars
<1>3. ASSUME NEW u \in Parties, Greet(u) \/ Expire(u)
      PROVE  Meeting'
  BY <1>1, <1>3 DEF Greet, documents, sessions, factor, request, chainVars, Expire
<1>4. ASSUME NEW c \in Creations, CreationRuns(c)
      PROVE  Meeting'
  BY <1>1, <1>4 DEF CreationRuns, accountVars, documents, codes, sessions, factor,
     request
<1>5. ASSUME NEW u \in Parties, Register(u)  PROVE Meeting'
  BY <1>5 DEF AccountTypeOK, AtWork, Meeting, Beside, Register, Begins, Goes
<1>6. ASSUME NEW h \in Logins, NEW u \in Parties, LoginBegins(h, u)  PROVE Meeting'
  BY <1>6 DEF AccountTypeOK, AtWork, Meeting, Beside, LoginBegins, Begins, Goes
<1>7. ASSUME NEW h \in TokenRequests, NEW u \in Parties, TokenBegins(h, u)
      PROVE  Meeting'
  BY <1>7 DEF AccountTypeOK, AtWork, Meeting, Beside, TokenBegins, Begins, Goes
<1>8. ASSUME NEW h \in OtpRequests, NEW u \in Parties, OtpBegins(h, u)  PROVE Meeting'
  BY <1>8 DEF AccountTypeOK, AtWork, Meeting, Beside, OtpBegins, Authorised, Begins,
     Goes
<1>9. ASSUME NEW h \in Verifications, NEW u \in Parties, VerificationBegins(h, u)
      PROVE  Meeting'
  BY <1>9 DEF AccountTypeOK, AtWork, Meeting, Beside, VerificationBegins, Authorised,
     Begins, Goes
<1>10. ASSUME NEW h \in PinRequests, NEW u \in Parties, PinBegins(h, u)  PROVE Meeting'
  BY <1>10 DEF AccountTypeOK, AtWork, Meeting, Beside, PinBegins, Authorised, Begins,
     Goes
<1>11. ASSUME NEW h \in ChainRequests, NEW u \in Parties, ChainBegins(h, u)
      PROVE  Meeting'
  BY <1>11 DEF AccountTypeOK, AtWork, Meeting, Beside, ChainBegins, Authorised, Begins,
     Goes
<1>12. ASSUME NEW h \in MfaGets, NEW u \in Parties, MfaGetBegins(h, u)  PROVE Meeting'
  BY <1>12 DEF AccountTypeOK, AtWork, Meeting, Beside, MfaGetBegins, Authorised, Begins,
     Goes
<1>13. ASSUME NEW h \in MfaPosts, NEW u \in Parties, MfaPostBegins(h, u)  PROVE Meeting'
  BY <1>13 DEF AccountTypeOK, AtWork, Meeting, Beside, MfaPostBegins, Authorised,
     Begins, Goes
<1>14. ASSUME NEW u \in Parties, CheckExisting(u)  PROVE Meeting'
  <2>1. CASE Moves(u, "save")
    BY <2>1, <1>14, Names DEF AccountTypeOK, Handlers, Requests, Resting, AtWork, Shape,
       Meeting, Beside, CheckExisting, documents, codes, sessions, factor, Moves,
       chainVars, Goes
  <2>2. CASE Moves(u, "refused")
    BY <2>2, <1>14, Names DEF AccountTypeOK, Handlers, Requests, Resting, AtWork, Shape,
       Meeting, Beside, CheckExisting, documents, codes, sessions, factor, Moves,
       chainVars, Goes
  <2> QED BY <1>14, <2>1, <2>2 DEF CheckExisting
<1>15. ASSUME NEW u \in Parties, SaveAccount(u)  PROVE Meeting'
  BY <1>15 DEF Resting, AtWork, Meeting, Beside, SaveAccount, Moves, AccountSaved, Goes
<1>16. ASSUME NEW u \in Parties, RegistrationOtp(u)  PROVE Meeting'
  BY <1>16 DEF Resting, AtWork, Meeting, Beside, RegistrationOtp, Moves, OtpSaved, Goes
<1>17. ASSUME NEW u \in Parties, RegistrationToken(u)  PROVE Meeting'
  BY <1>17 DEF Resting, AtWork, Meeting, Beside, RegistrationToken, Moves, Goes
<1>18. ASSUME NEW h \in Logins \cup TokenRequests, ComparePassword(h)  PROVE Meeting'
  <2>1. UNCHANGED <<of, beside>> /\ AtWork(h)
    BY <1>18 DEF ComparePassword, Moves, AtWork, Resting
  <2>2. \A g \in Handlers : AtWork(g)' => AtWork(g)
    BY <1>18, <2>1 DEF ComparePassword, Moves, Goes, AccountTypeOK, AtWork
  <2> QED BY <2>1, <2>2 DEF Meeting, Beside
<1>19. ASSUME NEW h \in Logins \cup TokenRequests, LoginToken(h)  PROVE Meeting'
  <2>1. UNCHANGED <<of, beside>> /\ AtWork(h)
    BY <1>19 DEF LoginToken, TokenSaved, Moves, AtWork, Resting
  <2>2. \A g \in Handlers : AtWork(g)' => AtWork(g)
    BY <1>19, <2>1 DEF LoginToken, Moves, Goes, AccountTypeOK, AtWork
  <2> QED BY <2>1, <2>2 DEF Meeting, Beside
<1>20. ASSUME NEW h \in Logins \cup TokenRequests, DeleteOld(h)  PROVE Meeting'
  BY <1>20 DEF Resting, AtWork, Meeting, Beside, DeleteOld, Moves, Goes
<1>21. ASSUME NEW h \in Logins \cup TokenRequests, ReadToken(h)  PROVE Meeting'
  BY <1>21 DEF Resting, AtWork, Meeting, Beside, ReadToken, Moves, Goes
<1>22. ASSUME NEW h \in OtpRequests \cup Verifications, OtpGuard(h)  PROVE Meeting'
  BY <1>22 DEF Resting, AtWork, Meeting, Beside, OtpGuard, Guards, Moves, Goes
<1>23. ASSUME NEW h \in OtpRequests \cup Verifications, OtpStore(h)  PROVE Meeting'
  BY <1>23 DEF Resting, AtWork, Meeting, Beside, OtpStore, Moves, OtpSaved, Goes
<1>24. ASSUME NEW h \in OtpRequests \cup Verifications, OtpSend(h)  PROVE Meeting'
  BY <1>24 DEF Resting, AtWork, Meeting, Beside, OtpSend, Moves, Goes
<1>25. ASSUME NEW h \in OtpRequests \cup Verifications, VerificationGuard(h)
      PROVE  Meeting'
  BY <1>25 DEF Resting, AtWork, Meeting, Beside, VerificationGuard, Guards, Moves, Goes
<1>26. ASSUME NEW h \in OtpRequests \cup Verifications, CompareOtp(h)  PROVE Meeting'
  BY <1>26 DEF Resting, AtWork, Meeting, Beside, CompareOtp, Moves, Goes
<1>27. ASSUME NEW h \in OtpRequests \cup Verifications, Verify(h)  PROVE Meeting'
  BY <1>27, VerifyKeepsMeeting
<1>28. ASSUME NEW h \in Creations, PinGuard(h)  PROVE Meeting'
  BY <1>28 DEF Resting, AtWork, Meeting, Beside, PinGuard, Guards, Moves, Goes
<1>29. ASSUME NEW h \in Creations, SetPin(h)  PROVE Meeting'
  BY <1>29 DEF Resting, AtWork, Meeting, Beside, SetPin, Moves, PinSaved, Goes
<1>30. ASSUME NEW h \in Creations, ChainGuard(h)  PROVE Meeting'
  BY <1>30, ChainGuardKeepsMeeting
<1>31. ASSUME NEW h \in Creations, WalletAnswered(h)  PROVE Meeting'
  BY <1>31, Names DEF AccountTypeOK, Requests, Resting, AtWork, Shape, Meeting, Beside,
     WalletAnswered, documents, codes, sessions, factor, Moves, Faults, chainVars, Goes
<1>32. ASSUME NEW h \in MfaGets \cup MfaPosts, MfaGetGuard(h)  PROVE Meeting'
  BY <1>32 DEF Resting, AtWork, Meeting, Beside, MfaGetGuard, Guards, Moves, Goes
<1>33. ASSUME NEW h \in MfaGets \cup MfaPosts, MfaRecord(h)  PROVE Meeting'
  BY <1>33 DEF Resting, AtWork, Meeting, Beside, MfaRecord, Moves, Goes
<1>34. ASSUME NEW h \in MfaGets \cup MfaPosts, MfaStore(h)  PROVE Meeting'
  BY <1>34 DEF Resting, AtWork, Meeting, Beside, MfaStore, Moves, Goes
<1>35. ASSUME NEW h \in MfaGets \cup MfaPosts, MfaPostGuard(h)  PROVE Meeting'
  BY <1>35 DEF Resting, AtWork, Meeting, Beside, MfaPostGuard, Guards, Moves, Goes
<1>36. ASSUME NEW h \in MfaGets \cup MfaPosts, MfaRead(h)  PROVE Meeting'
  BY <1>36, MfaReadKeepsMeeting
<1>37. ASSUME NEW h \in MfaGets \cup MfaPosts, MfaVerify(h)  PROVE Meeting'
  BY <1>37 DEF Resting, AtWork, Meeting, Beside, MfaVerify, Moves, Goes
<1>38. ASSUME NEW h \in MfaGets \cup MfaPosts, MfaEnable(h)  PROVE Meeting'
  BY <1>38 DEF Resting, AtWork, Meeting, Beside, MfaEnable, Moves, Goes
<1>39. ASSUME NEW h \in Handlers, FailsUnwritten(h)  PROVE Meeting'
  BY <1>39 DEF AtWork, Meeting, Beside, FailsUnwritten, Throws, Moves, Goes
<1>40. ASSUME NEW h \in Handlers, FailsSaving(h)  PROVE Meeting'
  BY <1>40 DEF AtWork, Meeting, Beside, FailsSaving, Throws, Moves, Goes
<1>41. ASSUME NEW h \in Handlers, FailsStoringCode(h)  PROVE Meeting'
  BY <1>41 DEF AtWork, Meeting, Beside, FailsStoringCode, Throws, Moves, Goes
<1>42. ASSUME NEW h \in Handlers, FailsSavingToken(h)  PROVE Meeting'
  BY <1>42 DEF AtWork, Meeting, Beside, FailsSavingToken, Throws, Moves, Goes
<1>43. ASSUME NEW h \in Handlers, FailsDeleting(h)  PROVE Meeting'
  BY <1>43 DEF AtWork, Meeting, Beside, FailsDeleting, Throws, Moves, Goes
<1>44. ASSUME NEW h \in Handlers, FailsVerifying(h)  PROVE Meeting'
  BY <1>44 DEF AtWork, Meeting, Beside, FailsVerifying, Throws, Moves, Goes
<1>45. ASSUME NEW h \in Handlers, FailsSettingPin(h)  PROVE Meeting'
  BY <1>45 DEF AtWork, Meeting, Beside, FailsSettingPin, Throws, Moves, Goes
<1>46. ASSUME NEW h \in Handlers, FailsEnabling(h)  PROVE Meeting'
  BY <1>46 DEF AtWork, Meeting, Beside, FailsEnabling, Throws, Moves, Goes
<1>47. ASSUME NEW h \in Handlers, FailsStoringSecret(h)  PROVE Meeting'
  BY <1>47 DEF AtWork, Meeting, Beside, FailsStoringSecret, Throws, Moves, Goes
<1>48. CASE Crash
  BY <1>48 DEF AtWork, Meeting, Beside, Crash
<1>49. ASSUME NEW h \in Handlers, RequestFails(h)  PROVE Meeting'
  BY <1>49, Failing, <1>39, <1>40, <1>41, <1>42, <1>43, <1>44, <1>45, <1>46, <1>47
<1> QED BY <1>1, <1>2, <1>3, <1>4, <1>5, <1>6, <1>7, <1>8, <1>9, <1>10, <1>11, <1>12,
   <1>13, <1>14, <1>15, <1>16, <1>17, <1>18, <1>19, <1>20, <1>21, <1>22, <1>23, <1>24,
   <1>25, <1>26, <1>27, <1>28, <1>29, <1>30, <1>31, <1>32, <1>33, <1>34, <1>35, <1>36,
   <1>37, <1>38, <1>48, <1>49 DEF AccountNext, Arrives, RegistrationStep, SessionStep,
   VerificationStep, SetupStep, MfaStep

\* A sign-in is not a creation.
LEMMA LoginTokenKeepsCreating ==
  ASSUME AccountTypeOK, Shape, CreationShape, Creating, Lasting,
         NEW h \in Logins \cup TokenRequests, LoginToken(h)
  PROVE  Creating'
<1>1. PICK s \in {"done", "delete"} : Moves(h, s)
  BY DEF LoginToken
<1>2. /\ h \in Handlers /\ h \notin Creations
      /\ UNCHANGED chainVars /\ UNCHANGED <<active, faulted>>
  BY Names, AccountAssumption DEF LoginToken, TokenSaved, Handlers, Requests, documents
<1>3. (\A c \in Creations : pc'[c] = pc[c] /\ c \in Handlers) /\ UNCHANGED of
  BY <1>1, <1>2, AccountAssumption DEF AccountTypeOK, Moves, Goes, Handlers, Requests
<1> QED BY <1>2, <1>3 DEF Creating, Lasting, chainVars, AccountTypeOK

\* A merchant's verification makes it active and calls for its wallet in one step; a
\* user's does neither.
LEMMA VerifyKeepsCreating ==
  ASSUME AccountTypeOK, Shape, CreationShape, Creating, Lasting,
         NEW h \in OtpRequests \cup Verifications, Verify(h)
  PROVE  Creating'
<1>1. CASE of[h] \notin Merchants
  <2>1. /\ h \in Handlers /\ Moves(h, "done") /\ pc[h] = "update" /\ UNCHANGED <<active, faulted>>
        /\ UNCHANGED chainVars
    BY <1>1 DEF Verify, VerificationSaved, Handlers, Requests
  <2>2. /\ \A c \in Creations : c \in Handlers /\ (c # h => pc'[c] = pc[c])
        /\ pc'[h] = "done" /\ UNCHANGED of
    BY <2>1, AccountAssumption DEF AccountTypeOK, Moves, Goes, Handlers, Requests
  <2> QED BY <2>1, <2>2 DEF Creating, Lasting, chainVars, AccountTypeOK
<1>2. CASE of[h] \in Merchants
  <2>1. /\ h \in Handlers /\ h \in Creations /\ Moves(h, "wallet") /\ pc[h] = "update"
        /\ UNCHANGED faulted /\ active' = active \cup {of[h]}
        /\ BeginCreation(h, of[h], Base)
    BY <1>2, AccountAssumption DEF Verify, VerificationSaved, Handlers, Requests
  <2>2. /\ \A c \in Creations : c \in Handlers /\ (c # h => pc'[c] = pc[c])
        /\ pc'[h] = "wallet" /\ UNCHANGED of
    BY <2>1, AccountAssumption DEF AccountTypeOK, Moves, Goes, Handlers, Requests
  <2>3. /\ creating'[h] \in {"check", "refused"}
        /\ party'[h] = of[h] /\ chain'[h] = Base
        /\ \A c \in Creations \ {h} :
             creating'[c] = creating[c] /\ party'[c] = party[c] /\ chain'[c] = chain[c]
    BY <2>1 DEF BeginCreation, Creates, AccountTypeOK, ChainsTypeOK, Calls
  <2>4. WalletAsked(of[h])'
    BY <2>1, <2>2, <2>3 DEF WalletAsked
  <2> QED BY <2>1, <2>2, <2>3, <2>4 DEF Creating, Lasting, AccountTypeOK
<1> QED BY <1>1, <1>2

\* Setting the pin makes the user active and calls for the wallet in one step.
LEMMA SetPinKeepsCreating ==
  ASSUME AccountTypeOK, Shape, CreationShape, Creating, Lasting, NEW h \in Creations,
         SetPin(h)
  PROVE  Creating'
<1>1. /\ h \in Handlers /\ Moves(h, "wallet") /\ pc[h] = "update"
      /\ UNCHANGED faulted /\ active' = active \cup {of[h]}
      /\ BeginCreation(h, of[h], Base)
  BY AccountAssumption DEF SetPin, PinSaved, Handlers, Requests
<1>2. /\ \A c \in Creations : c \in Handlers /\ (c # h => pc'[c] = pc[c])
      /\ pc'[h] = "wallet" /\ UNCHANGED of
  BY <1>1, AccountAssumption DEF AccountTypeOK, Moves, Goes, Handlers, Requests
<1>3. /\ creating'[h] \in {"check", "refused"}
      /\ party'[h] = of[h] /\ chain'[h] = Base
      /\ \A c \in Creations \ {h} :
           creating'[c] = creating[c] /\ party'[c] = party[c] /\ chain'[c] = chain[c]
  BY <1>1 DEF BeginCreation, Creates, AccountTypeOK, ChainsTypeOK, Calls
<1>4. WalletAsked(of[h])'
  BY <1>1, <1>2, <1>3 DEF WalletAsked
<1> QED BY <1>1, <1>2, <1>3, <1>4 DEF Creating, Lasting, AccountTypeOK

\* The guard lets only an active user have a wallet created.
LEMMA ChainGuardKeepsCreating ==
  ASSUME AccountTypeOK, Shape, CreationShape, Creating, Lasting, NEW h \in Creations,
         ChainGuard(h)
  PROVE  Creating'
<1>1. h \in Handlers /\ pc[h] = "guard" /\ UNCHANGED <<active, faulted>>
  BY DEF ChainGuard, Handlers, Requests, documents
<1>2. \A c \in Creations : c \in Handlers
  BY AccountAssumption DEF Handlers, Requests
<1>3. CASE Moves(h, "refused") /\ UNCHANGED chainVars
  <2>1. /\ \A c \in Creations \ {h} : pc'[c] = pc[c]
        /\ pc'[h] = "refused" /\ UNCHANGED of
    BY <1>1, <1>2, <1>3 DEF AccountTypeOK, Moves, Goes
  <2> QED BY <1>1, <1>3, <2>1 DEF Creating, Lasting, chainVars, AccountTypeOK
<1>4. ASSUME Complete(of[h]), Moves(h, "wallet"), NEW k \in Chains,
             BeginCreation(h, of[h], k)
      PROVE  Creating'
  <2>1. /\ \A c \in Creations \ {h} : pc'[c] = pc[c]
        /\ pc'[h] = "wallet" /\ UNCHANGED of
    BY <1>1, <1>2, <1>4 DEF AccountTypeOK, Moves, Goes
  <2>2. /\ creating'[h] \in {"check", "refused"}
        /\ party'[h] = of[h] /\ of[h] \in active
        /\ \A c \in Creations \ {h} :
             creating'[c] = creating[c] /\ party'[c] = party[c] /\ chain'[c] = chain[c]
    BY <1>4 DEF BeginCreation, Creates, AccountTypeOK, ChainsTypeOK, Calls, Complete
  <2> QED BY <1>1, <2>1, <2>2 DEF Creating, Lasting, AccountTypeOK
<1> QED BY <1>3, <1>4 DEF ChainGuard

\* Nor is a POST of a secret's code.
LEMMA MfaReadKeepsCreating ==
  ASSUME AccountTypeOK, Shape, CreationShape, Creating, Lasting,
         NEW h \in MfaGets \cup MfaPosts, MfaRead(h)
  PROVE  Creating'
<1>1. PICK s \in {"refused", "verify"} : Moves(h, s)
  BY DEF MfaRead
<1>2. /\ h \in Handlers /\ h \notin Creations
      /\ UNCHANGED chainVars /\ UNCHANGED <<active, faulted>>
  BY Names, AccountAssumption DEF MfaRead, Handlers, Requests, documents
<1>3. (\A c \in Creations : pc'[c] = pc[c] /\ c \in Handlers) /\ UNCHANGED of
  BY <1>1, <1>2, AccountAssumption DEF AccountTypeOK, Moves, Goes, Handlers, Requests
<1> QED BY <1>2, <1>3 DEF Creating, Lasting, chainVars, AccountTypeOK

\* A creation ends once its wallet is there: found on its first check, or saved.
LEMMA CreationRunsKeepsCreating ==
  ASSUME AccountTypeOK, Shape, CreationShape, Creating, Lasting, NEW c \in Creations,
         CreationRuns(c)
  PROVE  Creating'
<1>1. /\ UNCHANGED <<pc, of, active, faulted, party, chain>>
      /\ \A d \in Creations \ {c} : creating'[d] = creating[d]
      /\ creating[c] \in {"check", "address", "custodian", "save"}
      /\ creating'[c] # "idle"
  <2>1. CASE CheckChain(c)
    BY <2>1 DEF CreationRuns, CheckChain, Creates, about, accountVars, request, documents,
       AccountTypeOK, ChainsTypeOK
  <2>2. CASE FindAddress(c) \/ CustodianAnswers(c)
    BY <2>2 DEF CreationRuns, FindAddress, CustodianAnswers, Creates, about, accountVars,
       request, documents, AccountTypeOK, ChainsTypeOK
  <2>3. CASE SaveWallet(c) \/ CreationFails(c)
    BY <2>3 DEF CreationRuns, SaveWallet, CreationFails, Creates, about, accountVars,
       request, documents, AccountTypeOK, ChainsTypeOK
  <2> QED BY <2>1, <2>2, <2>3 DEF CreationRuns, CreationStep
<1>2. pc[c] \in {"wallet", "failed"}
  BY <1>1 DEF Creating
<1>3. ASSUME creating'[c] \in {"done", "exists"}  PROVE HasWallet(c)'
  <2>1. CASE CheckChain(c)
    <3>1. WalletsNamed(party[c], chain[c]) # {}
      BY <1>3, <2>1 DEF CheckChain, Creates, AccountTypeOK, ChainsTypeOK
    <3>2. HasWallet(c)
      BY <3>1 DEF WalletsNamed, HasWallet
    <3> QED BY <1>1, <3>2 DEF Lasting
  <2>2. CASE SaveWallet(c)
    <3>1. c \in wallets'
      BY <2>2 DEF SaveWallet
    <3> QED BY <3>1 DEF HasWallet
  <2>3. CASE FindAddress(c) \/ CustodianAnswers(c) \/ CreationFails(c)
    BY <1>3, <2>3 DEF FindAddress, CustodianAnswers, CreationFails, Creates,
       AccountTypeOK, ChainsTypeOK
  <2> QED BY <2>1, <2>2, <2>3 DEF CreationRuns, CreationStep
<1> QED BY <1>1, <1>2, <1>3 DEF Creating, Lasting, AccountTypeOK

\* A crash fails the creations at work and marks their accounts, and keeps the wallets.
LEMMA CrashKeepsCreating ==
  ASSUME AccountTypeOK, Shape, CreationShape, Creating, Lasting, Crash
  PROVE  Creating'
<1>1. /\ \A g \in Handlers : pc'[g] = IF AtWork(g) THEN "failed" ELSE pc[g]
      /\ UNCHANGED <<of, active, party, chain, wallets>>
      /\ faulted \subseteq faulted'
  BY DEF Crash, ChainsCrash, documents, about
<1>2. \A c \in Creations :
        /\ c \in Handlers
        /\ creating[c] = "idle" <=> creating'[c] = "idle"
        /\ creating[c] \in {"done", "exists"} <=> creating'[c] \in {"done", "exists"}
        /\ creating[c] \in {"idle", "done", "exists"} => creating'[c] = creating[c]
  BY AccountAssumption DEF Crash, ChainsCrash, Handlers, Requests, Resting
<1>3. \A c \in Creations : pc'[c] \in {"failed", pc[c]} /\ pc'[c] # "wallet"
  BY <1>1, <1>2 DEF AtWork, Resting
<1>4. \A c \in Creations : pc'[c] \notin {"wallet", "done", "failed"} => pc'[c] = pc[c]
  BY <1>3
<1>5. \A c \in Creations : creating[c] \in {"done", "exists"} => HasWallet(c)'
  BY DEF Creating, Lasting
<1>6. \A r \in active' : r \in faulted' \/ WalletAsked(r)'
  BY <1>1 DEF Creating, Lasting, AccountTypeOK
<1> QED BY <1>1, <1>2, <1>3, <1>4, <1>5, <1>6 DEF Creating

\* An account is made active in the step that calls for its wallet, or fails it.
LEMMA CreatingStep ==
  ASSUME AccountTypeOK, Shape, CreationShape, Creating, Lasting, [AccountNext]_vars
  PROVE  Creating'
<1>1. CASE UNCHANGED <<pc, of, active, faulted, creating, party, chain, wallets>>
  BY <1>1 DEF Creating, Lasting, AccountTypeOK
<1>2. CASE UNCHANGED vars
  BY <1>1, <1>2 DEF vars, accountVars, documents, codes, sessions, factor, request,
     chainVars
<1>3. ASSUME NEW u \in Parties, Greet(u) \/ Expire(u)
      PROVE  Creating'
  BY <1>1, <1>3 DEF Greet, documents, sessions, factor, request, chainVars, Expire
<1>4. ASSUME NEW u \in Parties, Register(u)  PROVE Creating'
  BY <1>4 DEF AccountTypeOK, Creating, Lasting, Register, documents, Begins, chainVars,
     Goes
<1>5. ASSUME NEW h \in Logins, NEW u \in Parties, LoginBegins(h, u)  PROVE Creating'
  BY <1>5 DEF AccountTypeOK, Creating, Lasting, LoginBegins, documents, Begins,
     chainVars, Goes
<1>6. ASSUME NEW h \in TokenRequests, NEW u \in Parties, TokenBegins(h, u)
      PROVE  Creating'
  BY <1>6 DEF AccountTypeOK, Creating, Lasting, TokenBegins, documents, Begins,
     chainVars, Goes
<1>7. ASSUME NEW h \in OtpRequests, NEW u \in Parties, OtpBegins(h, u)  PROVE Creating'
  BY <1>7 DEF AccountTypeOK, Creating, Lasting, OtpBegins, documents, Authorised,
     chainVars, Begins, Goes
<1>8. ASSUME NEW h \in Verifications, NEW u \in Parties, VerificationBegins(h, u)
      PROVE  Creating'
  BY <1>8 DEF AccountTypeOK, Creating, Lasting, VerificationBegins, documents,
     Authorised, chainVars, Begins, Goes
<1>9. ASSUME NEW h \in PinRequests, NEW u \in Parties, PinBegins(h, u)  PROVE Creating'
  BY <1>9 DEF AccountTypeOK, Creating, Lasting, PinBegins, documents, Authorised,
     chainVars, Begins, Goes
<1>10. ASSUME NEW h \in ChainRequests, NEW u \in Parties, ChainBegins(h, u)
      PROVE  Creating'
  BY <1>10 DEF AccountTypeOK, Creating, Lasting, ChainBegins, documents, Authorised,
     chainVars, Begins, Goes
<1>11. ASSUME NEW h \in MfaGets, NEW u \in Parties, MfaGetBegins(h, u)  PROVE Creating'
  BY <1>11 DEF AccountTypeOK, Creating, Lasting, MfaGetBegins, documents, Authorised,
     chainVars, Begins, Goes
<1>12. ASSUME NEW h \in MfaPosts, NEW u \in Parties, MfaPostBegins(h, u)
      PROVE  Creating'
  BY <1>12 DEF AccountTypeOK, Creating, Lasting, MfaPostBegins, documents, Authorised,
     chainVars, Begins, Goes
<1>13. ASSUME NEW u \in Parties, CheckExisting(u)  PROVE Creating'
  <2>1. CASE Moves(u, "save")
    BY <2>1, <1>13, Names DEF AccountTypeOK, Handlers, Requests, Resting, AtWork, Shape,
       Creating, CreationShape, Lasting, StepsOf, UserRequests, CheckExisting,
       documents, codes, sessions, factor, Moves, chainVars, Goes
  <2>2. CASE Moves(u, "refused")
    BY <2>2, <1>13, Names DEF AccountTypeOK, Handlers, Requests, Resting, AtWork, Shape,
       Creating, CreationShape, Lasting, StepsOf, UserRequests, CheckExisting,
       documents, codes, sessions, factor, Moves, chainVars, Goes
  <2> QED BY <1>13, <2>1, <2>2 DEF CheckExisting
<1>14. ASSUME NEW u \in Parties, SaveAccount(u)  PROVE Creating'
  BY <1>14 DEF AccountTypeOK, Creating, Lasting, SaveAccount, Moves, AccountSaved, Goes,
     chainVars
<1>15. ASSUME NEW u \in Parties, RegistrationOtp(u)  PROVE Creating'
  BY <1>15 DEF AccountTypeOK, Creating, Lasting, RegistrationOtp, Moves, OtpSaved, Goes,
     documents, chainVars
<1>16. ASSUME NEW u \in Parties, RegistrationToken(u)  PROVE Creating'
  BY <1>16 DEF AccountTypeOK, Creating, Lasting, RegistrationToken, Moves, TokenSaved,
     Goes, documents, chainVars
<1>17. ASSUME NEW h \in Logins \cup TokenRequests, ComparePassword(h)  PROVE Creating'
  <2>1. CASE Moves(h, "token")
    BY <2>1, <1>17, Names DEF AccountTypeOK, Handlers, Requests, Resting, AtWork, Shape,
       Creating, CreationShape, Lasting, StepsOf, UserRequests, ComparePassword,
       documents, codes, sessions, factor, Moves, chainVars, Goes
  <2>2. CASE Moves(h, "refused")
    BY <2>2, <1>17, Names DEF AccountTypeOK, Handlers, Requests, Resting, AtWork, Shape,
       Creating, CreationShape, Lasting, StepsOf, UserRequests, ComparePassword,
       documents, codes, sessions, factor, Moves, chainVars, Goes
  <2> QED BY <1>17, <2>1, <2>2 DEF ComparePassword
<1>18. ASSUME NEW h \in Logins \cup TokenRequests, LoginToken(h)  PROVE Creating'
  BY <1>18, LoginTokenKeepsCreating
<1>19. ASSUME NEW h \in Logins \cup TokenRequests, DeleteOld(h)  PROVE Creating'
  BY <1>19 DEF AccountTypeOK, Creating, Lasting, DeleteOld, Moves, OldDeleted, Goes,
     documents, chainVars
<1>20. ASSUME NEW h \in Logins \cup TokenRequests, ReadToken(h)  PROVE Creating'
  BY <1>20 DEF AccountTypeOK, Creating, Lasting, ReadToken, documents, Moves, chainVars,
     Goes
<1>21. ASSUME NEW h \in OtpRequests \cup Verifications, OtpGuard(h)  PROVE Creating'
  BY <1>21 DEF AccountTypeOK, Creating, Lasting, OtpGuard, Guards, documents, Moves,
     chainVars, Goes
<1>22. ASSUME NEW h \in OtpRequests \cup Verifications, OtpStore(h)  PROVE Creating'
  BY <1>22 DEF AccountTypeOK, Creating, Lasting, OtpStore, Moves, OtpSaved, Goes,
     documents, chainVars
<1>23. ASSUME NEW h \in OtpRequests \cup Verifications, OtpSend(h)  PROVE Creating'
  BY <1>23 DEF AccountTypeOK, Creating, Lasting, OtpSend, documents, Moves, chainVars,
     Goes
<1>24. ASSUME NEW h \in OtpRequests \cup Verifications, VerificationGuard(h)
      PROVE  Creating'
  BY <1>24 DEF AccountTypeOK, Creating, Lasting, VerificationGuard, Guards, documents,
     Moves, chainVars, Goes
<1>25. ASSUME NEW h \in OtpRequests \cup Verifications, CompareOtp(h)  PROVE Creating'
  BY <1>25 DEF AccountTypeOK, Creating, Lasting, CompareOtp, documents, Moves,
     chainVars, Goes
<1>26. ASSUME NEW h \in OtpRequests \cup Verifications, Verify(h)  PROVE Creating'
  BY <1>26, VerifyKeepsCreating
<1>27. ASSUME NEW h \in Creations, PinGuard(h)  PROVE Creating'
  BY <1>27 DEF AccountTypeOK, Creating, Lasting, PinGuard, Guards, documents, Moves,
     chainVars, Goes
<1>28. ASSUME NEW h \in Creations, SetPin(h)  PROVE Creating'
  BY <1>28, SetPinKeepsCreating
<1>29. ASSUME NEW h \in Creations, ChainGuard(h)  PROVE Creating'
  BY <1>29, ChainGuardKeepsCreating
<1>30. ASSUME NEW h \in Creations, WalletAnswered(h)  PROVE Creating'
  BY <1>30, AccountAssumption DEF AccountTypeOK, Handlers, Requests, Resting, Creating,
     Lasting, WalletAnswered, documents, Moves, Faults, chainVars, Goes
<1>31. ASSUME NEW h \in MfaGets \cup MfaPosts, MfaGetGuard(h)  PROVE Creating'
  BY <1>31 DEF AccountTypeOK, Creating, Lasting, MfaGetGuard, Guards, documents, Moves,
     chainVars, Goes
<1>32. ASSUME NEW h \in MfaGets \cup MfaPosts, MfaRecord(h)  PROVE Creating'
  BY <1>32 DEF AccountTypeOK, Creating, Lasting, MfaRecord, documents, Moves, chainVars,
     Goes
<1>33. ASSUME NEW h \in MfaGets \cup MfaPosts, MfaStore(h)  PROVE Creating'
  BY <1>33 DEF AccountTypeOK, Creating, Lasting, MfaStore, Moves, SecretStored, Goes,
     documents, chainVars
<1>34. ASSUME NEW h \in MfaGets \cup MfaPosts, MfaPostGuard(h)  PROVE Creating'
  BY <1>34 DEF AccountTypeOK, Creating, Lasting, MfaPostGuard, Guards, documents, Moves,
     chainVars, Goes
<1>35. ASSUME NEW h \in MfaGets \cup MfaPosts, MfaRead(h)  PROVE Creating'
  BY <1>35, MfaReadKeepsCreating
<1>36. ASSUME NEW h \in MfaGets \cup MfaPosts, MfaVerify(h)  PROVE Creating'
  BY <1>36 DEF AccountTypeOK, Creating, Lasting, MfaVerify, documents, Moves, chainVars,
     Goes
<1>37. ASSUME NEW h \in MfaGets \cup MfaPosts, MfaEnable(h)  PROVE Creating'
  BY <1>37 DEF AccountTypeOK, Creating, Lasting, MfaEnable, Moves, SecretSaved, Goes,
     documents, chainVars
<1>38. ASSUME NEW h \in Handlers, FailsUnwritten(h)  PROVE Creating'
  BY <1>38 DEF AccountTypeOK, Creating, Lasting, FailsUnwritten, documents, chainVars,
     Throws, Moves, Faults, Goes
<1>39. ASSUME NEW h \in Handlers, FailsSaving(h)  PROVE Creating'
  BY <1>39 DEF AccountTypeOK, Creating, Lasting, FailsSaving, AccountSaved, Throws,
     chainVars, Moves, Faults, Goes
<1>40. ASSUME NEW h \in Handlers, FailsStoringCode(h)  PROVE Creating'
  BY <1>40 DEF AccountTypeOK, Creating, Lasting, FailsStoringCode, OtpSaved, Throws,
     documents, chainVars, Moves, Faults, Goes
<1>41. ASSUME NEW h \in Handlers, FailsSavingToken(h)  PROVE Creating'
  BY <1>41 DEF AccountTypeOK, Creating, Lasting, FailsSavingToken, TokenSaved, Throws,
     documents, chainVars, Moves, Faults, Goes
<1>42. ASSUME NEW h \in Handlers, FailsDeleting(h)  PROVE Creating'
  BY <1>42 DEF AccountTypeOK, Creating, Lasting, FailsDeleting, OldDeleted, Throws,
     documents, chainVars, Moves, Faults, Goes
<1>43. ASSUME NEW h \in Handlers, FailsVerifying(h)  PROVE Creating'
  BY <1>43 DEF AccountTypeOK, Creating, Lasting, FailsVerifying, VerificationSaved,
     chainVars, Throws, Moves, Faults, Goes
<1>44. ASSUME NEW h \in Handlers, FailsSettingPin(h)  PROVE Creating'
  BY <1>44 DEF AccountTypeOK, Creating, Lasting, FailsSettingPin, PinSaved, chainVars,
     Throws, Moves, Faults, Goes
<1>45. ASSUME NEW h \in Handlers, FailsEnabling(h)  PROVE Creating'
  BY <1>45 DEF AccountTypeOK, Creating, Lasting, FailsEnabling, SecretSaved, chainVars,
     Throws, documents, Moves, Faults, Goes
<1>46. ASSUME NEW h \in Handlers, FailsStoringSecret(h)  PROVE Creating'
  BY <1>46 DEF AccountTypeOK, Creating, Lasting, FailsStoringSecret, SecretStored,
     Throws, documents, chainVars, Moves, Faults, Goes
<1>47. ASSUME NEW c \in Creations, CreationRuns(c)  PROVE Creating'
  BY <1>47, CreationRunsKeepsCreating
<1>48. CASE Crash
  BY <1>48, CrashKeepsCreating
<1>49. ASSUME NEW h \in Handlers, RequestFails(h)  PROVE Creating'
  BY <1>49, Failing, <1>38, <1>39, <1>40, <1>41, <1>42, <1>43, <1>44, <1>45, <1>46
<1> QED BY <1>1, <1>2, <1>3, <1>4, <1>5, <1>6, <1>7, <1>8, <1>9, <1>10, <1>11, <1>12,
   <1>13, <1>14, <1>15, <1>16, <1>17, <1>18, <1>19, <1>20, <1>21, <1>22, <1>23, <1>24,
   <1>25, <1>26, <1>27, <1>28, <1>29, <1>30, <1>31, <1>32, <1>33, <1>34, <1>35, <1>36,
   <1>37, <1>47, <1>48, <1>49 DEF AccountNext, Arrives, RegistrationStep, SessionStep,
   VerificationStep, SetupStep, MfaStep

\* Only a user is greeted, and its inbox grows.
LEMMA GreetKeepsOrdered ==
  ASSUME AccountTypeOK, Shape, Creating, Ordered, Lasting, NEW u \in Parties, Greet(u)
  PROVE  Ordered'
<1>1. u \notin Merchants /\ u \in Codes
  BY DEF Greet, Ordered, Codes
<1>2. \A r \in Parties \ {u} : inbox'[r] = inbox[r] /\ greeting'[r] = greeting[r]
  BY DEF Greet, AccountTypeOK
<1>3. \A r \in Parties : inbox[r] \subseteq inbox'[r]
  BY DEF Greet, AccountTypeOK
<1>4. \A v \in Verifications : pc[v] # "idle" => of[v] \in Parties
  BY DEF AccountTypeOK, Shape, Handlers, Requests
<1>5. UNCHANGED <<active, verified, pin, secret, shown, pc, of, code, tried, read>>
  BY DEF Greet, documents, factor, request
<1> QED BY <1>1, <1>2, <1>3, <1>4, <1>5, ChainsAssumption DEF Ordered, Lasting

\* An inbox grows by the code of an OTP request, which a merchant's verification may
\* submit.
LEMMA OtpSendKeepsOrdered ==
  ASSUME AccountTypeOK, Shape, Creating, Ordered, Lasting,
         NEW h \in OtpRequests \cup Verifications, OtpSend(h)
  PROVE  Ordered'
<1>1. h \in OtpRequests /\ h \in Handlers
  BY Names DEF Shape, OtpSend, StepsOf, Resting, Handlers, Requests
<1>2. /\ \A g \in Handlers \ {h} : pc'[g] = pc[g]
      /\ UNCHANGED <<of, active, verified, pin, secret, shown, greeting, code, tried, read>>
  BY <1>1 DEF OtpSend, AccountTypeOK, Moves, Goes, documents, factor
<1>3. \A r \in Parties : inbox[r] \subseteq inbox'[r] /\ inbox'[r] \subseteq inbox[r] \cup {h}
  BY DEF OtpSend, AccountTypeOK
<1>4. /\ \A v \in Verifications : v \in Handlers \ {h}
      /\ \A p \in PinRequests : p \in Handlers \ {h}
      /\ \A x \in MfaPosts : x \in Handlers \ {h}
  BY <1>1, Names DEF Handlers, Requests
<1>5. \A v \in Verifications : pc[v] # "idle" => of[v] \in Parties
  BY DEF AccountTypeOK, Shape, Handlers, Requests
<1> QED BY <1>1, <1>2, <1>3, <1>4, <1>5, ChainsAssumption DEF Ordered, Lasting

\* A verification had a code that was sent, and makes a user verified and a merchant
\* active, never the other way round.
LEMMA VerifyKeepsOrdered ==
  ASSUME AccountTypeOK, Shape, Creating, Ordered, Lasting,
         NEW h \in OtpRequests \cup Verifications, Verify(h)
  PROVE  Ordered'
<1>1. PICK s \in {"done", "wallet"} : Moves(h, s)
  BY DEF Verify
<1>2. /\ h \in Verifications /\ h \in Handlers /\ pc[h] = "update" /\ of[h] \in Parties
      /\ \A g \in Handlers \ {h} : pc'[g] = pc[g]
      /\ UNCHANGED <<of, pin, secret, inbox, shown, greeting, code, tried, read>>
  BY <1>1 DEF Verify, VerificationSaved, AccountTypeOK, Shape, Moves, Goes, codes, factor,
     Handlers, Requests, Resting
<1>3. /\ \A p \in PinRequests : p \in Handlers \ {h}
      /\ \A x \in MfaPosts : x \in Handlers \ {h}
  BY <1>2, Names DEF Handlers, Requests
<1>4. code[h] \in inbox[of[h]]
  BY <1>2 DEF Ordered
<1>5. /\ verified \subseteq verified' /\ active \subseteq active'
      /\ \A r \in active' \ active : r = of[h] /\ r \in Merchants
      /\ \A r \in verified' \ verified : r = of[h] /\ r \notin Merchants
  BY DEF Verify, VerificationSaved
<1>6. Confirmed(of[h])' /\ (of[h] \in Merchants => Requested(of[h])')
  BY <1>2, <1>4 DEF Confirmed, Requested, Ordered
<1>7. \A r \in Parties \ Merchants :
        (r \in active' <=> r \in active) /\ (r \in verified' => Confirmed(r)')
  BY <1>2, <1>5, <1>6 DEF Ordered, Lasting
<1>8. \A r \in Merchants : r \in active' => Requested(r)'
  BY <1>2, <1>5, <1>6, ChainsAssumption DEF Ordered, Lasting
<1>9. \A v \in Verifications : pc'[v] # "idle" => code[v] \in inbox[of[v]]
  BY <1>2, <1>4 DEF Ordered, Handlers, Requests
<1> QED BY <1>2, <1>3, <1>5, <1>7, <1>8, <1>9 DEF Ordered

\* The same when the request fails after the write.
LEMMA FailsVerifyingKeepsOrdered ==
  ASSUME AccountTypeOK, Shape, Creating, Ordered, Lasting, NEW h \in Handlers,
         FailsVerifying(h)
  PROVE  Ordered'
<1>2. /\ h \in Verifications /\ h \in Handlers /\ pc[h] = "update" /\ of[h] \in Parties
      /\ \A g \in Handlers \ {h} : pc'[g] = pc[g]
      /\ pc'[h] = "failed"
      /\ UNCHANGED <<of, pin, secret, inbox, shown, greeting, code, tried, read>>
  BY DEF FailsVerifying, Throws, VerificationSaved, AccountTypeOK, Shape, Moves, Goes,
     codes, factor, Handlers, Requests, Resting
<1>3. /\ \A p \in PinRequests : p \in Handlers \ {h}
      /\ \A x \in MfaPosts : x \in Handlers \ {h}
  BY <1>2, Names DEF Handlers, Requests
<1>4. code[h] \in inbox[of[h]]
  BY <1>2 DEF Ordered
<1>5. /\ verified \subseteq verified' /\ active \subseteq active'
      /\ \A r \in active' \ active : r = of[h] /\ r \in Merchants
      /\ \A r \in verified' \ verified : r = of[h] /\ r \notin Merchants
  BY DEF FailsVerifying, VerificationSaved
<1>6. Confirmed(of[h])' /\ (of[h] \in Merchants => Requested(of[h])')
  BY <1>2, <1>4 DEF Confirmed, Requested, Ordered
<1>7. \A r \in Parties \ Merchants :
        (r \in active' <=> r \in active) /\ (r \in verified' => Confirmed(r)')
  BY <1>2, <1>5, <1>6 DEF Ordered, Lasting
<1>8. \A r \in Merchants : r \in active' => Requested(r)'
  BY <1>2, <1>5, <1>6, ChainsAssumption DEF Ordered, Lasting
<1>9. \A v \in Verifications : pc'[v] # "idle" => code[v] \in inbox[of[v]]
  BY <1>2, <1>4 DEF Ordered, Handlers, Requests
<1> QED BY <1>2, <1>3, <1>5, <1>7, <1>8, <1>9 DEF Ordered

\* A crash writes no document.
LEMMA CrashKeepsOrdered ==
  ASSUME AccountTypeOK, Shape, Creating, Ordered, Lasting, Crash
  PROVE  Ordered'
<1>1. /\ \A g \in Handlers : pc'[g] = pc[g] \/ (pc[g] # "idle" /\ pc'[g] = "failed")
      /\ UNCHANGED <<of, active, verified, pin, secret, inbox, shown, code, tried, read>>
      /\ \A r \in Parties : greeting[r] = "none" => greeting'[r] = "none"
  BY DEF Crash, AtWork, Resting, documents, factor
<1> QED BY <1>1, ChainsAssumption DEF Ordered, Lasting, Handlers, Requests

\* A guard's condition still holds when its handler writes: no step takes it back.
LEMMA OrderedStep ==
  ASSUME AccountTypeOK, Shape, Creating, Ordered, Lasting, [AccountNext]_vars
  PROVE  Ordered'
<1>1. CASE UNCHANGED <<pc, of, verified, active, pin, inbox, greeting, code, shown,
                        tried, read, secret>>
  <2>1. \A u \in Parties : (Confirmed(u) => Confirmed(u)') /\ (Requested(u) => Requested(u)')
    BY DEF Lasting
  <2>2. \A u \in Parties \ Merchants :
          /\ u \in active' <=> pin'[u] # None
          /\ pin'[u] # None => u \in verified'
          /\ secret'[u] # None => u \in active' /\ secret'[u] \in shown'[u]
          /\ u \in verified' => Confirmed(u)'
    BY <1>1, <2>1 DEF Ordered
  <2>3. \A u \in Merchants : u \in active' => Requested(u)'
    BY <1>1, <2>1, ChainsAssumption DEF Ordered
  <2> QED BY <1>1, <2>2, <2>3 DEF Ordered
<1>2. CASE UNCHANGED vars
  BY <1>1, <1>2 DEF vars, accountVars, documents, codes, sessions, factor, request,
     chainVars
<1>3. ASSUME NEW u \in Parties, Expire(u)
      PROVE  Ordered'
  BY <1>1, <1>3 DEF Expire, documents, sessions, request, chainVars
<1>4. ASSUME NEW c \in Creations, CreationRuns(c)
      PROVE  Ordered'
  BY <1>1, <1>4 DEF CreationRuns, accountVars, documents, codes, sessions, factor,
     request
<1>5. ASSUME NEW u \in Parties, Register(u)  PROVE Ordered'
  BY <1>5, Names DEF AccountTypeOK, Requests, Ordered, Lasting, Register, documents,
     codes, factor, Begins, Goes
<1>6. ASSUME NEW h \in Logins, NEW u \in Parties, LoginBegins(h, u)  PROVE Ordered'
  BY <1>6, Names DEF AccountTypeOK, Ordered, Lasting, LoginBegins, documents, codes,
     factor, Begins, Goes
<1>7. ASSUME NEW h \in TokenRequests, NEW u \in Parties, TokenBegins(h, u)
      PROVE  Ordered'
  BY <1>7, Names DEF AccountTypeOK, Ordered, Lasting, TokenBegins, documents, codes,
     factor, Begins, Goes
<1>8. ASSUME NEW h \in OtpRequests, NEW u \in Parties, OtpBegins(h, u)  PROVE Ordered'
  BY <1>8, Names DEF AccountTypeOK, Ordered, Lasting, OtpBegins, documents, codes,
     factor, Authorised, Begins, Goes
<1>9. ASSUME NEW h \in Verifications, NEW u \in Parties, VerificationBegins(h, u)
      PROVE  Ordered'
  BY <1>9, Names DEF AccountTypeOK, Ordered, Lasting, VerificationBegins, documents,
     factor, Authorised, Begins, Goes
<1>10. ASSUME NEW h \in PinRequests, NEW u \in Parties, PinBegins(h, u)  PROVE Ordered'
  BY <1>10, Names DEF AccountTypeOK, Ordered, Lasting, PinBegins, documents, codes,
     factor, Authorised, Begins, Goes
<1>11. ASSUME NEW h \in ChainRequests, NEW u \in Parties, ChainBegins(h, u)
      PROVE  Ordered'
  BY <1>11, Names DEF AccountTypeOK, Ordered, Lasting, ChainBegins, documents, codes,
     factor, Authorised, Begins, Goes
<1>12. ASSUME NEW h \in MfaGets, NEW u \in Parties, MfaGetBegins(h, u)  PROVE Ordered'
  BY <1>12, Names DEF AccountTypeOK, Ordered, Lasting, MfaGetBegins, documents, codes,
     factor, Authorised, Begins, Goes
<1>13. ASSUME NEW h \in MfaPosts, NEW u \in Parties, MfaPostBegins(h, u)  PROVE Ordered'
  BY <1>13, Names DEF AccountTypeOK, Ordered, Lasting, MfaPostBegins, documents, codes,
     Authorised, Begins, Goes
<1>14. ASSUME NEW u \in Parties, CheckExisting(u)  PROVE Ordered'
  BY <1>14 DEF AccountTypeOK, Handlers, Requests, Ordered, Lasting, CheckExisting,
     documents, codes, factor, Moves, Goes
<1>15. ASSUME NEW u \in Parties, SaveAccount(u)  PROVE Ordered'
  BY <1>15 DEF AccountTypeOK, Ordered, Lasting, SaveAccount, Moves, AccountSaved, Goes,
     codes, factor
<1>16. ASSUME NEW u \in Parties, RegistrationOtp(u)  PROVE Ordered'
  BY <1>16 DEF AccountTypeOK, Ordered, Lasting, RegistrationOtp, Moves, OtpSaved, Goes,
     documents, factor
<1>17. ASSUME NEW u \in Parties, RegistrationToken(u)  PROVE Ordered'
  BY <1>17 DEF AccountTypeOK, Ordered, Lasting, RegistrationToken, Moves, TokenSaved,
     Goes, documents, codes, factor
<1>18. ASSUME NEW u \in Parties, Greet(u)  PROVE Ordered'
  BY <1>18, GreetKeepsOrdered
<1>19. ASSUME NEW h \in Logins \cup TokenRequests, ComparePassword(h)  PROVE Ordered'
  BY <1>19 DEF AccountTypeOK, Handlers, Requests, Ordered, Lasting, ComparePassword,
     documents, codes, factor, Moves, Goes
<1>20. ASSUME NEW h \in Logins \cup TokenRequests, LoginToken(h)  PROVE Ordered'
  BY <1>20 DEF AccountTypeOK, Handlers, Requests, Ordered, Lasting, LoginToken, Moves,
     TokenSaved, Goes, documents, codes, factor
<1>21. ASSUME NEW h \in Logins \cup TokenRequests, DeleteOld(h)  PROVE Ordered'
  BY <1>21 DEF AccountTypeOK, Ordered, Lasting, DeleteOld, Moves, OldDeleted, Goes,
     documents, codes, factor
<1>22. ASSUME NEW h \in Logins \cup TokenRequests, ReadToken(h)  PROVE Ordered'
  BY <1>22 DEF AccountTypeOK, Ordered, Lasting, ReadToken, documents, codes, factor,
     Moves, Goes
<1>23. ASSUME NEW h \in OtpRequests \cup Verifications, OtpGuard(h)  PROVE Ordered'
  BY <1>23 DEF AccountTypeOK, Ordered, Lasting, OtpGuard, Guards, documents, codes,
     factor, Moves, Goes
<1>24. ASSUME NEW h \in OtpRequests \cup Verifications, OtpStore(h)  PROVE Ordered'
  BY <1>24 DEF AccountTypeOK, Ordered, Lasting, OtpStore, Moves, OtpSaved, Goes,
     documents, factor
<1>25. ASSUME NEW h \in OtpRequests \cup Verifications, OtpSend(h)  PROVE Ordered'
  BY <1>25, OtpSendKeepsOrdered
<1>26. ASSUME NEW h \in OtpRequests \cup Verifications, VerificationGuard(h)
      PROVE  Ordered'
  BY <1>26 DEF AccountTypeOK, Ordered, Lasting, VerificationGuard, Guards, documents,
     codes, factor, Moves, Goes
<1>27. ASSUME NEW h \in OtpRequests \cup Verifications, CompareOtp(h)  PROVE Ordered'
  BY <1>27, Names DEF AccountTypeOK, Ordered, Lasting, CompareOtp, documents, codes,
     factor, Moves, Goes
<1>28. ASSUME NEW h \in OtpRequests \cup Verifications, Verify(h)  PROVE Ordered'
  BY <1>28, VerifyKeepsOrdered
<1>29. ASSUME NEW h \in Creations, PinGuard(h)  PROVE Ordered'
  BY <1>29, Names DEF AccountTypeOK, Ordered, Lasting, PinGuard, Guards, Pinless,
     documents, codes, factor, Moves, Goes
<1>30. ASSUME NEW h \in Creations, SetPin(h)  PROVE Ordered'
  BY <1>30, Names DEF AccountTypeOK, Handlers, Requests, Ordered, Lasting, SetPin,
     Moves, PinSaved, Goes, codes, factor
<1>31. ASSUME NEW h \in Creations, ChainGuard(h)  PROVE Ordered'
  BY <1>31 DEF AccountTypeOK, Handlers, Requests, Ordered, Lasting, ChainGuard,
     documents, codes, factor, Moves, Goes
<1>32. ASSUME NEW h \in Creations, WalletAnswered(h)  PROVE Ordered'
  BY <1>32 DEF AccountTypeOK, Handlers, Requests, Ordered, Lasting, WalletAnswered,
     documents, codes, factor, Moves, Goes
<1>33. ASSUME NEW h \in MfaGets \cup MfaPosts, MfaGetGuard(h)  PROVE Ordered'
  BY <1>33 DEF AccountTypeOK, Ordered, Lasting, MfaGetGuard, Guards, documents, codes,
     factor, Moves, Goes
<1>34. ASSUME NEW h \in MfaGets \cup MfaPosts, MfaRecord(h)  PROVE Ordered'
  BY <1>34 DEF AccountTypeOK, Ordered, Lasting, MfaRecord, documents, codes, factor,
     Moves, Goes
<1>35. ASSUME NEW h \in MfaGets \cup MfaPosts, MfaStore(h)  PROVE Ordered'
  BY <1>35 DEF AccountTypeOK, Ordered, Lasting, MfaStore, Moves, SecretStored, Goes,
     documents, codes
<1>36. ASSUME NEW h \in MfaGets \cup MfaPosts, MfaPostGuard(h)  PROVE Ordered'
  BY <1>36 DEF AccountTypeOK, Ordered, Lasting, MfaPostGuard, Guards, Complete,
     documents, codes, factor, Moves, Goes
<1>37. ASSUME NEW h \in MfaGets \cup MfaPosts, MfaRead(h)  PROVE Ordered'
  BY <1>37 DEF AccountTypeOK, Handlers, Requests, Ordered, Lasting, MfaRead, documents,
     codes, Moves, Goes
<1>38. ASSUME NEW h \in MfaGets \cup MfaPosts, MfaVerify(h)  PROVE Ordered'
  BY <1>38, Names DEF AccountTypeOK, Ordered, Lasting, MfaVerify, documents, codes,
     factor, Moves, Goes
<1>39. ASSUME NEW h \in MfaGets \cup MfaPosts, MfaEnable(h)  PROVE Ordered'
  BY <1>39 DEF AccountTypeOK, Ordered, Lasting, MfaEnable, Moves, SecretSaved, Goes,
     documents, codes
<1>40. ASSUME NEW h \in Handlers, FailsUnwritten(h)  PROVE Ordered'
  BY <1>40 DEF AccountTypeOK, Resting, AtWork, Ordered, Lasting, FailsUnwritten,
     documents, codes, factor, Throws, Moves, Goes
<1>41. ASSUME NEW h \in Handlers, FailsSaving(h)  PROVE Ordered'
  BY <1>41 DEF AccountTypeOK, Ordered, Lasting, FailsSaving, AccountSaved, Throws,
     codes, factor, Moves, Goes
<1>42. ASSUME NEW h \in Handlers, FailsStoringCode(h)  PROVE Ordered'
  BY <1>42 DEF AccountTypeOK, Ordered, Lasting, FailsStoringCode, OtpSaved, Throws,
     documents, factor, Moves, Goes
<1>43. ASSUME NEW h \in Handlers, FailsSavingToken(h)  PROVE Ordered'
  BY <1>43 DEF AccountTypeOK, Ordered, Lasting, FailsSavingToken, TokenSaved, Throws,
     documents, codes, factor, Moves, Goes
<1>44. ASSUME NEW h \in Handlers, FailsDeleting(h)  PROVE Ordered'
  BY <1>44 DEF AccountTypeOK, Ordered, Lasting, FailsDeleting, OldDeleted, Throws,
     documents, codes, factor, Moves, Goes
<1>45. ASSUME NEW h \in Handlers, FailsVerifying(h)  PROVE Ordered'
  BY <1>45, FailsVerifyingKeepsOrdered
<1>46. ASSUME NEW h \in Handlers, FailsSettingPin(h)  PROVE Ordered'
  BY <1>46, Names DEF AccountTypeOK, Ordered, Lasting, FailsSettingPin, PinSaved,
     Throws, codes, factor, Moves, Goes
<1>47. ASSUME NEW h \in Handlers, FailsEnabling(h)  PROVE Ordered'
  BY <1>47 DEF AccountTypeOK, Requests, Ordered, Lasting, FailsEnabling, SecretSaved,
     Throws, documents, codes, Moves, Goes
<1>48. ASSUME NEW h \in Handlers, FailsStoringSecret(h)  PROVE Ordered'
  BY <1>48 DEF AccountTypeOK, Ordered, Lasting, FailsStoringSecret, SecretStored,
     Throws, documents, codes, Moves, Goes
<1>49. CASE Crash
  BY <1>49, CrashKeepsOrdered
<1>50. ASSUME NEW h \in Handlers, RequestFails(h)  PROVE Ordered'
  BY <1>50, Failing, <1>40, <1>41, <1>42, <1>43, <1>44, <1>45, <1>46, <1>47, <1>48
<1> QED BY <1>1, <1>2, <1>3, <1>4, <1>5, <1>6, <1>7, <1>8, <1>9, <1>10, <1>11, <1>12,
   <1>13, <1>14, <1>15, <1>16, <1>17, <1>18, <1>19, <1>20, <1>21, <1>22, <1>23, <1>24,
   <1>25, <1>26, <1>27, <1>28, <1>29, <1>30, <1>31, <1>32, <1>33, <1>34, <1>35, <1>36,
   <1>37, <1>38, <1>39, <1>49, <1>50 DEF AccountNext, Arrives, RegistrationStep,
   SessionStep, VerificationStep, SetupStep, MfaStep

\* The request whose pin is set met every other one of the account that goes on to set
\* its own.
LEMMA SetPinKeepsPinned ==
  ASSUME AccountTypeOK, Shape, Meeting, Pinned, Lasting, NEW h \in Creations, SetPin(h)
  PROVE  Pinned'
<1>1. /\ h \in PinRequests /\ h \in Handlers /\ AtWork(h) /\ of[h] \in Parties
      /\ \A g \in Handlers \ {h} : pc'[g] = pc[g]
      /\ pc'[h] # "update" /\ UNCHANGED of /\ pin' = [pin EXCEPT ![of[h]] = h]
  BY DEF SetPin, PinSaved, AccountTypeOK, Shape, Moves, Goes, AtWork, Resting, Handlers,
     Requests
<1>2. ASSUME NEW p \in PinRequests, NEW q, pc'[p] = "update", q = pin'[of[p]], q # None
      PROVE  Beside(q, p)'
  <2>1. p \in Handlers /\ p # h /\ pc[p] = "update" /\ AtWork(p) /\ of[p] \in Parties
    BY <1>1, <1>2 DEF AccountTypeOK, Shape, AtWork, Resting, Handlers, Requests
  <2>2. CASE of[p] = of[h]
    <3>1. q = h /\ Beside(h, p)
      BY <1>1, <1>2, <2>1, <2>2 DEF Meeting, AccountTypeOK
    <3> QED BY <1>1, <2>1, <3>1 DEF Lasting
  <2>3. CASE of[p] # of[h]
    <3>1. q = pin[of[p]] /\ q \in Handlers
      BY <1>1, <1>2, <2>1, <2>3 DEF AccountTypeOK, Handlers, Requests
    <3> QED BY <1>2, <2>1, <3>1 DEF Pinned, Lasting
  <2> QED BY <2>2, <2>3
<1> QED BY <1>1, <1>2 DEF Pinned

\* The same when the request fails after the write.
LEMMA FailsSettingPinKeepsPinned ==
  ASSUME AccountTypeOK, Shape, Meeting, Pinned, Lasting, NEW h \in Handlers,
         FailsSettingPin(h)
  PROVE  Pinned'
<1>1. /\ h \in PinRequests /\ h \in Handlers /\ AtWork(h) /\ of[h] \in Parties
      /\ \A g \in Handlers \ {h} : pc'[g] = pc[g]
      /\ pc'[h] # "update" /\ UNCHANGED of /\ pin' = [pin EXCEPT ![of[h]] = h]
  BY DEF FailsSettingPin, Throws, PinSaved, AccountTypeOK, Shape, Moves, Goes, AtWork,
     Resting, Handlers, Requests
<1>2. ASSUME NEW p \in PinRequests, NEW q, pc'[p] = "update", q = pin'[of[p]], q # None
      PROVE  Beside(q, p)'
  <2>1. p \in Handlers /\ p # h /\ pc[p] = "update" /\ AtWork(p) /\ of[p] \in Parties
    BY <1>1, <1>2 DEF AccountTypeOK, Shape, AtWork, Resting, Handlers, Requests
  <2>2. CASE of[p] = of[h]
    <3>1. q = h /\ Beside(h, p)
      BY <1>1, <1>2, <2>1, <2>2 DEF Meeting, AccountTypeOK
    <3> QED BY <1>1, <2>1, <3>1 DEF Lasting
  <2>3. CASE of[p] # of[h]
    <3>1. q = pin[of[p]] /\ q \in Handlers
      BY <1>1, <1>2, <2>1, <2>3 DEF AccountTypeOK, Handlers, Requests
    <3> QED BY <1>2, <2>1, <3>1 DEF Pinned, Lasting
  <2> QED BY <2>2, <2>3
<1> QED BY <1>1, <1>2 DEF Pinned

\* A handler that found no pin, and has one replaced, was beside the one that set it.
LEMMA PinnedStep ==
  ASSUME AccountTypeOK, Shape, Meeting, Pinned, Lasting, [AccountNext]_vars
  PROVE  Pinned'
<1>1. CASE UNCHANGED <<pc, of, pin, beside>>
  <2>1. \A g, h : Beside(g, h)' <=> Beside(g, h)
    BY <1>1 DEF Beside
  <2> QED BY <1>1, <2>1 DEF Pinned
<1>2. CASE UNCHANGED vars
  BY <1>1, <1>2 DEF vars, accountVars, documents, codes, sessions, factor, request,
     chainVars
<1>3. ASSUME NEW u \in Parties, Greet(u) \/ Expire(u)
      PROVE  Pinned'
  BY <1>1, <1>3 DEF Greet, documents, sessions, factor, request, chainVars, Expire
<1>4. ASSUME NEW c \in Creations, CreationRuns(c)
      PROVE  Pinned'
  BY <1>1, <1>4 DEF CreationRuns, accountVars, documents, codes, sessions, factor,
     request
<1>5. ASSUME NEW u \in Parties, Register(u)  PROVE Pinned'
  BY <1>5 DEF Handlers, Requests, Shape, Pinned, Beside, Register, documents, Begins,
     Goes
<1>6. ASSUME NEW h \in Logins, NEW u \in Parties, LoginBegins(h, u)  PROVE Pinned'
  BY <1>6 DEF Handlers, Requests, Shape, Pinned, Beside, LoginBegins, documents, Begins,
     Goes
<1>7. ASSUME NEW h \in TokenRequests, NEW u \in Parties, TokenBegins(h, u)
      PROVE  Pinned'
  BY <1>7 DEF Handlers, Requests, Shape, Pinned, Beside, TokenBegins, documents, Begins,
     Goes
<1>8. ASSUME NEW h \in OtpRequests, NEW u \in Parties, OtpBegins(h, u)  PROVE Pinned'
  BY <1>8 DEF Handlers, Requests, Shape, Pinned, Beside, OtpBegins, documents,
     Authorised, Begins, Goes
<1>9. ASSUME NEW h \in Verifications, NEW u \in Parties, VerificationBegins(h, u)
      PROVE  Pinned'
  BY <1>9 DEF Handlers, Requests, Shape, Pinned, Beside, VerificationBegins, documents,
     Authorised, Begins, Goes
<1>10. ASSUME NEW h \in PinRequests, NEW u \in Parties, PinBegins(h, u)  PROVE Pinned'
  BY <1>10 DEF Handlers, Requests, Shape, Pinned, Beside, PinBegins, documents,
     Authorised, Begins, Goes
<1>11. ASSUME NEW h \in ChainRequests, NEW u \in Parties, ChainBegins(h, u)
      PROVE  Pinned'
  BY <1>11 DEF Handlers, Requests, Shape, Pinned, Beside, ChainBegins, documents,
     Authorised, Begins, Goes
<1>12. ASSUME NEW h \in MfaGets, NEW u \in Parties, MfaGetBegins(h, u)  PROVE Pinned'
  BY <1>12 DEF Handlers, Requests, Shape, Pinned, Beside, MfaGetBegins, documents,
     Authorised, Begins, Goes
<1>13. ASSUME NEW h \in MfaPosts, NEW u \in Parties, MfaPostBegins(h, u)  PROVE Pinned'
  BY <1>13 DEF Handlers, Requests, Shape, Pinned, Beside, MfaPostBegins, documents,
     Authorised, Begins, Goes
<1>14. ASSUME NEW u \in Parties, CheckExisting(u)  PROVE Pinned'
  <2>1. UNCHANGED <<of, pin, beside>>
    BY <1>14 DEF CheckExisting, Moves, documents
  <2>2. \A p \in PinRequests : pc'[p] = "update" => pc[p] = "update"
    BY <1>14 DEF CheckExisting, Moves, Goes, AccountTypeOK, Handlers, Requests
  <2> QED BY <2>1, <2>2 DEF Pinned, Beside
<1>15. ASSUME NEW u \in Parties, SaveAccount(u)  PROVE Pinned'
  BY <1>15 DEF Requests, Pinned, Beside, SaveAccount, Moves, AccountSaved, Goes
<1>16. ASSUME NEW u \in Parties, RegistrationOtp(u)  PROVE Pinned'
  BY <1>16 DEF Handlers, Requests, Pinned, Beside, RegistrationOtp, Moves, OtpSaved,
     Goes, documents
<1>17. ASSUME NEW u \in Parties, RegistrationToken(u)  PROVE Pinned'
  BY <1>17 DEF Pinned, Beside, RegistrationToken, Moves, TokenSaved, Goes, documents
<1>18. ASSUME NEW h \in Logins \cup TokenRequests, ComparePassword(h)  PROVE Pinned'
  <2>1. UNCHANGED <<of, pin, beside>>
    BY <1>18 DEF ComparePassword, Moves, documents
  <2>2. \A p \in PinRequests : pc'[p] = "update" => pc[p] = "update"
    BY <1>18 DEF ComparePassword, Moves, Goes, AccountTypeOK, Handlers, Requests
  <2> QED BY <2>1, <2>2 DEF Pinned, Beside
<1>19. ASSUME NEW h \in Logins \cup TokenRequests, LoginToken(h)  PROVE Pinned'
  <2>1. UNCHANGED <<of, pin, beside>>
    BY <1>19 DEF LoginToken, TokenSaved, Moves, documents
  <2>2. \A p \in PinRequests : pc'[p] = "update" => pc[p] = "update"
    BY <1>19 DEF LoginToken, Moves, Goes, AccountTypeOK, Handlers, Requests
  <2> QED BY <2>1, <2>2 DEF Pinned, Beside
<1>20. ASSUME NEW h \in Logins \cup TokenRequests, DeleteOld(h)  PROVE Pinned'
  BY <1>20 DEF Pinned, Beside, DeleteOld, Moves, OldDeleted, Goes, documents
<1>21. ASSUME NEW h \in Logins \cup TokenRequests, ReadToken(h)  PROVE Pinned'
  BY <1>21 DEF Requests, Pinned, Beside, ReadToken, documents, Moves, Goes
<1>22. ASSUME NEW h \in OtpRequests \cup Verifications, OtpGuard(h)  PROVE Pinned'
  BY <1>22 DEF Pinned, Beside, OtpGuard, Guards, documents, Moves, Goes
<1>23. ASSUME NEW h \in OtpRequests \cup Verifications, OtpStore(h)  PROVE Pinned'
  BY <1>23 DEF Handlers, Requests, Pinned, Beside, OtpStore, Moves, OtpSaved, Goes,
     documents
<1>24. ASSUME NEW h \in OtpRequests \cup Verifications, OtpSend(h)  PROVE Pinned'
  BY <1>24 DEF Requests, Pinned, Beside, OtpSend, documents, Moves, Goes
<1>25. ASSUME NEW h \in OtpRequests \cup Verifications, VerificationGuard(h)
      PROVE  Pinned'
  BY <1>25 DEF Requests, Pinned, Beside, VerificationGuard, Guards, documents, Moves,
     Goes
<1>26. ASSUME NEW h \in OtpRequests \cup Verifications, CompareOtp(h)  PROVE Pinned'
  BY <1>26, Names DEF Handlers, Requests, Pinned, Beside, CompareOtp, documents, Moves,
     Goes
<1>27. ASSUME NEW h \in OtpRequests \cup Verifications, Verify(h)  PROVE Pinned'
  BY <1>27 DEF AccountTypeOK, Handlers, Requests, Shape, Pinned, Beside, Verify, Moves,
     VerificationSaved, BeginCreation, Goes, Creates
<1>28. ASSUME NEW h \in Creations, PinGuard(h)  PROVE Pinned'
  BY <1>28 DEF Requests, Pinned, Beside, PinGuard, Guards, Pinless, documents, Moves,
     Goes
<1>29. ASSUME NEW h \in Creations, SetPin(h)  PROVE Pinned'
  BY <1>29, SetPinKeepsPinned
<1>30. ASSUME NEW h \in Creations, ChainGuard(h)  PROVE Pinned'
  BY <1>30, Names DEF AccountTypeOK, Handlers, Requests, AtWork, Pinned, Beside,
     ChainGuard, documents, Moves, Complete, BeginCreation, Goes, Creates, queryVars,
     Assigned
<1>31. ASSUME NEW h \in Creations, WalletAnswered(h)  PROVE Pinned'
  <2>1. UNCHANGED <<of, pin, beside>>
    BY <1>31 DEF WalletAnswered, documents, Moves
  <2>2. \A p \in PinRequests : pc'[p] = "update" => pc[p] = "update"
    BY <1>31 DEF WalletAnswered, Moves, Goes, AccountTypeOK, Handlers, Requests
  <2> QED BY <2>1, <2>2 DEF Pinned, Beside
<1>32. ASSUME NEW h \in MfaGets \cup MfaPosts, MfaGetGuard(h)  PROVE Pinned'
  BY <1>32 DEF Pinned, Beside, MfaGetGuard, Guards, documents, Moves, Goes
<1>33. ASSUME NEW h \in MfaGets \cup MfaPosts, MfaRecord(h)  PROVE Pinned'
  BY <1>33 DEF Requests, Pinned, Beside, MfaRecord, documents, Moves, Goes
<1>34. ASSUME NEW h \in MfaGets \cup MfaPosts, MfaStore(h)  PROVE Pinned'
  BY <1>34 DEF Requests, Pinned, Beside, MfaStore, Moves, SecretStored, Goes, documents
<1>35. ASSUME NEW h \in MfaGets \cup MfaPosts, MfaPostGuard(h)  PROVE Pinned'
  BY <1>35 DEF Requests, Pinned, Beside, MfaPostGuard, Guards, documents, Moves, Goes
<1>36. ASSUME NEW h \in MfaGets \cup MfaPosts, MfaRead(h)  PROVE Pinned'
  BY <1>36, Names DEF AccountTypeOK, Handlers, Requests, Resting, Shape, Pinned, Beside,
     StepsOf, UserRequests, MfaRead, documents, Moves, Goes
<1>37. ASSUME NEW h \in MfaGets \cup MfaPosts, MfaVerify(h)  PROVE Pinned'
  BY <1>37, Names DEF Requests, Pinned, Beside, MfaVerify, documents, Moves, Goes
<1>38. ASSUME NEW h \in MfaGets \cup MfaPosts, MfaEnable(h)  PROVE Pinned'
  BY <1>38 DEF Requests, Pinned, Beside, MfaEnable, Moves, SecretSaved, Goes, documents
<1>39. ASSUME NEW h \in Handlers, FailsUnwritten(h)  PROVE Pinned'
  BY <1>39 DEF Requests, Pinned, Beside, FailsUnwritten, documents, Throws, Moves, Goes
<1>40. ASSUME NEW h \in Handlers, FailsSaving(h)  PROVE Pinned'
  BY <1>40 DEF Requests, Pinned, Beside, FailsSaving, AccountSaved, Throws, Moves, Goes
<1>41. ASSUME NEW h \in Handlers, FailsStoringCode(h)  PROVE Pinned'
  BY <1>41 DEF Requests, Pinned, Beside, FailsStoringCode, OtpSaved, Throws, documents,
     Moves, Goes
<1>42. ASSUME NEW h \in Handlers, FailsSavingToken(h)  PROVE Pinned'
  BY <1>42 DEF Handlers, Requests, Pinned, Beside, FailsSavingToken, TokenSaved, Throws,
     documents, Moves, Goes
<1>43. ASSUME NEW h \in Handlers, FailsDeleting(h)  PROVE Pinned'
  BY <1>43 DEF Handlers, Requests, Pinned, Beside, FailsDeleting, OldDeleted, Throws,
     documents, Moves, Goes
<1>44. ASSUME NEW h \in Handlers, FailsVerifying(h)  PROVE Pinned'
  BY <1>44 DEF Requests, Pinned, Beside, FailsVerifying, VerificationSaved, Throws,
     Moves, Goes
<1>45. ASSUME NEW h \in Handlers, FailsSettingPin(h)  PROVE Pinned'
  BY <1>45, FailsSettingPinKeepsPinned
<1>46. ASSUME NEW h \in Handlers, FailsEnabling(h)  PROVE Pinned'
  BY <1>46 DEF Requests, Pinned, Beside, FailsEnabling, SecretSaved, Throws, documents,
     Moves, Goes
<1>47. ASSUME NEW h \in Handlers, FailsStoringSecret(h)  PROVE Pinned'
  BY <1>47 DEF Pinned, Beside, FailsStoringSecret, SecretStored, Throws, documents,
     Moves, Goes
<1>48. CASE Crash
  BY <1>48 DEF Handlers, Requests, Pinned, Beside, Crash, documents
<1>49. ASSUME NEW h \in Handlers, RequestFails(h)  PROVE Pinned'
  BY <1>49, Failing, <1>39, <1>40, <1>41, <1>42, <1>43, <1>44, <1>45, <1>46, <1>47
<1> QED BY <1>1, <1>2, <1>3, <1>4, <1>5, <1>6, <1>7, <1>8, <1>9, <1>10, <1>11, <1>12,
   <1>13, <1>14, <1>15, <1>16, <1>17, <1>18, <1>19, <1>20, <1>21, <1>22, <1>23, <1>24,
   <1>25, <1>26, <1>27, <1>28, <1>29, <1>30, <1>31, <1>32, <1>33, <1>34, <1>35, <1>36,
   <1>37, <1>38, <1>48, <1>49 DEF AccountNext, Arrives, RegistrationStep, SessionStep,
   VerificationStep, SetupStep, MfaStep

\* A registration's code is stored beside the verifications at work on the account.
LEMMA RegistrationOtpKeepsCoded ==
  ASSUME AccountTypeOK, Shape, Meeting, Ordered, Coded, Lasting, NEW u \in Parties,
         RegistrationOtp(u)
  PROVE  Coded'
<1>1. /\ u \in Handlers /\ AtWork(u) /\ of[u] = u
      /\ \A g \in Handlers \ {u} : pc'[g] = pc[g]
      /\ UNCHANGED <<of, code>> /\ otp' = [otp EXCEPT ![u] = u]
      /\ issued' = [issued EXCEPT ![u] = u]
  BY Names DEF RegistrationOtp, OtpSaved, AccountTypeOK, Shape, Moves, Goes, AtWork,
     Resting, Handlers, Requests
<1>2. ASSUME NEW v \in Verifications, pc'[v] = "update"
      PROVE  code[v] = issued'[of[v]] \/ CodeBeside(v)'
  <2>1. v \in Handlers /\ v # u /\ pc[v] = "update" /\ AtWork(v) /\ of[v] \in Parties
    BY <1>1, <1>2, Names DEF AccountTypeOK, Shape, AtWork, Resting, Handlers, Requests
  <2>2. CASE of[v] = u
    <3>1. Beside(u, v)
      BY <1>1, <2>1, <2>2 DEF Meeting
    <3> QED BY <3>1 DEF CodeBeside, Lasting
  <2>3. CASE of[v] # u
    BY <1>1, <2>1, <2>3 DEF Coded, Lasting, AccountTypeOK
  <2> QED BY <2>2, <2>3
<1>3. \A r \in Parties : otp'[r] \in {None, issued'[r]}
  BY <1>1 DEF Coded, AccountTypeOK
<1> QED BY <1>1, <1>2, <1>3 DEF Coded

\* So is an OTP request's.
LEMMA OtpStoreKeepsCoded ==
  ASSUME AccountTypeOK, Shape, Meeting, Ordered, Coded, Lasting,
         NEW h \in OtpRequests \cup Verifications, OtpStore(h)
  PROVE  Coded'
<1>1. /\ h \in Handlers /\ h \in OtpRequests /\ AtWork(h) /\ of[h] \in Parties
      /\ \A g \in Handlers \ {h} : pc'[g] = pc[g]
      /\ UNCHANGED <<of, code>> /\ otp' = [otp EXCEPT ![of[h]] = h]
      /\ issued' = [issued EXCEPT ![of[h]] = h]
  BY DEF OtpStore, OtpSaved, AccountTypeOK, Shape, Moves, Goes, AtWork, Resting,
     Handlers, Requests
<1>2. ASSUME NEW v \in Verifications, pc'[v] = "update"
      PROVE  code[v] = issued'[of[v]] \/ CodeBeside(v)'
  <2>1. v \in Handlers /\ v # h /\ pc[v] = "update" /\ AtWork(v) /\ of[v] \in Parties
    BY <1>1, <1>2, Names DEF AccountTypeOK, Shape, AtWork, Resting, Handlers, Requests
  <2>2. CASE of[v] = of[h]
    <3>1. Beside(h, v)
      BY <1>1, <2>1, <2>2 DEF Meeting
    <3> QED BY <1>1, <3>1 DEF CodeBeside, Lasting
  <2>3. CASE of[v] # of[h]
    BY <1>1, <2>1, <2>3 DEF Coded, Lasting, AccountTypeOK
  <2> QED BY <2>2, <2>3
<1>3. \A r \in Parties : otp'[r] \in {None, issued'[r]}
  BY <1>1 DEF Coded, AccountTypeOK
<1> QED BY <1>1, <1>2, <1>3 DEF Coded

\* The code the store holds is the last one stored.
LEMMA CompareOtpKeepsCoded ==
  ASSUME AccountTypeOK, Shape, Meeting, Ordered, Coded, Lasting,
         NEW h \in OtpRequests \cup Verifications, CompareOtp(h)
  PROVE  Coded'
<1>1. PICK s \in {"update", "refused"} :
        Moves(h, s) /\ (s = "update" => otp[of[h]] = code[h])
  BY DEF CompareOtp
<1>2. /\ h \in Handlers /\ h \in Verifications /\ pc[h] = "compare" /\ of[h] \in Parties
      /\ \A g \in Handlers \ {h} : pc'[g] = pc[g]
      /\ pc'[h] = s
      /\ UNCHANGED <<of, code, otp, issued>>
  <2>1. h \in Handlers /\ pc[h] = "compare" /\ UNCHANGED <<code, otp, issued>>
    BY DEF CompareOtp, codes, Handlers, Requests
  <2>2. h \in Verifications
    BY <2>1, Names DEF Shape, StepsOf, Resting, Handlers, Requests
  <2>3. of[h] \in Parties
    BY <2>1 DEF AccountTypeOK, Shape
  <2> QED BY <1>1, <2>1, <2>2, <2>3 DEF AccountTypeOK, Moves, Goes
<1>3. code[h] # None
  <2>1. code[h] \in Codes
    BY <1>2 DEF Ordered, AccountTypeOK
  <2> QED BY <2>1, Names DEF Codes, Handlers, Requests
<1>4. s = "update" => code[h] = issued[of[h]]
  BY <1>1, <1>2, <1>3 DEF Coded
<1>5. \A v \in Verifications : v \in Handlers
  BY DEF Handlers, Requests
<1> QED BY <1>2, <1>4, <1>5 DEF Coded, Lasting

\* The same when the request fails after the write.
LEMMA FailsStoringCodeKeepsCoded ==
  ASSUME AccountTypeOK, Shape, Meeting, Ordered, Coded, Lasting, NEW h \in Handlers,
         FailsStoringCode(h)
  PROVE  Coded'
<1>1. h \in OtpRequests \cup Parties /\ h \in Handlers /\ pc[h] = "otp"
  BY Names DEF FailsStoringCode, OtpSaved, Shape, StepsOf, Resting, Handlers, Requests
<1>2. /\ AtWork(h) /\ of[h] \in Parties
      /\ \A g \in Handlers \ {h} : pc'[g] = pc[g]
      /\ pc'[h] = "failed"
      /\ UNCHANGED <<of, code>> /\ otp' = [otp EXCEPT ![of[h]] = h]
      /\ issued' = [issued EXCEPT ![of[h]] = h]
  BY <1>1 DEF FailsStoringCode, Throws, OtpSaved, AccountTypeOK, Shape, Moves, Goes,
     AtWork, Resting
<1>3. ASSUME NEW v \in Verifications, pc'[v] = "update"
      PROVE  code[v] = issued'[of[v]] \/ CodeBeside(v)'
  <2>1. v \in Handlers /\ v # h /\ pc[v] = "update" /\ AtWork(v) /\ of[v] \in Parties
    BY <1>1, <1>2, <1>3 DEF AccountTypeOK, Shape, AtWork, Resting, Handlers, Requests
  <2>2. CASE of[v] = of[h]
    <3>1. Beside(h, v)
      BY <1>1, <1>2, <2>1, <2>2 DEF Meeting
    <3> QED BY <1>1, <3>1 DEF CodeBeside, Lasting
  <2>3. CASE of[v] # of[h]
    BY <1>2, <2>1, <2>3 DEF Coded, Lasting, AccountTypeOK
  <2> QED BY <2>2, <2>3
<1>4. \A r \in Parties : otp'[r] \in {None, issued'[r]}
  BY <1>2 DEF Coded, AccountTypeOK
<1> QED BY <1>2, <1>3, <1>4 DEF Coded

\* A code is compared with the last one stored, unless another is stored meanwhile.
LEMMA CodedStep ==
  ASSUME AccountTypeOK, Shape, Meeting, Ordered, Coded, Lasting, [AccountNext]_vars
  PROVE  Coded'
<1>1. CASE UNCHANGED <<pc, of, code, otp, issued, beside>>
  BY <1>1 DEF Coded, Lasting
<1>2. CASE UNCHANGED vars
  BY <1>1, <1>2 DEF vars, accountVars, documents, codes, sessions, factor, request,
     chainVars
<1>3. ASSUME NEW u \in Parties, Greet(u)
      PROVE  Coded'
  BY <1>1, <1>3 DEF Greet, documents, sessions, factor, request, chainVars
<1>4. ASSUME NEW c \in Creations, CreationRuns(c)
      PROVE  Coded'
  BY <1>1, <1>4 DEF CreationRuns, accountVars, documents, codes, sessions, factor,
     request
<1>5. ASSUME NEW u \in Parties, Register(u)  PROVE Coded'
  BY <1>5 DEF Coded, Lasting, Register, codes, Begins, Goes
<1>6. ASSUME NEW h \in Logins, NEW u \in Parties, LoginBegins(h, u)  PROVE Coded'
  BY <1>6 DEF Coded, Lasting, LoginBegins, codes, Begins, Goes
<1>7. ASSUME NEW h \in TokenRequests, NEW u \in Parties, TokenBegins(h, u)  PROVE Coded'
  BY <1>7 DEF Coded, Lasting, TokenBegins, codes, Begins, Goes
<1>8. ASSUME NEW h \in OtpRequests, NEW u \in Parties, OtpBegins(h, u)  PROVE Coded'
  BY <1>8 DEF Coded, Lasting, OtpBegins, codes, Authorised, Begins, Goes
<1>9. ASSUME NEW h \in Verifications, NEW u \in Parties, VerificationBegins(h, u)
      PROVE  Coded'
  BY <1>9 DEF Coded, Lasting, VerificationBegins, Authorised, Begins, Goes
<1>10. ASSUME NEW h \in PinRequests, NEW u \in Parties, PinBegins(h, u)  PROVE Coded'
  BY <1>10 DEF Coded, Lasting, PinBegins, codes, Authorised, Begins, Goes
<1>11. ASSUME NEW h \in ChainRequests, NEW u \in Parties, ChainBegins(h, u)
      PROVE  Coded'
  BY <1>11 DEF Coded, Lasting, ChainBegins, codes, Authorised, Begins, Goes
<1>12. ASSUME NEW h \in MfaGets, NEW u \in Parties, MfaGetBegins(h, u)  PROVE Coded'
  BY <1>12 DEF Coded, Lasting, MfaGetBegins, codes, Authorised, Begins, Goes
<1>13. ASSUME NEW h \in MfaPosts, NEW u \in Parties, MfaPostBegins(h, u)  PROVE Coded'
  BY <1>13 DEF Coded, Lasting, MfaPostBegins, codes, Authorised, Begins, Goes
<1>14. ASSUME NEW u \in Parties, CheckExisting(u)  PROVE Coded'
  BY <1>14 DEF AccountTypeOK, Handlers, Requests, Coded, Lasting, CheckExisting, codes,
     Moves, Goes
<1>15. ASSUME NEW u \in Parties, SaveAccount(u)  PROVE Coded'
  BY <1>15 DEF Coded, Lasting, SaveAccount, Moves, AccountSaved, Goes, codes
<1>16. ASSUME NEW u \in Parties, RegistrationOtp(u)  PROVE Coded'
  BY <1>16, RegistrationOtpKeepsCoded
<1>17. ASSUME NEW u \in Parties, RegistrationToken(u)  PROVE Coded'
  BY <1>17 DEF Coded, Lasting, RegistrationToken, Moves, TokenSaved, Goes, codes
<1>18. ASSUME NEW u \in Parties, Expire(u)  PROVE Coded'
  <2>1. UNCHANGED <<pc, of, code, issued>>
    BY <1>18 DEF Expire, request
  <2>2. \A r \in Parties : otp'[r] \in {None, otp[r]}
    BY <1>18 DEF Expire, AccountTypeOK
  <2> QED BY <2>1, <2>2 DEF Coded, Lasting
<1>19. ASSUME NEW h \in Logins \cup TokenRequests, ComparePassword(h)  PROVE Coded'
  BY <1>19 DEF AccountTypeOK, Handlers, Requests, Coded, Lasting, ComparePassword,
     codes, Moves, Goes
<1>20. ASSUME NEW h \in Logins \cup TokenRequests, LoginToken(h)  PROVE Coded'
  BY <1>20 DEF AccountTypeOK, Handlers, Requests, Coded, Lasting, LoginToken, Moves,
     TokenSaved, Goes, codes
<1>21. ASSUME NEW h \in Logins \cup TokenRequests, DeleteOld(h)  PROVE Coded'
  BY <1>21 DEF Coded, Lasting, DeleteOld, Moves, OldDeleted, Goes, codes
<1>22. ASSUME NEW h \in Logins \cup TokenRequests, ReadToken(h)  PROVE Coded'
  BY <1>22 DEF Coded, Lasting, ReadToken, codes, Moves, Goes
<1>23. ASSUME NEW h \in OtpRequests \cup Verifications, OtpGuard(h)  PROVE Coded'
  BY <1>23 DEF Coded, Lasting, OtpGuard, Guards, codes, Moves, Goes
<1>24. ASSUME NEW h \in OtpRequests \cup Verifications, OtpStore(h)  PROVE Coded'
  BY <1>24, OtpStoreKeepsCoded
<1>25. ASSUME NEW h \in OtpRequests \cup Verifications, OtpSend(h)  PROVE Coded'
  BY <1>25 DEF Coded, Lasting, OtpSend, Moves, Goes
<1>26. ASSUME NEW h \in OtpRequests \cup Verifications, VerificationGuard(h)
      PROVE  Coded'
  BY <1>26 DEF Coded, Lasting, VerificationGuard, Guards, codes, Moves, Goes
<1>27. ASSUME NEW h \in OtpRequests \cup Verifications, CompareOtp(h)  PROVE Coded'
  BY <1>27, CompareOtpKeepsCoded
<1>28. ASSUME NEW h \in OtpRequests \cup Verifications, Verify(h)  PROVE Coded'
  BY <1>28 DEF AccountTypeOK, Handlers, Requests, Coded, Lasting, Verify, Moves,
     VerificationSaved, Goes, codes
<1>29. ASSUME NEW h \in Creations, PinGuard(h)  PROVE Coded'
  BY <1>29, Names DEF Coded, Lasting, PinGuard, Guards, codes, Moves, Goes
<1>30. ASSUME NEW h \in Creations, SetPin(h)  PROVE Coded'
  BY <1>30 DEF Coded, Lasting, SetPin, Moves, PinSaved, Goes, codes
<1>31. ASSUME NEW h \in Creations, ChainGuard(h)  PROVE Coded'
  BY <1>31 DEF AccountTypeOK, Handlers, Requests, Coded, Lasting, ChainGuard, codes,
     Moves, Goes
<1>32. ASSUME NEW h \in Creations, WalletAnswered(h)  PROVE Coded'
  BY <1>32 DEF AccountTypeOK, Handlers, Requests, Coded, Lasting, WalletAnswered, codes,
     Moves, Goes
<1>33. ASSUME NEW h \in MfaGets \cup MfaPosts, MfaGetGuard(h)  PROVE Coded'
  BY <1>33 DEF Coded, Lasting, MfaGetGuard, Guards, codes, Moves, Goes
<1>34. ASSUME NEW h \in MfaGets \cup MfaPosts, MfaRecord(h)  PROVE Coded'
  BY <1>34 DEF Coded, Lasting, MfaRecord, codes, Moves, Goes
<1>35. ASSUME NEW h \in MfaGets \cup MfaPosts, MfaStore(h)  PROVE Coded'
  BY <1>35 DEF Coded, Lasting, MfaStore, Moves, SecretStored, Goes, codes
<1>36. ASSUME NEW h \in MfaGets \cup MfaPosts, MfaPostGuard(h)  PROVE Coded'
  BY <1>36 DEF Coded, Lasting, MfaPostGuard, Guards, codes, Moves, Goes
<1>37. ASSUME NEW h \in MfaGets \cup MfaPosts, MfaRead(h)  PROVE Coded'
  BY <1>37 DEF AccountTypeOK, Handlers, Requests, Coded, Lasting, MfaRead, codes, Moves,
     Goes
<1>38. ASSUME NEW h \in MfaGets \cup MfaPosts, MfaVerify(h)  PROVE Coded'
  BY <1>38, Names DEF Coded, Lasting, MfaVerify, codes, Moves, Goes
<1>39. ASSUME NEW h \in MfaGets \cup MfaPosts, MfaEnable(h)  PROVE Coded'
  BY <1>39 DEF Coded, Lasting, MfaEnable, Moves, SecretSaved, Goes, codes
<1>40. ASSUME NEW h \in Handlers, FailsUnwritten(h)  PROVE Coded'
  BY <1>40 DEF Coded, Lasting, FailsUnwritten, codes, Throws, Moves, Goes
<1>41. ASSUME NEW h \in Handlers, FailsSaving(h)  PROVE Coded'
  BY <1>41 DEF Coded, Lasting, FailsSaving, AccountSaved, Throws, codes, Moves, Goes
<1>42. ASSUME NEW h \in Handlers, FailsStoringCode(h)  PROVE Coded'
  BY <1>42, FailsStoringCodeKeepsCoded
<1>43. ASSUME NEW h \in Handlers, FailsSavingToken(h)  PROVE Coded'
  BY <1>43 DEF Coded, Lasting, FailsSavingToken, TokenSaved, Throws, codes, Moves, Goes
<1>44. ASSUME NEW h \in Handlers, FailsDeleting(h)  PROVE Coded'
  BY <1>44 DEF Coded, Lasting, FailsDeleting, OldDeleted, Throws, codes, Moves, Goes
<1>45. ASSUME NEW h \in Handlers, FailsVerifying(h)  PROVE Coded'
  BY <1>45 DEF Coded, Lasting, FailsVerifying, VerificationSaved, Throws, codes, Moves,
     Goes
<1>46. ASSUME NEW h \in Handlers, FailsSettingPin(h)  PROVE Coded'
  BY <1>46 DEF Coded, Lasting, FailsSettingPin, PinSaved, Throws, codes, Moves, Goes
<1>47. ASSUME NEW h \in Handlers, FailsEnabling(h)  PROVE Coded'
  BY <1>47 DEF Coded, Lasting, FailsEnabling, SecretSaved, Throws, codes, Moves, Goes
<1>48. ASSUME NEW h \in Handlers, FailsStoringSecret(h)  PROVE Coded'
  BY <1>48 DEF Coded, Lasting, FailsStoringSecret, SecretStored, Throws, codes, Moves,
     Goes
<1>49. CASE Crash
  BY <1>49 DEF Handlers, Requests, Coded, Lasting, Crash
<1>50. ASSUME NEW h \in Handlers, RequestFails(h)  PROVE Coded'
  BY <1>50, Failing, <1>40, <1>41, <1>42, <1>43, <1>44, <1>45, <1>46, <1>47, <1>48
<1> QED BY <1>1, <1>2, <1>3, <1>4, <1>5, <1>6, <1>7, <1>8, <1>9, <1>10, <1>11, <1>12,
   <1>13, <1>14, <1>15, <1>16, <1>17, <1>18, <1>19, <1>20, <1>21, <1>22, <1>23, <1>24,
   <1>25, <1>26, <1>27, <1>28, <1>29, <1>30, <1>31, <1>32, <1>33, <1>34, <1>35, <1>36,
   <1>37, <1>38, <1>39, <1>49, <1>50 DEF AccountNext, Arrives, RegistrationStep,
   SessionStep, VerificationStep, SetupStep, MfaStep

\* An expired secret leaves the store empty.
LEMMA ExpireKeepsSecrets ==
  ASSUME AccountTypeOK, Shape, Meeting, Secrets, Lasting, NEW u \in Parties, Expire(u)
  PROVE  Secrets'
<1>1. /\ UNCHANGED <<pc, of, shown, latest, read>>
      /\ \A r \in Parties : mfa'[r] \in {None, mfa[r]}
  BY DEF Expire, AccountTypeOK, request
<1> QED BY <1>1 DEF Secrets, Lasting, AccountTypeOK

\* A sign-in has no part in the secrets.
LEMMA LoginTokenKeepsSecrets ==
  ASSUME AccountTypeOK, Shape, Meeting, Secrets, Lasting,
         NEW h \in Logins \cup TokenRequests, LoginToken(h)
  PROVE  Secrets'
<1>1. PICK s \in {"done", "delete"} : Moves(h, s)
  BY DEF LoginToken
<1>2. /\ h \in Logins /\ h \in Handlers /\ pc[h] = "token"
      /\ UNCHANGED <<shown, mfa, latest, read>>
  BY DEF LoginToken, TokenSaved, factor, Handlers, Requests
<1>3. (\A g \in Handlers \ {h} : pc'[g] = pc[g]) /\ UNCHANGED of
  BY <1>1, <1>2 DEF AccountTypeOK, Moves, Goes
<1>4. (\A g \in MfaGets : g \in Handlers \ {h}) /\ (\A x \in MfaPosts : x \in Handlers \ {h})
  BY <1>2, Names DEF Handlers, Requests
<1> QED BY <1>2, <1>3, <1>4 DEF Secrets, Lasting, AccountTypeOK

\* Nor has a verification.
LEMMA VerifyKeepsSecrets ==
  ASSUME AccountTypeOK, Shape, Meeting, Secrets, Lasting,
         NEW h \in OtpRequests \cup Verifications, Verify(h)
  PROVE  Secrets'
<1>1. PICK s \in {"done", "wallet"} : Moves(h, s)
  BY DEF Verify
<1>2. /\ h \in Verifications /\ h \in Handlers
      /\ UNCHANGED <<shown, mfa, latest, read>>
  BY DEF Verify, VerificationSaved, factor, Handlers, Requests
<1>3. (\A g \in Handlers \ {h} : pc'[g] = pc[g]) /\ UNCHANGED of
  BY <1>1, <1>2 DEF AccountTypeOK, Moves, Goes
<1>4. (\A g \in MfaGets : g \in Handlers \ {h}) /\ (\A x \in MfaPosts : x \in Handlers \ {h})
  BY <1>2, Names DEF Handlers, Requests
<1> QED BY <1>2, <1>3, <1>4 DEF Secrets, Lasting, AccountTypeOK

\* Nor has a request for a chain.
LEMMA ChainGuardKeepsSecrets ==
  ASSUME AccountTypeOK, Shape, Meeting, Secrets, Lasting, NEW h \in Creations,
         ChainGuard(h)
  PROVE  Secrets'
<1>1. PICK s \in {"refused", "wallet"} : Moves(h, s)
  BY DEF ChainGuard
<1>2. /\ h \in ChainRequests /\ h \in Handlers
      /\ UNCHANGED <<shown, mfa, latest, read>>
  BY DEF ChainGuard, factor, Handlers, Requests
<1>3. (\A g \in Handlers \ {h} : pc'[g] = pc[g]) /\ UNCHANGED of
  BY <1>1, <1>2 DEF AccountTypeOK, Moves, Goes
<1>4. (\A g \in MfaGets : g \in Handlers \ {h}) /\ (\A x \in MfaPosts : x \in Handlers \ {h})
  BY <1>2, Names DEF Handlers, Requests
<1> QED BY <1>2, <1>3, <1>4 DEF Secrets, Lasting, AccountTypeOK

\* Nor has the answer to a request that had a wallet created.
LEMMA WalletAnsweredKeepsSecrets ==
  ASSUME AccountTypeOK, Shape, Meeting, Secrets, Lasting, NEW h \in Creations,
         WalletAnswered(h)
  PROVE  Secrets'
<1>1. PICK s \in {"done", "failed"} : Moves(h, s)
  BY DEF WalletAnswered
<1>2. /\ h \in Handlers /\ h \notin MfaGets \cup MfaPosts
      /\ UNCHANGED <<shown, mfa, latest, read>>
  BY Names, AccountAssumption DEF WalletAnswered, factor, Handlers, Requests
<1>3. (\A g \in Handlers \ {h} : pc'[g] = pc[g]) /\ UNCHANGED of
  BY <1>1, <1>2 DEF AccountTypeOK, Moves, Goes
<1>4. (\A g \in MfaGets : g \in Handlers \ {h}) /\ (\A x \in MfaPosts : x \in Handlers \ {h})
  BY <1>2 DEF Handlers, Requests
<1> QED BY <1>2, <1>3, <1>4 DEF Secrets, Lasting, AccountTypeOK

\* A secret is stored and answered beside the POSTs at work on the account.
LEMMA MfaStoreKeepsSecrets ==
  ASSUME AccountTypeOK, Shape, Meeting, Secrets, Lasting,
         NEW h \in MfaGets \cup MfaPosts, MfaStore(h)
  PROVE  Secrets'
<1>1. h \in MfaGets /\ h \in Handlers /\ pc[h] = "store"
  BY Names DEF Shape, MfaStore, SecretStored, StepsOf, Resting, Handlers, Requests
<1>2. /\ AtWork(h) /\ of[h] \in Parties
      /\ \A g \in Handlers \ {h} : pc'[g] = pc[g]
      /\ pc'[h] = "done" /\ UNCHANGED <<of, read>>
      /\ mfa' = [mfa EXCEPT ![of[h]] = h] /\ latest' = [latest EXCEPT ![of[h]] = h]
      /\ \A r \in Parties : shown'[r] \subseteq shown[r] \cup {h}
  BY <1>1 DEF MfaStore, SecretStored, AccountTypeOK, Shape, Moves, Goes, AtWork, Resting
<1>3. \A g \in MfaGets : pc[g] \in {"done", "failed"} => pc'[g] = pc[g]
  BY <1>1, <1>2 DEF Handlers, Requests
<1>4. ASSUME NEW r \in Parties
      PROVE  /\ \A g \in shown'[r] : pc'[g] = "done"
             /\ mfa'[r] # None => mfa'[r] = latest'[r] \/ (pc[mfa[r]] = "failed" /\ mfa'[r] = mfa[r])
  BY <1>1, <1>2, <1>3 DEF Secrets, AccountTypeOK
<1>5. ASSUME NEW x \in MfaPosts, pc'[x] \in {"verify", "update"}
      PROVE  /\ read[x] # None
             /\ \/ read[x] = latest'[of[x]] \/ (pc[read[x]] = "failed" /\ read[x] # h)
                \/ SecretBeside(x)'
  <2>1. x \in Handlers /\ x # h /\ pc[x] = pc'[x] /\ AtWork(x) /\ of[x] \in Parties
    BY <1>1, <1>2, <1>5, Names DEF AccountTypeOK, Shape, AtWork, Resting, Handlers,
       Requests
  <2>2. CASE of[x] = of[h]
    <3>1. Beside(h, x)
      BY <1>1, <1>2, <2>1, <2>2 DEF Meeting
    <3>2. SecretBeside(x)
      BY <1>1, <3>1 DEF SecretBeside
    <3> QED BY <1>5, <2>1, <3>2 DEF Secrets, Lasting
  <2>3. CASE of[x] # of[h]
    <3>1. latest'[of[x]] = latest[of[x]]
      BY <1>2, <2>1, <2>3 DEF AccountTypeOK
    <3> QED BY <1>1, <1>5, <2>1, <3>1 DEF Secrets, Lasting
  <2> QED BY <2>2, <2>3
<1> QED BY <1>1, <1>2, <1>3, <1>4, <1>5, Names DEF Secrets, AccountTypeOK, Handlers,
   Requests

\* The secret a POST reads is the last one answered, or one whose answer failed.
LEMMA MfaReadKeepsSecrets ==
  ASSUME AccountTypeOK, Shape, Meeting, Secrets, Lasting,
         NEW h \in MfaGets \cup MfaPosts, MfaRead(h)
  PROVE  Secrets'
<1>1. PICK s \in {"refused", "verify"} :
        /\ Moves(h, s)
        /\ s = "verify" => mfa[of[h]] # None /\ read' = [read EXCEPT ![h] = mfa[of[h]]]
        /\ s # "verify" => UNCHANGED read
  BY DEF MfaRead
<1>2. /\ h \in MfaPosts /\ h \in Handlers /\ pc[h] = "read" /\ of[h] \in Parties
      /\ UNCHANGED <<shown, mfa, latest>>
  BY DEF MfaRead, AccountTypeOK, Shape, Resting, Handlers, Requests
<1>3. (\A g \in Handlers \ {h} : pc'[g] = pc[g]) /\ pc'[h] = s /\ UNCHANGED of
  BY <1>1, <1>2 DEF AccountTypeOK, Moves, Goes
<1>4. (\A g \in MfaGets : g \in Handlers \ {h}) /\ (\A x \in MfaPosts : x \in Handlers)
  BY <1>2, Names DEF Handlers, Requests
<1>5. /\ \A x \in MfaPosts \ {h} : read'[x] = read[x]
      /\ s = "verify" => read'[h] = mfa[of[h]]
  BY <1>1, <1>2 DEF AccountTypeOK
<1>6. \A r \in Parties : mfa[r] # None => mfa[r] \in MfaGets
  BY DEF AccountTypeOK
<1>7. s = "verify" => read'[h] = latest[of[h]] \/ pc[read'[h]] = "failed"
  BY <1>1, <1>2, <1>5 DEF Secrets
<1>8. \A x \in MfaPosts : pc[x] \in {"verify", "update"} => read[x] \in MfaGets \cup {None}
  BY DEF AccountTypeOK
<1>9. None \notin Handlers
  BY Names
<1> QED BY <1>1, <1>2, <1>3, <1>4, <1>5, <1>6, <1>7, <1>8, <1>9 DEF Secrets, Lasting,
       AccountTypeOK

\* The store names the secret answered last, or one whose answer failed.
LEMMA SecretsStep ==
  ASSUME AccountTypeOK, Shape, Meeting, Secrets, Lasting, [AccountNext]_vars
  PROVE  Secrets'
<1>1. CASE UNCHANGED <<pc, of, shown, mfa, latest, read, beside>>
  BY <1>1 DEF Secrets, Lasting
<1>2. CASE UNCHANGED vars
  BY <1>1, <1>2 DEF vars, accountVars, documents, codes, sessions, factor, request,
     chainVars
<1>3. ASSUME NEW u \in Parties, Greet(u)
      PROVE  Secrets'
  BY <1>1, <1>3 DEF Greet, documents, sessions, factor, request, chainVars
<1>4. ASSUME NEW c \in Creations, CreationRuns(c)
      PROVE  Secrets'
  BY <1>1, <1>4 DEF CreationRuns, accountVars, documents, codes, sessions, factor,
     request
<1>5. ASSUME NEW u \in Parties, Register(u)  PROVE Secrets'
  BY <1>5 DEF Secrets, Lasting, Register, factor, Begins, Goes
<1>6. ASSUME NEW h \in Logins, NEW u \in Parties, LoginBegins(h, u)  PROVE Secrets'
  BY <1>6 DEF Secrets, Lasting, LoginBegins, factor, Begins, Goes
<1>7. ASSUME NEW h \in TokenRequests, NEW u \in Parties, TokenBegins(h, u)
      PROVE  Secrets'
  BY <1>7 DEF Secrets, Lasting, TokenBegins, factor, Begins, Goes
<1>8. ASSUME NEW h \in OtpRequests, NEW u \in Parties, OtpBegins(h, u)  PROVE Secrets'
  BY <1>8 DEF Secrets, Lasting, OtpBegins, factor, Authorised, Begins, Goes
<1>9. ASSUME NEW h \in Verifications, NEW u \in Parties, VerificationBegins(h, u)
      PROVE  Secrets'
  BY <1>9 DEF Secrets, Lasting, VerificationBegins, factor, Authorised, Begins, Goes
<1>10. ASSUME NEW h \in PinRequests, NEW u \in Parties, PinBegins(h, u)  PROVE Secrets'
  BY <1>10 DEF Secrets, Lasting, PinBegins, factor, Authorised, Begins, Goes
<1>11. ASSUME NEW h \in ChainRequests, NEW u \in Parties, ChainBegins(h, u)
      PROVE  Secrets'
  BY <1>11 DEF Secrets, Lasting, ChainBegins, factor, Authorised, Begins, Goes
<1>12. ASSUME NEW h \in MfaGets, NEW u \in Parties, MfaGetBegins(h, u)  PROVE Secrets'
  BY <1>12 DEF Secrets, Lasting, MfaGetBegins, factor, Authorised, Begins, Goes
<1>13. ASSUME NEW h \in MfaPosts, NEW u \in Parties, MfaPostBegins(h, u)  PROVE Secrets'
  BY <1>13 DEF Secrets, Lasting, MfaPostBegins, Authorised, Begins, Goes
<1>14. ASSUME NEW u \in Parties, CheckExisting(u)  PROVE Secrets'
  <2>1. CASE Moves(u, "save")
    BY <2>1, <1>14, Names DEF AccountTypeOK, Handlers, Requests, Resting, AtWork, Shape,
       Secrets, Lasting, StepsOf, UserRequests, CheckExisting, documents, codes,
       sessions, factor, Moves, chainVars, Goes
  <2>2. CASE Moves(u, "refused")
    BY <2>2, <1>14, Names DEF AccountTypeOK, Handlers, Requests, Resting, AtWork, Shape,
       Secrets, Lasting, StepsOf, UserRequests, CheckExisting, documents, codes,
       sessions, factor, Moves, chainVars, Goes
  <2> QED BY <1>14, <2>1, <2>2 DEF CheckExisting
<1>15. ASSUME NEW u \in Parties, SaveAccount(u)  PROVE Secrets'
  BY <1>15 DEF Secrets, Lasting, SaveAccount, Moves, AccountSaved, Goes, factor
<1>16. ASSUME NEW u \in Parties, RegistrationOtp(u)  PROVE Secrets'
  BY <1>16 DEF Secrets, Lasting, RegistrationOtp, Moves, OtpSaved, Goes, factor
<1>17. ASSUME NEW u \in Parties, RegistrationToken(u)  PROVE Secrets'
  BY <1>17 DEF Secrets, Lasting, RegistrationToken, Moves, TokenSaved, Goes, factor
<1>18. ASSUME NEW u \in Parties, Expire(u)  PROVE Secrets'
  BY <1>18, ExpireKeepsSecrets
<1>19. ASSUME NEW h \in Logins \cup TokenRequests, ComparePassword(h)  PROVE Secrets'
  <2>1. CASE Moves(h, "token")
    BY <2>1, <1>19, Names DEF AccountTypeOK, Handlers, Requests, Resting, AtWork, Shape,
       Secrets, Lasting, StepsOf, UserRequests, ComparePassword, documents, codes,
       sessions, factor, Moves, chainVars, Goes
  <2>2. CASE Moves(h, "refused")
    BY <2>2, <1>19, Names DEF AccountTypeOK, Handlers, Requests, Resting, AtWork, Shape,
       Secrets, Lasting, StepsOf, UserRequests, ComparePassword, documents, codes,
       sessions, factor, Moves, chainVars, Goes
  <2> QED BY <1>19, <2>1, <2>2 DEF ComparePassword
<1>20. ASSUME NEW h \in Logins \cup TokenRequests, LoginToken(h)  PROVE Secrets'
  BY <1>20, LoginTokenKeepsSecrets
<1>21. ASSUME NEW h \in Logins \cup TokenRequests, DeleteOld(h)  PROVE Secrets'
  BY <1>21 DEF Secrets, Lasting, DeleteOld, Moves, OldDeleted, Goes, factor
<1>22. ASSUME NEW h \in Logins \cup TokenRequests, ReadToken(h)  PROVE Secrets'
  BY <1>22 DEF Secrets, Lasting, ReadToken, factor, Moves, Goes
<1>23. ASSUME NEW h \in OtpRequests \cup Verifications, OtpGuard(h)  PROVE Secrets'
  BY <1>23 DEF Secrets, Lasting, OtpGuard, Guards, factor, Moves, Goes
<1>24. ASSUME NEW h \in OtpRequests \cup Verifications, OtpStore(h)  PROVE Secrets'
  BY <1>24 DEF Secrets, Lasting, OtpStore, Moves, OtpSaved, Goes, factor
<1>25. ASSUME NEW h \in OtpRequests \cup Verifications, OtpSend(h)  PROVE Secrets'
  BY <1>25 DEF Secrets, Lasting, OtpSend, factor, Moves, Goes
<1>26. ASSUME NEW h \in OtpRequests \cup Verifications, VerificationGuard(h)
      PROVE  Secrets'
  BY <1>26 DEF Secrets, Lasting, VerificationGuard, Guards, factor, Moves, Goes
<1>27. ASSUME NEW h \in OtpRequests \cup Verifications, CompareOtp(h)  PROVE Secrets'
  BY <1>27, Names DEF Secrets, Lasting, CompareOtp, factor, Moves, Goes
<1>28. ASSUME NEW h \in OtpRequests \cup Verifications, Verify(h)  PROVE Secrets'
  BY <1>28, VerifyKeepsSecrets
<1>29. ASSUME NEW h \in Creations, PinGuard(h)  PROVE Secrets'
  BY <1>29, Names DEF Secrets, Lasting, PinGuard, Guards, factor, Moves, Goes
<1>30. ASSUME NEW h \in Creations, SetPin(h)  PROVE Secrets'
  BY <1>30 DEF Secrets, Lasting, SetPin, Moves, PinSaved, Goes, factor
<1>31. ASSUME NEW h \in Creations, ChainGuard(h)  PROVE Secrets'
  BY <1>31, ChainGuardKeepsSecrets
<1>32. ASSUME NEW h \in Creations, WalletAnswered(h)  PROVE Secrets'
  BY <1>32, WalletAnsweredKeepsSecrets
<1>33. ASSUME NEW h \in MfaGets \cup MfaPosts, MfaGetGuard(h)  PROVE Secrets'
  BY <1>33 DEF Secrets, Lasting, MfaGetGuard, Guards, factor, Moves, Goes
<1>34. ASSUME NEW h \in MfaGets \cup MfaPosts, MfaRecord(h)  PROVE Secrets'
  BY <1>34 DEF Secrets, Lasting, MfaRecord, factor, Moves, Goes
<1>35. ASSUME NEW h \in MfaGets \cup MfaPosts, MfaStore(h)  PROVE Secrets'
  BY <1>35, MfaStoreKeepsSecrets
<1>36. ASSUME NEW h \in MfaGets \cup MfaPosts, MfaPostGuard(h)  PROVE Secrets'
  BY <1>36 DEF Secrets, Lasting, MfaPostGuard, Guards, factor, Moves, Goes
<1>37. ASSUME NEW h \in MfaGets \cup MfaPosts, MfaRead(h)  PROVE Secrets'
  BY <1>37, MfaReadKeepsSecrets
<1>38. ASSUME NEW h \in MfaGets \cup MfaPosts, MfaVerify(h)  PROVE Secrets'
  BY <1>38 DEF Secrets, Lasting, MfaVerify, factor, Moves, Goes
<1>39. ASSUME NEW h \in MfaGets \cup MfaPosts, MfaEnable(h)  PROVE Secrets'
  BY <1>39 DEF Secrets, Lasting, MfaEnable, Moves, SecretSaved, Goes
<1>40. ASSUME NEW h \in Handlers, FailsUnwritten(h)  PROVE Secrets'
  BY <1>40 DEF Resting, AtWork, Secrets, Lasting, FailsUnwritten, factor, Throws, Moves,
     Goes
<1>41. ASSUME NEW h \in Handlers, FailsSaving(h)  PROVE Secrets'
  BY <1>41 DEF Secrets, Lasting, FailsSaving, AccountSaved, Throws, factor, Moves, Goes
<1>42. ASSUME NEW h \in Handlers, FailsStoringCode(h)  PROVE Secrets'
  BY <1>42 DEF Secrets, Lasting, FailsStoringCode, OtpSaved, Throws, factor, Moves, Goes
<1>43. ASSUME NEW h \in Handlers, FailsSavingToken(h)  PROVE Secrets'
  BY <1>43 DEF Secrets, Lasting, FailsSavingToken, TokenSaved, Throws, factor, Moves,
     Goes
<1>44. ASSUME NEW h \in Handlers, FailsDeleting(h)  PROVE Secrets'
  BY <1>44 DEF Secrets, Lasting, FailsDeleting, OldDeleted, Throws, factor, Moves, Goes
<1>45. ASSUME NEW h \in Handlers, FailsVerifying(h)  PROVE Secrets'
  BY <1>45 DEF Secrets, Lasting, FailsVerifying, VerificationSaved, Throws, factor,
     Moves, Goes
<1>46. ASSUME NEW h \in Handlers, FailsSettingPin(h)  PROVE Secrets'
  BY <1>46 DEF Secrets, Lasting, FailsSettingPin, PinSaved, Throws, factor, Moves, Goes
<1>47. ASSUME NEW h \in Handlers, FailsEnabling(h)  PROVE Secrets'
  BY <1>47 DEF Secrets, Lasting, FailsEnabling, SecretSaved, Throws, Moves, Goes
<1>48. ASSUME NEW h \in Handlers, FailsStoringSecret(h)  PROVE Secrets'
  BY <1>48 DEF AccountTypeOK, Secrets, Lasting, FailsStoringSecret, SecretStored,
     Throws, Moves, Goes
<1>49. CASE Crash
  BY <1>49 DEF AccountTypeOK, Handlers, Requests, Resting, AtWork, Secrets, Crash,
     factor
<1>50. ASSUME NEW h \in Handlers, RequestFails(h)  PROVE Secrets'
  BY <1>50, Failing, <1>40, <1>41, <1>42, <1>43, <1>44, <1>45, <1>46, <1>47, <1>48
<1> QED BY <1>1, <1>2, <1>3, <1>4, <1>5, <1>6, <1>7, <1>8, <1>9, <1>10, <1>11, <1>12,
   <1>13, <1>14, <1>15, <1>16, <1>17, <1>18, <1>19, <1>20, <1>21, <1>22, <1>23, <1>24,
   <1>25, <1>26, <1>27, <1>28, <1>29, <1>30, <1>31, <1>32, <1>33, <1>34, <1>35, <1>36,
   <1>37, <1>38, <1>39, <1>49, <1>50 DEF AccountNext, Arrives, RegistrationStep,
   SessionStep, VerificationStep, SetupStep, MfaStep

\* A sign-in whose password is compared has no token yet.
LEMMA ComparePasswordKeepsTokened ==
  ASSUME AccountTypeOK, Shape, Meeting, Tokened, Lasting,
         NEW h \in Logins \cup TokenRequests, ComparePassword(h)
  PROVE  Tokened'
<1>1. PICK s \in {"token", "refused"} : Moves(h, s)
  BY DEF ComparePassword
<1>2. h \in Handlers /\ pc[h] = "password" /\ UNCHANGED <<tokens, held, old, faulted>>
  BY DEF ComparePassword, sessions, Handlers, Requests
<1>3. h \in Logins
  BY <1>2, Names DEF Shape, StepsOf, Resting, Handlers, Requests
<1>4. /\ \A g \in Handlers \ {h} : pc'[g] = pc[g]
      /\ pc'[h] \notin {"idle", "done", "delete", "read"} /\ UNCHANGED of
  BY <1>1, <1>2 DEF AccountTypeOK, Moves, Goes
<1>5. /\ Tokens \subseteq Handlers /\ Logins \subseteq Handlers
      /\ \A t \in TokenRequests : t \in Handlers \ {h}
  BY <1>3, Names DEF Tokens, Handlers, Requests
<1> QED BY <1>2, <1>3, <1>4, <1>5 DEF Tokened, Lasting, AccountTypeOK

\* The token saved is the sign-in's own; it is the client's once it is answered.
LEMMA LoginTokenKeepsTokened ==
  ASSUME AccountTypeOK, Shape, Tokened, Lasting, NEW h \in Logins \cup TokenRequests,
         LoginToken(h)
  PROVE  Tokened'
<1>1. h \in Logins /\ h \in Handlers /\ pc[h] = "token"
  BY DEF LoginToken, TokenSaved, Handlers, Requests
<1>2. /\ of[h] \in Parties /\ UNCHANGED <<of, old, faulted>>
      /\ \A g \in Handlers \ {h} : pc'[g] = pc[g]
      /\ tokens' = tokens \cup {h}
      /\ \/ old[h] = None /\ pc'[h] = "done" /\ held' = [held EXCEPT ![of[h]] = h]
         \/ old[h] # None /\ pc'[h] = "delete" /\ held' = held
  BY <1>1 DEF LoginToken, TokenSaved, Answered, AccountTypeOK, Shape, Moves, Goes
<1>3. Tokens \subseteq Handlers /\ Logins \subseteq Handlers /\ TokenRequests \subseteq Handlers
  BY DEF Tokens, Handlers, Requests
<1>4. \A g \in Handlers : pc[g] = "done" => pc'[g] = "done"
  BY <1>1, <1>2
<1>5. \A t \in tokens' : pc'[t] # "idle"
  BY <1>2, <1>3 DEF Tokened, AccountTypeOK
<1>6. ASSUME NEW r \in Parties, held'[r] # None
      PROVE  /\ of[held'[r]] = r /\ pc'[held'[r]] = "done"
             /\ r \notin faulted' /\ ~Strayed(r)' => held'[r] \in tokens'
  <2>1. CASE held'[r] = held[r]
    <3>1. held[r] \in Handlers
      BY <1>3, <1>6, <2>1 DEF AccountTypeOK
    <3> QED BY <1>2, <1>4, <1>6, <2>1, <3>1 DEF Tokened, Lasting
  <2>2. CASE held'[r] # held[r]
    <3>1. r = of[h] /\ held'[r] = h /\ pc'[h] = "done"
      BY <1>2, <2>2 DEF AccountTypeOK
    <3> QED BY <1>2, <3>1
  <2> QED BY <2>1, <2>2
<1>7. ASSUME NEW g \in Logins \cup TokenRequests, old[g] # None
      PROVE  pc'[g] # "idle" /\ pc'[old[g]] = "done"
  <2>1. old[g] \in Handlers /\ g \in Handlers
    BY <1>3, <1>7 DEF AccountTypeOK
  <2> QED BY <1>2, <1>4, <1>7, <2>1 DEF Tokened
<1>8. \A l \in Logins : pc'[l] = "delete" => l \in tokens' /\ old[l] # None
  BY <1>1, <1>2, <1>3 DEF Tokened
<1>9. ASSUME NEW t \in TokenRequests, pc'[t] \in {"read", "refused"}
      PROVE  \/ pc'[t] = "read" /\ old[t] \in tokens'
             \/ of[t] \in faulted' \/ Disturbed(t)'
  <2>1. pc'[t] = pc[t]
    BY <1>1, <1>2, <1>3, Names
  <2> QED BY <1>2, <1>9, <2>1 DEF Tokened, Lasting
<1> QED BY <1>2, <1>5, <1>6, <1>7, <1>8, <1>9 DEF Tokened

\* The token a sign-in deletes is one of its own account; the client holds the new one,
\* and a token request that was sent with the old one met the sign-in.
LEMMA DeleteOldKeepsTokened ==
  ASSUME AccountTypeOK, Shape, Meeting, Tokened, Lasting,
         NEW h \in Logins \cup TokenRequests, DeleteOld(h)
  PROVE  Tokened'
<1>1. h \in Logins /\ h \in Handlers /\ pc[h] = "delete"
  BY Names DEF Shape, DeleteOld, OldDeleted, StepsOf, Resting, Handlers, Requests
<1>2. /\ AtWork(h) /\ of[h] \in Parties /\ UNCHANGED <<of, old>>
      /\ \A g \in Handlers \ {h} : pc'[g] = pc[g]
      /\ pc'[h] = "done" /\ tokens' = tokens \ {old[h]}
  BY <1>1 DEF DeleteOld, OldDeleted, AccountTypeOK, Shape, Moves, Goes, AtWork, Resting
<1>3. faulted' = faulted /\ held' = [held EXCEPT ![of[h]] = h]
  BY <1>1, <1>2 DEF DeleteOld, Answered
<1>4. h \in tokens /\ old[h] # None /\ pc[old[h]] = "done"
  BY <1>1 DEF Tokened
<1>5. Tokens \subseteq Handlers /\ Logins \subseteq Handlers /\ TokenRequests \subseteq Handlers
  BY DEF Tokens, Handlers, Requests
<1>6. \A t \in Tokens : pc[t] = "done" => pc'[t] = "done"
  BY <1>1, <1>2, <1>5
<1>7. ASSUME NEW r \in Parties, held'[r] # None
      PROVE  /\ of[held'[r]] = r /\ pc'[held'[r]] = "done"
             /\ r \notin faulted' /\ ~Strayed(r)' => held'[r] \in tokens'
  <2>1. CASE r = of[h]
    BY <1>1, <1>2, <1>3, <1>4, <1>6, <1>7, <2>1 DEF Tokened, AccountTypeOK
  <2>2. CASE r # of[h]
    <3>1. held'[r] = held[r] /\ held[r] \in Tokens /\ of[held[r]] = r
      BY <1>3, <1>7, <2>2 DEF Tokened, AccountTypeOK
    <3>2. held[r] # old[h] \/ Strayed(r)'
      BY <1>1, <1>2, <1>4, <2>2, <3>1 DEF Strayed
    <3> QED BY <1>2, <1>3, <1>6, <1>7, <3>1, <3>2 DEF Tokened, Lasting
  <2> QED BY <2>1, <2>2
<1>8. ASSUME NEW t \in TokenRequests, pc'[t] \in {"read", "refused"}
      PROVE  \/ pc'[t] = "read" /\ old[t] \in tokens'
             \/ of[t] \in faulted' \/ Disturbed(t)'
  <2>1. t # h /\ pc'[t] = pc[t]
    BY <1>1, <1>2, <1>5, Names
  <2>2. CASE pc[t] = "read" /\ old[t] = old[h]
    <3>1. of[t] = of[old[h]] /\ AtWork(t)
      BY <1>4, <2>2 DEF Tokened, AtWork, Resting
    <3>2. Strayed(of[t]) \/ of[t] = of[h]
      BY <1>1, <1>4, <3>1 DEF Strayed
    <3>3. of[t] = of[h] => Beside(h, t)
      BY <1>1, <1>2, <1>5, <2>1, <3>1 DEF Meeting
    <3> QED BY <1>1, <3>2, <3>3 DEF Disturbed, Lasting
  <2>3. CASE ~(pc[t] = "read" /\ old[t] = old[h])
    BY <1>2, <1>3, <1>8, <2>1, <2>3 DEF Tokened, Lasting
  <2> QED BY <2>2, <2>3
<1>9. \A t \in tokens' : pc'[t] # "idle"
  BY <1>1, <1>2, <1>5 DEF Tokened, AccountTypeOK
<1>10. \A l \in Logins : pc'[l] = "delete" => l \in tokens' /\ old[l] # None
  BY <1>2, <1>4, <1>5 DEF Tokened
<1>11. \A l \in Logins \cup TokenRequests :
         old[l] # None => pc'[l] # "idle" /\ pc'[old[l]] = "done"
  BY <1>2, <1>5, <1>6 DEF Tokened, AccountTypeOK
<1> QED BY <1>2, <1>7, <1>8, <1>9, <1>10, <1>11 DEF Tokened

\* When the request fails after the deletion, the account is marked.
LEMMA FailsDeletingKeepsTokened ==
  ASSUME AccountTypeOK, Shape, Meeting, Tokened, Lasting, NEW h \in Handlers,
         FailsDeleting(h)
  PROVE  Tokened'
<1>1. h \in Logins /\ h \in Handlers /\ pc[h] = "delete"
  BY Names DEF Shape, FailsDeleting, Throws, OldDeleted, StepsOf, Resting, Handlers,
     Requests
<1>2. /\ AtWork(h) /\ of[h] \in Parties /\ UNCHANGED <<of, old>>
      /\ \A g \in Handlers \ {h} : pc'[g] = pc[g]
      /\ pc'[h] = "failed" /\ tokens' = tokens \ {old[h]}
  BY <1>1 DEF FailsDeleting, Throws, OldDeleted, AccountTypeOK, Shape, Moves, Goes,
     AtWork, Resting
<1>3. faulted' = faulted \cup {of[h]} /\ held' = held
  BY <1>1, <1>2 DEF FailsDeleting, Throws, Faults
<1>4. h \in tokens /\ old[h] # None /\ pc[old[h]] = "done"
  BY <1>1 DEF Tokened
<1>5. Tokens \subseteq Handlers /\ Logins \subseteq Handlers /\ TokenRequests \subseteq Handlers
  BY DEF Tokens, Handlers, Requests
<1>6. \A t \in Tokens : pc[t] = "done" => pc'[t] = "done"
  BY <1>1, <1>2, <1>5
<1>7. ASSUME NEW r \in Parties, held'[r] # None
      PROVE  /\ of[held'[r]] = r /\ pc'[held'[r]] = "done"
             /\ r \notin faulted' /\ ~Strayed(r)' => held'[r] \in tokens'
  <2>1. CASE r = of[h]
    BY <1>1, <1>2, <1>3, <1>4, <1>6, <1>7, <2>1 DEF Tokened, AccountTypeOK
  <2>2. CASE r # of[h]
    <3>1. held'[r] = held[r] /\ held[r] \in Tokens /\ of[held[r]] = r
      BY <1>3, <1>7, <2>2 DEF Tokened, AccountTypeOK
    <3>2. held[r] # old[h] \/ Strayed(r)'
      BY <1>1, <1>2, <1>4, <2>2, <3>1 DEF Strayed
    <3> QED BY <1>2, <1>3, <1>6, <1>7, <3>1, <3>2 DEF Tokened, Lasting
  <2> QED BY <2>1, <2>2
<1>8. ASSUME NEW t \in TokenRequests, pc'[t] \in {"read", "refused"}
      PROVE  \/ pc'[t] = "read" /\ old[t] \in tokens'
             \/ of[t] \in faulted' \/ Disturbed(t)'
  <2>1. t # h /\ pc'[t] = pc[t]
    BY <1>1, <1>2, <1>5, Names
  <2>2. CASE pc[t] = "read" /\ old[t] = old[h]
    <3>1. of[t] = of[old[h]] /\ AtWork(t)
      BY <1>4, <2>2 DEF Tokened, AtWork, Resting
    <3>2. Strayed(of[t]) \/ of[t] = of[h]
      BY <1>1, <1>4, <3>1 DEF Strayed
    <3>3. of[t] = of[h] => Beside(h, t)
      BY <1>1, <1>2, <1>5, <2>1, <3>1 DEF Meeting
    <3> QED BY <1>1, <3>2, <3>3 DEF Disturbed, Lasting
  <2>3. CASE ~(pc[t] = "read" /\ old[t] = old[h])
    BY <1>2, <1>3, <1>8, <2>1, <2>3 DEF Tokened, Lasting
  <2> QED BY <2>2, <2>3
<1>9. \A t \in tokens' : pc'[t] # "idle"
  BY <1>1, <1>2, <1>5 DEF Tokened, AccountTypeOK
<1>10. \A l \in Logins : pc'[l] = "delete" => l \in tokens' /\ old[l] # None
  BY <1>2, <1>4, <1>5 DEF Tokened
<1>11. \A l \in Logins \cup TokenRequests :
         old[l] # None => pc'[l] # "idle" /\ pc'[old[l]] = "done"
  BY <1>2, <1>5, <1>6 DEF Tokened, AccountTypeOK
<1> QED BY <1>2, <1>7, <1>8, <1>9, <1>10, <1>11 DEF Tokened

\* A sign-in is sent a token that was answered.
LEMMA LoginBeginsKeepsTokened ==
  ASSUME AccountTypeOK, Shape, Tokened, Lasting, NEW h \in Logins, NEW u \in Parties,
         LoginBegins(h, u)
  PROVE  Tokened'
<1>1. /\ Tokens \subseteq Handlers /\ Logins \subseteq Handlers
      /\ TokenRequests \subseteq Handlers /\ h \notin TokenRequests
  BY Names DEF Tokens, Handlers, Requests
<1>2. pc[h] = "idle" /\ of[h] = None /\ UNCHANGED <<tokens, held, faulted>>
  BY <1>1 DEF LoginBegins, Begins, Shape
<1>3. PICK t \in Given \cup {None} : old' = [old EXCEPT ![h] = t]
  BY DEF LoginBegins
<1>4. /\ pc'[h] = "password" /\ of'[h] = u /\ old'[h] = t
      /\ \A g \in Handlers \ {h} : pc'[g] = pc[g] /\ of'[g] = of[g]
      /\ \A g \in Logins \cup TokenRequests : g # h => old'[g] = old[g]
  BY <1>1, <1>3 DEF LoginBegins, Begins, Goes, AccountTypeOK
<1>5. t # None => pc[t] = "done" /\ t \in Tokens
  BY <1>3 DEF Given
<1>6. \A r \in tokens' : pc'[r] # "idle"
  BY <1>1, <1>2, <1>4 DEF Tokened, AccountTypeOK
<1>7. ASSUME NEW r \in Parties, held'[r] # None
      PROVE  /\ of'[held'[r]] = r /\ pc'[held'[r]] = "done"
             /\ r \notin faulted' /\ ~Strayed(r)' => held'[r] \in tokens'
  <2>1. held[r] \in Handlers \ {h} /\ pc[held[r]] = "done"
    BY <1>1, <1>2, <1>7 DEF Tokened, AccountTypeOK
  <2> QED BY <1>2, <1>4, <1>7, <2>1 DEF Tokened, Lasting
<1>8. ASSUME NEW g \in Logins \cup TokenRequests, old'[g] # None
      PROVE  pc'[g] # "idle" /\ pc'[old'[g]] = "done"
  <2>1. CASE g = h
    BY <1>1, <1>2, <1>4, <1>5, <1>8, <2>1
  <2>2. CASE g # h
    <3>1. pc[g] # "idle" /\ pc[old[g]] = "done" /\ old[g] \in Handlers \ {h}
      BY <1>1, <1>2, <1>4, <1>8, <2>2 DEF Tokened, AccountTypeOK
    <3> QED BY <1>1, <1>4, <2>2, <3>1
  <2> QED BY <2>1, <2>2
<1>9. ASSUME NEW r \in TokenRequests
      PROVE  /\ old'[r] # None => of'[old'[r]] = of'[r]
             /\ pc'[r] \in {"read", "refused"} =>
                  \/ pc'[r] = "read" /\ old'[r] \in tokens'
                  \/ of'[r] \in faulted' \/ Disturbed(r)'
  <2>1. r # h /\ old'[r] = old[r] /\ pc'[r] = pc[r] /\ of'[r] = of[r]
    BY <1>1, <1>4
  <2>2. old[r] # None => old[r] \in Handlers \ {h}
    BY <1>1, <1>2 DEF Tokened, AccountTypeOK
  <2> QED BY <1>2, <1>4, <2>1, <2>2 DEF Tokened, Lasting
<1>10. \A l \in Logins : pc'[l] = "delete" => l \in tokens' /\ old'[l] # None
  BY <1>1, <1>2, <1>4 DEF Tokened
<1> QED BY <1>6, <1>7, <1>8, <1>9, <1>10 DEF Tokened

\* A request for an access token is sent the token the client holds.
LEMMA TokenBeginsKeepsTokened ==
  ASSUME AccountTypeOK, Shape, Tokened, Lasting, NEW h \in TokenRequests,
         NEW u \in Parties, TokenBegins(h, u)
  PROVE  Tokened'
<1>1. /\ Tokens \subseteq Handlers /\ Logins \subseteq Handlers
      /\ TokenRequests \subseteq Handlers /\ h \notin Logins
  BY Names DEF Tokens, Handlers, Requests
<1>2. /\ pc[h] = "idle" /\ of[h] = None /\ UNCHANGED <<tokens, held, faulted>>
      /\ held[u] # None
  BY <1>1 DEF TokenBegins, Begins, Shape
<1>3. /\ pc'[h] = "read" /\ of'[h] = u /\ old'[h] = held[u]
      /\ \A g \in Handlers \ {h} : pc'[g] = pc[g] /\ of'[g] = of[g]
      /\ \A g \in Logins \cup TokenRequests : g # h => old'[g] = old[g]
  BY <1>1 DEF TokenBegins, Begins, Goes, AccountTypeOK
<1>4. \A r \in tokens' : pc'[r] # "idle"
  BY <1>1, <1>2, <1>3 DEF Tokened, AccountTypeOK
<1>5. ASSUME NEW r \in Parties, held'[r] # None
      PROVE  /\ of'[held'[r]] = r /\ pc'[held'[r]] = "done"
             /\ r \notin faulted' /\ ~Strayed(r)' => held'[r] \in tokens'
  <2>1. held[r] \in Handlers \ {h} /\ pc[held[r]] = "done"
    BY <1>1, <1>2, <1>5 DEF Tokened, AccountTypeOK
  <2> QED BY <1>2, <1>3, <1>5, <2>1 DEF Tokened, Lasting
<1>6. ASSUME NEW g \in Logins \cup TokenRequests, old'[g] # None
      PROVE  pc'[g] # "idle" /\ pc'[old'[g]] = "done"
  <2>1. CASE g = h
    BY <1>2, <1>3, <1>5, <2>1
  <2>2. CASE g # h
    <3>1. pc[g] # "idle" /\ pc[old[g]] = "done" /\ old[g] \in Handlers \ {h}
      BY <1>1, <1>2, <1>3, <1>6, <2>2 DEF Tokened, AccountTypeOK
    <3> QED BY <1>1, <1>3, <2>2, <3>1
  <2> QED BY <2>1, <2>2
<1>7. ASSUME NEW r \in TokenRequests
      PROVE  /\ old'[r] # None => of'[old'[r]] = of'[r]
             /\ pc'[r] \in {"read", "refused"} =>
                  \/ pc'[r] = "read" /\ old'[r] \in tokens'
                  \/ of'[r] \in faulted' \/ Disturbed(r)'
  <2>1. CASE r = h
    BY <1>2, <1>3, <1>5, <2>1 DEF Disturbed
  <2>2. CASE r # h
    <3>1. old'[r] = old[r] /\ pc'[r] = pc[r] /\ of'[r] = of[r]
      BY <1>1, <1>3, <2>2
    <3>2. old[r] # None => old[r] \in Handlers \ {h}
      BY <1>1, <1>2 DEF Tokened, AccountTypeOK
    <3> QED BY <1>2, <1>3, <3>1, <3>2 DEF Tokened, Lasting
  <2> QED BY <2>1, <2>2
<1>8. \A l \in Logins : pc'[l] = "delete" => l \in tokens' /\ old'[l] # None
  BY <1>1, <1>2, <1>3 DEF Tokened
<1> QED BY <1>4, <1>5, <1>6, <1>7, <1>8 DEF Tokened

\* A handler that goes on without touching a token.
LEMMA MoveKeepsTokened ==
  ASSUME AccountTypeOK, Tokened, Lasting,
         NEW h \in Handlers, h \notin TokenRequests, pc[h] # "done",
         NEW s, s \notin {"idle", "delete"}, pc' = [pc EXCEPT ![h] = s],
         UNCHANGED <<of, tokens, held, old>>, faulted \subseteq faulted'
  PROVE  Tokened'
<1>1. pc'[h] = s /\ \A g \in Handlers \ {h} : pc'[g] = pc[g]
  BY DEF AccountTypeOK
<1>2. Tokens \subseteq Handlers /\ Logins \subseteq Handlers /\ TokenRequests \subseteq Handlers
  BY DEF Tokens, Handlers, Requests
<1>3. \A u \in Parties : held[u] # None => held[u] \in Handlers
  BY <1>2 DEF AccountTypeOK
<1>4. \A g \in Logins \cup TokenRequests : old[g] # None => old[g] \in Handlers
  BY <1>2 DEF AccountTypeOK
<1>5. \A t \in TokenRequests : t # h /\ (Disturbed(t) => Disturbed(t)')
  BY DEF Lasting
<1>6. \A u \in Parties : Strayed(u) => Strayed(u)'
  BY DEF Lasting
<1> QED BY <1>1, <1>2, <1>3, <1>4, <1>5, <1>6 DEF Tokened, AccountTypeOK

\* A client holds the last token answered; only a sign-in that was sent it deletes it.
LEMMA TokenedStep ==
  ASSUME AccountTypeOK, Shape, Meeting, Tokened, Lasting, [AccountNext]_vars
  PROVE  Tokened'
<1>1. CASE UNCHANGED <<pc, of, tokens, held, old, beside, faulted>>
  BY <1>1 DEF Tokened, Lasting
<1>2. CASE UNCHANGED vars
  BY <1>1, <1>2 DEF vars, accountVars, documents, codes, sessions, factor, request,
     chainVars
<1>3. ASSUME NEW u \in Parties, Greet(u) \/ Expire(u)
      PROVE  Tokened'
  BY <1>1, <1>3 DEF Greet, documents, sessions, factor, request, chainVars, Expire
<1>4. ASSUME NEW c \in Creations, CreationRuns(c)
      PROVE  Tokened'
  BY <1>1, <1>4 DEF CreationRuns, accountVars, documents, codes, sessions, factor,
     request
<1>5. ASSUME NEW u \in Parties, Register(u)  PROVE Tokened'
  BY <1>5 DEF AccountTypeOK, Handlers, Requests, Shape, Tokened, Lasting, Tokens,
     Register, sessions, Begins, Goes
<1>6. ASSUME NEW h \in Logins, NEW u \in Parties, LoginBegins(h, u)  PROVE Tokened'
  BY <1>6, LoginBeginsKeepsTokened
<1>7. ASSUME NEW h \in TokenRequests, NEW u \in Parties, TokenBegins(h, u)
      PROVE  Tokened'
  BY <1>7, TokenBeginsKeepsTokened
<1>8. ASSUME NEW h \in OtpRequests, NEW u \in Parties, OtpBegins(h, u)  PROVE Tokened'
  BY <1>8 DEF AccountTypeOK, Handlers, Requests, Shape, Tokened, Lasting, Tokens,
     OtpBegins, sessions, Authorised, Begins, Goes
<1>9. ASSUME NEW h \in Verifications, NEW u \in Parties, VerificationBegins(h, u)
      PROVE  Tokened'
  BY <1>9 DEF AccountTypeOK, Handlers, Requests, Shape, Tokened, Lasting, Tokens,
     VerificationBegins, sessions, Authorised, Begins, Goes
<1>10. ASSUME NEW h \in PinRequests, NEW u \in Parties, PinBegins(h, u)  PROVE Tokened'
  BY <1>10 DEF AccountTypeOK, Handlers, Requests, Shape, Tokened, Lasting, Tokens,
     PinBegins, sessions, Authorised, Begins, Goes
<1>11. ASSUME NEW h \in ChainRequests, NEW u \in Parties, ChainBegins(h, u)
      PROVE  Tokened'
  BY <1>11 DEF AccountTypeOK, Handlers, Requests, Shape, Tokened, Lasting, Tokens,
     ChainBegins, sessions, Authorised, Begins, Goes
<1>12. ASSUME NEW h \in MfaGets, NEW u \in Parties, MfaGetBegins(h, u)  PROVE Tokened'
  BY <1>12 DEF AccountTypeOK, Handlers, Requests, Shape, Tokened, Lasting, Tokens,
     MfaGetBegins, sessions, Authorised, Begins, Goes
<1>13. ASSUME NEW h \in MfaPosts, NEW u \in Parties, MfaPostBegins(h, u)  PROVE Tokened'
  BY <1>13 DEF AccountTypeOK, Handlers, Requests, Shape, Tokened, Lasting, Tokens,
     MfaPostBegins, sessions, Authorised, Begins, Goes
<1>14. ASSUME NEW u \in Parties, CheckExisting(u)  PROVE Tokened'
  <2>1. PICK s \in {"save", "refused"} : Moves(u, s)
    BY <1>14 DEF CheckExisting
  <2>2. /\ u \in Handlers /\ u \notin TokenRequests /\ pc[u] = "check"
        /\ UNCHANGED <<of, tokens, held, old, faulted>>
    BY <1>14, <2>1, Names DEF CheckExisting, Moves, sessions, Handlers, Requests
  <2> QED BY <2>1, <2>2, MoveKeepsTokened DEF Moves, Goes
<1>15. ASSUME NEW u \in Parties, SaveAccount(u)  PROVE Tokened'
  BY <1>15 DEF Tokened, Lasting, SaveAccount, Moves, AccountSaved, Goes, sessions
<1>16. ASSUME NEW u \in Parties, RegistrationOtp(u)  PROVE Tokened'
  BY <1>16 DEF Tokened, Lasting, RegistrationOtp, Moves, OtpSaved, Goes, sessions
<1>17. ASSUME NEW u \in Parties, RegistrationToken(u)  PROVE Tokened'
  BY <1>17 DEF AccountTypeOK, Handlers, Tokened, Lasting, RegistrationToken, Moves,
     TokenSaved, Answered, Goes
<1>18. ASSUME NEW h \in Logins \cup TokenRequests, ComparePassword(h)  PROVE Tokened'
  BY <1>18, ComparePasswordKeepsTokened
<1>19. ASSUME NEW h \in Logins \cup TokenRequests, LoginToken(h)  PROVE Tokened'
  BY <1>19, LoginTokenKeepsTokened
<1>20. ASSUME NEW h \in Logins \cup TokenRequests, DeleteOld(h)  PROVE Tokened'
  BY <1>20, DeleteOldKeepsTokened
<1>21. ASSUME NEW h \in Logins \cup TokenRequests, ReadToken(h)  PROVE Tokened'
  BY <1>21 DEF Tokened, Lasting, ReadToken, sessions, Moves, Goes
<1>22. ASSUME NEW h \in OtpRequests \cup Verifications, OtpGuard(h)  PROVE Tokened'
  BY <1>22, Names DEF Tokened, Lasting, OtpGuard, Guards, sessions, Moves, Goes
<1>23. ASSUME NEW h \in OtpRequests \cup Verifications, OtpStore(h)  PROVE Tokened'
  BY <1>23 DEF Tokened, Lasting, OtpStore, Moves, OtpSaved, Goes, sessions
<1>24. ASSUME NEW h \in OtpRequests \cup Verifications, OtpSend(h)  PROVE Tokened'
  BY <1>24 DEF Tokened, Lasting, OtpSend, sessions, Moves, Goes
<1>25. ASSUME NEW h \in OtpRequests \cup Verifications, VerificationGuard(h)
      PROVE  Tokened'
  BY <1>25, Names DEF Tokened, Lasting, VerificationGuard, Guards, sessions, Moves, Goes
<1>26. ASSUME NEW h \in OtpRequests \cup Verifications, CompareOtp(h)  PROVE Tokened'
  BY <1>26, Names DEF Tokened, Lasting, CompareOtp, sessions, Moves, Goes
<1>27. ASSUME NEW h \in OtpRequests \cup Verifications, Verify(h)  PROVE Tokened'
  <2>1. PICK s \in {"done", "wallet"} : Moves(h, s)
    BY <1>27 DEF Verify
  <2>2. /\ h \in Handlers /\ h \notin TokenRequests /\ pc[h] = "update"
        /\ UNCHANGED <<of, tokens, held, old, faulted>>
    BY <1>27, <2>1, Names DEF Verify, VerificationSaved, Moves, sessions, Handlers,
       Requests
  <2> QED BY <2>1, <2>2, MoveKeepsTokened DEF Moves, Goes
<1>28. ASSUME NEW h \in Creations, PinGuard(h)  PROVE Tokened'
  BY <1>28, Names DEF Tokened, Lasting, PinGuard, Guards, sessions, Moves, Goes
<1>29. ASSUME NEW h \in Creations, SetPin(h)  PROVE Tokened'
  BY <1>29 DEF Tokened, Lasting, SetPin, Moves, PinSaved, Goes, sessions
<1>30. ASSUME NEW h \in Creations, ChainGuard(h)  PROVE Tokened'
  <2>1. PICK s \in {"wallet", "refused"} : Moves(h, s)
    BY <1>30 DEF ChainGuard
  <2>2. /\ h \in Handlers /\ h \notin TokenRequests /\ pc[h] = "guard"
        /\ UNCHANGED <<of, tokens, held, old, faulted>>
    BY <1>30, <2>1, Names DEF ChainGuard, Moves, sessions, Handlers, Requests
  <2> QED BY <2>1, <2>2, MoveKeepsTokened DEF Moves, Goes
<1>31. ASSUME NEW h \in Creations, WalletAnswered(h)  PROVE Tokened'
  BY <1>31, Names DEF AccountTypeOK, Handlers, Requests, Resting, Tokened, Lasting,
     Tokens, StepsOf, WalletAnswered, sessions, Moves, Faults, Goes
<1>32. ASSUME NEW h \in MfaGets \cup MfaPosts, MfaGetGuard(h)  PROVE Tokened'
  BY <1>32, Names DEF Tokened, Lasting, MfaGetGuard, Guards, sessions, Moves, Goes
<1>33. ASSUME NEW h \in MfaGets \cup MfaPosts, MfaRecord(h)  PROVE Tokened'
  BY <1>33 DEF Tokened, Lasting, MfaRecord, sessions, Moves, Goes
<1>34. ASSUME NEW h \in MfaGets \cup MfaPosts, MfaStore(h)  PROVE Tokened'
  BY <1>34 DEF Tokened, Lasting, MfaStore, Moves, SecretStored, Goes, sessions
<1>35. ASSUME NEW h \in MfaGets \cup MfaPosts, MfaPostGuard(h)  PROVE Tokened'
  BY <1>35, Names DEF Tokened, Lasting, MfaPostGuard, Guards, sessions, Moves, Goes
<1>36. ASSUME NEW h \in MfaGets \cup MfaPosts, MfaRead(h)  PROVE Tokened'
  BY <1>36, Names DEF AccountTypeOK, Handlers, Requests, AtWork, Tokened, Lasting,
     Tokens, MfaRead, sessions, Moves, chainVars, Goes
<1>37. ASSUME NEW h \in MfaGets \cup MfaPosts, MfaVerify(h)  PROVE Tokened'
  BY <1>37, Names DEF Tokened, Lasting, MfaVerify, sessions, Moves, Goes
<1>38. ASSUME NEW h \in MfaGets \cup MfaPosts, MfaEnable(h)  PROVE Tokened'
  BY <1>38 DEF Tokened, Lasting, MfaEnable, Moves, SecretSaved, Goes, sessions
<1>39. ASSUME NEW h \in Handlers, FailsUnwritten(h)  PROVE Tokened'
  BY <1>39 DEF Resting, AtWork, Tokened, Lasting, FailsUnwritten, sessions, Throws,
     Moves, Faults, Goes
<1>40. ASSUME NEW h \in Handlers, FailsSaving(h)  PROVE Tokened'
  BY <1>40 DEF Tokened, Lasting, FailsSaving, AccountSaved, Throws, sessions, Moves,
     Faults, Goes
<1>41. ASSUME NEW h \in Handlers, FailsStoringCode(h)  PROVE Tokened'
  BY <1>41 DEF Tokened, Lasting, FailsStoringCode, OtpSaved, Throws, sessions, Moves,
     Faults, Goes
<1>42. ASSUME NEW h \in Handlers, FailsSavingToken(h)  PROVE Tokened'
  BY <1>42 DEF Tokened, Lasting, FailsSavingToken, TokenSaved, Throws, Moves, Faults,
     Goes
<1>43. ASSUME NEW h \in Handlers, FailsDeleting(h)  PROVE Tokened'
  BY <1>43, FailsDeletingKeepsTokened
<1>44. ASSUME NEW h \in Handlers, FailsVerifying(h)  PROVE Tokened'
  BY <1>44 DEF Tokened, Lasting, FailsVerifying, VerificationSaved, Throws, sessions,
     Moves, Faults, Goes
<1>45. ASSUME NEW h \in Handlers, FailsSettingPin(h)  PROVE Tokened'
  BY <1>45 DEF Tokened, Lasting, FailsSettingPin, PinSaved, Throws, sessions, Moves,
     Faults, Goes
<1>46. ASSUME NEW h \in Handlers, FailsEnabling(h)  PROVE Tokened'
  BY <1>46 DEF Tokened, Lasting, FailsEnabling, SecretSaved, Throws, sessions, Moves,
     Faults, Goes
<1>47. ASSUME NEW h \in Handlers, FailsStoringSecret(h)  PROVE Tokened'
  BY <1>47 DEF Tokened, Lasting, FailsStoringSecret, SecretStored, Throws, sessions,
     Moves, Faults, Goes
<1>48. CASE Crash
  BY <1>48 DEF AccountTypeOK, Handlers, Requests, Resting, AtWork, Tokened, Lasting,
     Tokens, Crash, sessions
<1>49. ASSUME NEW h \in Handlers, RequestFails(h)  PROVE Tokened'
  BY <1>49, Failing, <1>39, <1>40, <1>41, <1>42, <1>43, <1>44, <1>45, <1>46, <1>47
<1> QED BY <1>1, <1>2, <1>3, <1>4, <1>5, <1>6, <1>7, <1>8, <1>9, <1>10, <1>11, <1>12,
   <1>13, <1>14, <1>15, <1>16, <1>17, <1>18, <1>19, <1>20, <1>21, <1>22, <1>23, <1>24,
   <1>25, <1>26, <1>27, <1>28, <1>29, <1>30, <1>31, <1>32, <1>33, <1>34, <1>35, <1>36,
   <1>37, <1>38, <1>48, <1>49 DEF AccountNext, Arrives, RegistrationStep, SessionStep,
   VerificationStep, SetupStep, MfaStep

\* A step that makes no sign-in, token or deletion of the account keeps its sessions.
LEMMA SessionsLast ==
  ASSUME AccountTypeOK, Shape, Shape', Tokened, Tokened', Sessions, Kept, Lasting, NEW a,
         SessionsOnlyOf(a), NEW u \in Parties \ {a}
  PROVE  SessionsAt(u)'
<1>1. /\ u # None /\ u \in Handlers /\ u \in Tokens
      /\ Tokens \subseteq Handlers /\ Logins \subseteq Handlers
  BY Names DEF Tokens, Handlers, Requests
<1> SUFFICES ASSUME u \notin faulted', ~Strayed(u)'
             PROVE  Remaining(u)' /\ (Orderly(u)' => Replaced(u)')
  BY DEF SessionsAt, Orderly
<1>2. u \notin faulted /\ ~Strayed(u) /\ Remaining(u)
  BY DEF Kept, Lasting, Sessions, SessionsAt
<1>3. /\ held'[u] = held[u]
      /\ \A t \in Tokens : of'[t] = u => (t \in tokens' <=> t \in tokens)
      /\ pc'[u] = "done" => pc[u] = "done"
      /\ \A l \in Logins :
           of'[l] = u => /\ pc'[l] = "token" <=> pc[l] = "token"
                         /\ pc'[l] = "delete" <=> pc[l] = "delete"
                         /\ pc'[l] = "done" <=> pc[l] = "done"
  BY DEF SessionsOnlyOf
<1>4. \A h \in Handlers : /\ pc[h] # "idle" => of'[h] = of[h]
                          /\ of[h] = u => of'[h] = u /\ pc[h] # "idle"
                          /\ pc[h] = "done" => pc'[h] = "done"
  BY <1>1 DEF Kept, Shape
<1>5. ASSUME NEW l \in Logins
      PROVE  l \in SignIns(u)' <=> l \in SignIns(u)
  BY <1>1, <1>3, <1>4 DEF SignIns
<1>6. SignIns(u)' = SignIns(u)
  BY <1>5 DEF SignIns
<1>7. \A l \in Logins : pc[l] # "idle" => old'[l] = old[l]
  BY DEF Kept
<1>8. ASSUME NEW t \in Tokens, of'[t] = u
      PROVE  /\ pc'[t] = "done" <=> pc[t] = "done"
             /\ pc'[t] = "delete" <=> pc[t] = "delete"
  <2>1. CASE t \in Logins
    BY <1>3, <1>8, <2>1
  <2>2. CASE t \in Parties
    <3>1. t = u
      BY <1>1, <1>8, <2>2 DEF Shape
    <3>2. pc[t] # "delete" /\ pc'[t] # "delete"
      BY <2>2 DEF Shape, StepsOf, Resting, Handlers
    <3> QED BY <1>1, <1>3, <1>4, <3>1, <3>2
  <2> QED BY <2>1, <2>2 DEF Tokens
<1>9. ASSUME NEW t \in Tokens, of'[t] = u
      PROVE  t \in tokens' <=> /\ pc'[t] \in {"done", "delete"}
                               /\ \A l \in Logins : pc'[l] = "done" => old'[l] # t
  <2>1. t \in tokens \/ pc[t] \in {"done", "delete"} => of[t] = u
    BY <1>1, <1>4, <1>9 DEF Tokened
  <2>2. (\E l \in Logins : pc'[l] = "done" /\ old'[l] = t)
          <=> (\E l \in Logins : pc[l] = "done" /\ old[l] = t)
    <3>1. ASSUME NEW l \in Logins, pc[l] = "done", old[l] = t
          PROVE  pc'[l] = "done" /\ old'[l] = t
      BY <1>1, <1>4, <1>7, <3>1
    <3>2. ASSUME NEW l \in Logins, pc'[l] = "done", old'[l] = t
          PROVE  pc[l] = "done" /\ old[l] = t
      <4>1. t # None
        BY <1>1, Names
      <4>2. of'[l] = u
        BY <1>9, <3>2, <4>1 DEF Strayed
      <4> QED BY <1>3, <1>7, <3>2, <4>2
    <3> QED BY <3>1, <3>2
  <2> QED BY <1>2, <1>3, <1>8, <1>9, <2>1, <2>2 DEF Remaining
<1>10. Remaining(u)'
  BY <1>9 DEF Remaining
<1>11. ASSUME Orderly(u)'  PROVE Replaced(u)'
  <2>1. ASSUME NEW l \in SignIns(u)
        PROVE  /\ l \in Logins /\ l \in SignIns(u)' /\ old'[l] = old[l]
               /\ pc'[l] = "done" <=> pc[l] = "done"
    BY <1>1, <1>3, <1>4, <1>6, <1>7 DEF SignIns
  <2>2. ASSUME NEW t \in Tokens
        PROVE  t \in GivenTo(u)' <=> t \in GivenTo(u)
    BY <1>1, <1>4, <1>8 DEF GivenTo, Given
  <2>3. GivenTo(u)' = GivenTo(u)
    BY <2>2 DEF GivenTo, Given
  <2>4. \A l \in SignIns(u) : old[l] # None /\ of[old[l]] = u
    <3> TAKE l \in SignIns(u)
    <3>1. old'[l] = old[l] /\ old'[l] # None /\ of'[old[l]] = u
      BY <1>11, <2>1 DEF Orderly
    <3>2. old[l] \in Handlers /\ pc[old[l]] = "done"
      BY <1>1, <2>1, <3>1 DEF Tokened, AccountTypeOK
    <3> QED BY <1>4, <3>1, <3>2
  <2>5. \A k, l \in SignIns(u) : old[k] = old[l] => k = l
    BY <1>11, <2>1 DEF Orderly
  <2>6. Replaced(u)
    BY <1>2, <2>4, <2>5 DEF Orderly, Sessions, SessionsAt
  <2>7. pc'[u] # "done" => pc[u] # "done"
    BY <1>1, <1>4
  <2> QED BY <1>3, <1>6, <2>1, <2>3, <2>6, <2>7 DEF Replaced
<1> QED BY <1>10, <1>11

\* A registration ends with the account's first token: before it, no sign-in can have been
\* sent one.
LEMMA RegistrationOpensSession ==
  ASSUME AccountTypeOK, Shape, Tokened, Sessions,
         NEW u \in Parties, RegistrationToken(u)
  PROVE  SessionsAt(u)'
<1>1. /\ u \in Handlers /\ pc[u] = "token" /\ of[u] = u
      /\ UNCHANGED <<of, old, faulted>> /\ tokens' = tokens \cup {u}
      /\ held' = [held EXCEPT ![u] = u]
      /\ pc' = [pc EXCEPT ![u] = "done"]
  <2>1. u \in Handlers /\ pc[u] = "token" /\ of[u] = u
    BY Names DEF RegistrationToken, TokenSaved, Shape, Handlers, Requests
  <2> QED BY <2>1 DEF RegistrationToken, TokenSaved, Moves, Goes, Answered
<1>2. /\ pc'[u] = "done" /\ held'[u] = u /\ u \in Tokens /\ Tokens \subseteq Handlers
      /\ \A h \in Handlers \ {u} : pc'[h] = pc[h]
      /\ \A l \in Logins : l \in Handlers \ {u}
  BY <1>1, Names DEF AccountTypeOK, Tokens, Handlers, Requests
<1>3. SignIns(u)' = SignIns(u) /\ (Strayed(u)' <=> Strayed(u))
  BY <1>1, <1>2 DEF SignIns, Strayed
<1>4. \A l \in Logins : old[l] # u
  BY <1>1, Names DEF Tokened
<1>5. ASSUME Remaining(u)  PROVE Remaining(u)'
  <2>1. ASSUME NEW t \in Tokens, of'[t] = u
        PROVE  t \in tokens' <=> /\ pc'[t] \in {"done", "delete"}
                                 /\ \A l \in Logins : pc'[l] = "done" => old'[l] # t
    <3>1. CASE t = u
      BY <1>1, <1>2, <1>4, <3>1
    <3>2. CASE t # u
      BY <1>1, <1>2, <1>5, <2>1, <3>2 DEF Remaining
    <3> QED BY <3>1, <3>2
  <2> QED BY <2>1 DEF Remaining
<1>6. ASSUME Orderly(u)'  PROVE Replaced(u)'
  <2>1. Orderly(u)
    BY <1>1, <1>3, <1>6 DEF Orderly
  <2>2. GivenTo(u) = {} /\ SignIns(u) = {}
    BY <1>1, <2>1 DEF Sessions, SessionsAt, Replaced
  <2>3. GivenTo(u)' = {u}
    BY <1>1, <1>2, <2>2 DEF GivenTo, Given
  <2> QED BY <1>2, <1>3, <2>2, <2>3 DEF Replaced
<1> QED BY <1>1, <1>3, <1>5, <1>6 DEF Sessions, SessionsAt

\* A sign-in whose password is right goes on to its token.  If it was sent a token that no
\* other was, that is the last one, and the sign-ins before are through.
LEMMA LoginIsAdmitted ==
  ASSUME AccountTypeOK, Shape, Tokened, Sessions,
         NEW h \in Logins, ComparePassword(h), NEW u \in Parties, u = of[h]
  PROVE  SessionsAt(u)'
<1>1. PICK s \in {"token", "refused"} : Moves(h, s)
  BY DEF ComparePassword
<1>2. h \in Handlers /\ pc[h] = "password"
      /\ UNCHANGED <<of, tokens, held, old, faulted>>
  BY <1>1 DEF ComparePassword, sessions, Handlers, Requests, Moves
<1>3. /\ pc'[h] = s /\ Tokens \subseteq Handlers /\ Logins \subseteq Handlers
      /\ u \in Handlers \ {h} /\ \A g \in Handlers \ {h} : pc'[g] = pc[g]
  BY <1>1, <1>2, Names DEF AccountTypeOK, Moves, Goes, Tokens, Handlers, Requests
<1>4. GivenTo(u)' = GivenTo(u) /\ (Strayed(u)' <=> Strayed(u)) /\ h \notin SignIns(u)
  BY <1>2, <1>3 DEF GivenTo, Given, Strayed, SignIns
<1>5. ASSUME Remaining(u)  PROVE Remaining(u)'
  BY <1>2, <1>3, <1>5 DEF Remaining
<1>6. /\ s = "refused" => SignIns(u)' = SignIns(u)
      /\ s = "token" => SignIns(u)' = SignIns(u) \cup {h}
      /\ \A l \in SignIns(u) : l \in Handlers \ {h} /\ pc'[l] = pc[l]
  BY <1>2, <1>3 DEF SignIns
<1>7. ASSUME Orderly(u)'  PROVE Replaced(u)'
  <2>1. Orderly(u)
    BY <1>2, <1>4, <1>6, <1>7 DEF Orderly
  <2>2. Replaced(u)
    BY <2>1 DEF Sessions, SessionsAt
  <2>3. CASE s = "refused"
    BY <1>2, <1>3, <1>4, <1>6, <2>2, <2>3 DEF Replaced
  <2>4. CASE s = "token"
    <3>1. h \in SignIns(u)' /\ old[h] # None /\ of[old[h]] = u
          /\ \A k \in SignIns(u) : old[k] # old[h]
      BY <1>2, <1>4, <1>6, <1>7, <2>4 DEF Orderly
    <3>2. old[h] \in GivenTo(u)
      BY <3>1 DEF Tokened, AccountTypeOK, GivenTo, Given
    <3>3. old[h] = held[u] /\ \A k \in SignIns(u) : pc[k] = "done"
      BY <2>2, <3>1, <3>2 DEF Replaced
    <3>4. \A k \in SignIns(u)' : k = h \/ (k \in SignIns(u) /\ pc'[k] = "done")
      BY <1>6, <2>4, <3>3
    <3>5. \A t \in GivenTo(u) : \E k \in SignIns(u)' : old[k] = t
      BY <1>6, <2>2, <2>4, <3>1, <3>3 DEF Replaced
    <3>6. \A k \in SignIns(u)' : pc'[k] = "done" => old[k] # held[u]
      BY <1>3, <2>4, <3>1, <3>3, <3>4
    <3>7. pc[u] = "done"
      BY <2>2, <3>2 DEF Replaced
    <3> QED BY <1>2, <1>3, <1>4, <2>4, <3>4, <3>5, <3>6, <3>7 DEF Replaced
  <2> QED BY <2>3, <2>4
<1> QED BY <1>2, <1>4, <1>5, <1>7 DEF Sessions, SessionsAt

\* A sign-in saves its token, and answers it if there is none to delete.
LEMMA LoginOpensSession ==
  ASSUME AccountTypeOK, Shape, Tokened, Sessions,
         NEW h \in Logins, LoginToken(h), NEW u \in Parties, u = of[h]
  PROVE  SessionsAt(u)'
<1>1. /\ h \in Handlers /\ h \in Tokens /\ pc[h] = "token" /\ UNCHANGED <<of, old, faulted>>
      /\ tokens' = tokens \cup {h}
  BY DEF LoginToken, TokenSaved, Handlers, Requests, Tokens, Moves
<1>2. /\ Tokens \subseteq Handlers /\ Logins \subseteq Handlers /\ u \in Handlers \ {h}
      /\ None \notin Tokens
  BY Names DEF Tokens, Handlers, Requests
<1>3. PICK s \in {"done", "delete"} :
        /\ pc' = [pc EXCEPT ![h] = s]
        /\ s = "done" <=> old[h] = None
        /\ s = "delete" => held' = held
  BY DEF LoginToken, Moves, Goes
<1>4. pc'[h] = s /\ \A g \in Handlers \ {h} : pc'[g] = pc[g]
  BY <1>1, <1>3 DEF AccountTypeOK
<1>5. SignIns(u)' = SignIns(u) /\ (Strayed(u)' <=> Strayed(u)) /\ h \in SignIns(u)
  BY <1>1, <1>2, <1>4 DEF SignIns, Strayed
<1>6. \A l \in Logins : old[l] # h
  BY <1>1, <1>2 DEF Tokened
<1>7. ASSUME Remaining(u)  PROVE Remaining(u)'
  <2>1. ASSUME NEW t \in Tokens, of'[t] = u
        PROVE  t \in tokens' <=> /\ pc'[t] \in {"done", "delete"}
                                 /\ \A l \in Logins : pc'[l] = "done" => old'[l] # t
    <3>1. CASE t = h
      BY <1>1, <1>3, <1>4, <1>6, <3>1
    <3>2. CASE t # h
      <4>1. pc'[h] = "done" => old[h] # t
        BY <1>2, <1>3, <1>4
      <4>2. \A l \in Logins : l # h => pc'[l] = pc[l]
        BY <1>2, <1>4
      <4>3. (\A l \in Logins : pc'[l] = "done" => old'[l] # t)
              <=> (\A l \in Logins : pc[l] = "done" => old[l] # t)
        BY <1>1, <4>1, <4>2
      <4> QED BY <1>1, <1>2, <1>4, <1>7, <2>1, <3>2, <4>3 DEF Remaining
    <3> QED BY <3>1, <3>2
  <2> QED BY <2>1 DEF Remaining
<1>8. ASSUME Orderly(u)'  PROVE Replaced(u)'
  <2>1. Orderly(u)
    BY <1>1, <1>5, <1>8 DEF Orderly
  <2>2. Replaced(u)
    BY <2>1 DEF Sessions, SessionsAt
  <2>3. s = "delete" /\ held' = held
    BY <1>1, <1>3, <1>5, <1>8 DEF Orderly
  <2>4. GivenTo(u)' = GivenTo(u)
    BY <1>1, <1>2, <1>4, <2>3 DEF GivenTo, Given
  <2>5. \A k \in SignIns(u) : pc'[k] = "done" <=> pc[k] = "done"
    BY <1>1, <1>2, <1>4, <2>3 DEF SignIns
  <2>6. \A t \in GivenTo(u) : \E k \in SignIns(u) : old[k] = t
    BY <1>1, <1>5, <2>2 DEF Replaced
  <2>7. pc[u] = "done"
    BY <1>5, <2>2 DEF Replaced
  <2> QED BY <1>1, <1>2, <1>4, <1>5, <2>2, <2>3, <2>4, <2>5, <2>6, <2>7 DEF Replaced
<1> QED BY <1>1, <1>5, <1>7, <1>8 DEF Sessions, SessionsAt

\* The token deleted is the one the sign-in was sent with; the last one is the new one.
LEMMA LoginClosesSession ==
  ASSUME AccountTypeOK, Shape, Tokened, Sessions,
         NEW h \in Logins, DeleteOld(h), NEW u \in Parties, u = of[h]
  PROVE  SessionsAt(u)'
<1>1. /\ h \in Handlers /\ h \in Tokens /\ pc[h] = "delete" /\ UNCHANGED <<of, old, faulted>>
      /\ tokens' = tokens \ {old[h]} /\ held' = [held EXCEPT ![u] = h]
      /\ pc' = [pc EXCEPT ![h] = "done"]
  BY DEF DeleteOld, OldDeleted, Handlers, Requests, Tokens, Moves, Goes, Answered
<1>2. /\ Tokens \subseteq Handlers /\ Logins \subseteq Handlers /\ u \in Handlers \ {h}
  BY Names DEF Tokens, Handlers, Requests
<1>3. /\ pc'[h] = "done" /\ held'[u] = h
      /\ \A g \in Handlers \ {h} : pc'[g] = pc[g]
  BY <1>1 DEF AccountTypeOK
<1>4. SignIns(u)' = SignIns(u) /\ (Strayed(u)' <=> Strayed(u)) /\ h \in SignIns(u)
  BY <1>1, <1>2, <1>3 DEF SignIns, Strayed
<1>5. \A l \in Logins : old[l] # h
  BY <1>1, <1>2, Names DEF Tokened
<1>6. ASSUME Remaining(u)  PROVE Remaining(u)'
  <2>1. ASSUME NEW t \in Tokens, of'[t] = u
        PROVE  t \in tokens' <=> /\ pc'[t] \in {"done", "delete"}
                                 /\ \A l \in Logins : pc'[l] = "done" => old'[l] # t
    <3>1. \A l \in Logins : l # h => pc'[l] = pc[l]
      BY <1>2, <1>3
    <3>2. (\A l \in Logins : pc'[l] = "done" => old'[l] # t)
            <=> old[h] # t /\ \A l \in Logins : pc[l] = "done" => old[l] # t
      BY <1>1, <1>3, <3>1
    <3>3. pc'[t] \in {"done", "delete"} <=> pc[t] \in {"done", "delete"}
      BY <1>1, <1>2, <1>3
    <3> QED BY <1>1, <1>6, <2>1, <3>2, <3>3 DEF Remaining
  <2> QED BY <2>1 DEF Remaining
<1>7. ASSUME Orderly(u)'  PROVE Replaced(u)'
  <2>1. Orderly(u)
    BY <1>1, <1>4, <1>7 DEF Orderly
  <2>2. Replaced(u)
    BY <2>1 DEF Sessions, SessionsAt
  <2>3. \A k \in SignIns(u) : k = h \/ pc[k] = "done"
    BY <1>1, <1>4, <2>2 DEF Replaced
  <2>4. \A k \in SignIns(u) : pc'[k] = "done"
    BY <1>2, <1>3, <2>3 DEF SignIns
  <2>5. GivenTo(u)' = GivenTo(u) \cup {h}
    BY <1>1, <1>2, <1>3 DEF GivenTo, Given
  <2>6. \A t \in GivenTo(u) : \E k \in SignIns(u) : old[k] = t
    BY <1>1, <1>4, <2>2 DEF Replaced
  <2>7. \A k \in SignIns(u) : old[k] # h
    BY <1>5 DEF SignIns
  <2>8. pc[u] = "done"
    BY <1>4, <2>2 DEF Replaced
  <2> QED BY <1>1, <1>2, <1>3, <1>4, <2>4, <2>5, <2>6, <2>7, <2>8 DEF Replaced
<1> QED BY <1>1, <1>4, <1>6, <1>7 DEF Sessions, SessionsAt

\* When the request fails after the deletion, its account is marked; if the token was
\* another account's, that one was sent astray.
LEMMA FailsDeletingKeepsSessionsOnlyOf ==
  ASSUME AccountTypeOK, Shape, Tokened, Lasting, NEW h \in Handlers, FailsDeleting(h)
  PROVE  SessionsOnlyOf(None)
<1>1. h \in Logins /\ h \in Handlers /\ pc[h] = "delete"
  BY Names DEF Shape, FailsDeleting, OldDeleted, StepsOf, Resting, Handlers, Requests
<1>2. /\ UNCHANGED <<of, held, old>> /\ tokens' = tokens \ {old[h]}
      /\ \A g \in Handlers \ {h} : pc'[g] = pc[g]
      /\ pc'[h] = "failed" /\ faulted' = faulted \cup {of[h]}
  BY <1>1 DEF FailsDeleting, Throws, OldDeleted, AccountTypeOK, Moves, Goes, Faults
<1>3. /\ Logins \subseteq Handlers /\ Tokens \subseteq Handlers
      /\ Parties \subseteq Handlers /\ h \notin Parties
  BY <1>1, Names DEF Tokens, Handlers, Requests
<1>4. ASSUME NEW u \in Parties, u \notin faulted', ~Strayed(u)'
      PROVE  of[h] # u /\ of[old[h]] # u
  BY <1>1, <1>2, <1>4 DEF Tokened, Strayed
<1> QED BY <1>1, <1>2, <1>3, <1>4 DEF SessionsOnlyOf

\* So does a deletion keep those of the accounts but the sign-in's own.
LEMMA DeleteOldIsSessionOf ==
  ASSUME AccountTypeOK, Shape, Tokened, Lasting, NEW h \in Logins, DeleteOld(h)
  PROVE  SessionsOnlyOf(of[h])
<1>1. h \in Handlers /\ pc[h] = "delete" /\ of[h] \in Parties
  BY DEF Shape, DeleteOld, OldDeleted, AccountTypeOK, Handlers, Requests
<1>2. /\ UNCHANGED <<of, old>> /\ tokens' = tokens \ {old[h]}
      /\ held' = [held EXCEPT ![of[h]] = h]
      /\ \A g \in Handlers \ {h} : pc'[g] = pc[g]
  BY <1>1 DEF DeleteOld, OldDeleted, AccountTypeOK, Moves, Goes, Answered
<1>3. /\ Logins \subseteq Handlers /\ Tokens \subseteq Handlers
      /\ Parties \subseteq Handlers /\ h \notin Parties
  BY <1>1, Names DEF Tokens, Handlers, Requests
<1>4. \A u \in Parties \ {of[h]} : held'[u] = held[u]
  BY <1>1, <1>2 DEF AccountTypeOK
<1>5. ASSUME NEW u \in Parties \ {of[h]}, ~Strayed(u)'
      PROVE  of[old[h]] # u
  BY <1>1, <1>2, <1>5 DEF Tokened, Strayed
<1> QED BY <1>2, <1>3, <1>4, <1>5 DEF SessionsOnlyOf

\* Nor does a handler change a session that is neither a registration nor a sign-in.
LEMMA OtherMoveIsSessionsOnlyOf ==
  ASSUME AccountTypeOK, NEW h \in Handlers, h \notin Parties \cup Logins,
         NEW s, Moves(h, s), UNCHANGED <<tokens, held>>
  PROVE  SessionsOnlyOf(None)
<1>1. \A g \in Parties \cup Logins : pc'[g] = pc[g]
  BY DEF Moves, Goes, AccountTypeOK, Handlers, Requests
<1> QED BY <1>1 DEF SessionsOnlyOf, Moves

\* The sessions of an account change only with its registration and its sign-ins.
LEMMA SessionsStep ==
  ASSUME AccountTypeOK, Shape, Shape', Tokened, Tokened', Sessions, Kept, Lasting,
         [AccountNext]_vars
  PROVE  Sessions'
<1>1. ASSUME SessionsOnlyOf(None)  PROVE Sessions'
  BY <1>1, Names, SessionsLast DEF Sessions, Handlers
<1>2. CASE UNCHANGED vars
  <2>1. SessionsOnlyOf(None)
    BY <1>2 DEF SessionsOnlyOf, vars, accountVars, request, sessions, AtWork
  <2> QED BY <1>1, <2>1
<1>3. ASSUME NEW u \in Parties, Greet(u) \/ Expire(u)
      PROVE  Sessions'
  <2>1. SessionsOnlyOf(None)
    BY <1>3 DEF SessionsOnlyOf, AtWork, Greet, documents, sessions, factor, request,
       chainVars, Expire
  <2> QED BY <1>1, <2>1
<1>4. ASSUME NEW c \in Creations, CreationRuns(c)
      PROVE  Sessions'
  <2>1. SessionsOnlyOf(None)
    BY <1>4 DEF SessionsOnlyOf, AtWork, CreationRuns, accountVars, documents, codes,
       sessions, factor, request
  <2> QED BY <1>1, <2>1
<1>5. ASSUME NEW u \in Parties, Register(u)  PROVE Sessions'
  <2>1. SessionsOnlyOf(None)
    BY <1>5, Names DEF Requests, AtWork, SessionsOnlyOf, Register, sessions, Begins,
       Goes
  <2> QED BY <1>1, <2>1
<1>6. ASSUME NEW h \in Logins, NEW u \in Parties, LoginBegins(h, u)  PROVE Sessions'
  <2>1. SessionsOnlyOf(None)
    BY <1>6, Names DEF AccountTypeOK, Handlers, Requests, SessionsOnlyOf, LoginBegins,
       Begins, Goes
  <2> QED BY <1>1, <2>1
<1>7. ASSUME NEW h \in TokenRequests, NEW u \in Parties, TokenBegins(h, u)
      PROVE  Sessions'
  <2>1. SessionsOnlyOf(None)
    BY <1>7, Names DEF AtWork, SessionsOnlyOf, TokenBegins, Begins, Goes
  <2> QED BY <1>1, <2>1
<1>8. ASSUME NEW h \in OtpRequests, NEW u \in Parties, OtpBegins(h, u)  PROVE Sessions'
  <2>1. SessionsOnlyOf(None)
    BY <1>8, Names DEF AtWork, SessionsOnlyOf, OtpBegins, sessions, Authorised, Begins,
       Goes
  <2> QED BY <1>1, <2>1
<1>9. ASSUME NEW h \in Verifications, NEW u \in Parties, VerificationBegins(h, u)
      PROVE  Sessions'
  <2>1. SessionsOnlyOf(None)
    BY <1>9, Names DEF AtWork, SessionsOnlyOf, VerificationBegins, sessions, Authorised,
       Begins, Goes
  <2> QED BY <1>1, <2>1
<1>10. ASSUME NEW h \in PinRequests, NEW u \in Parties, PinBegins(h, u)  PROVE Sessions'
  <2>1. SessionsOnlyOf(None)
    BY <1>10, Names DEF AtWork, SessionsOnlyOf, PinBegins, sessions, Authorised, Begins,
       Goes
  <2> QED BY <1>1, <2>1
<1>11. ASSUME NEW h \in ChainRequests, NEW u \in Parties, ChainBegins(h, u)
      PROVE  Sessions'
  <2>1. SessionsOnlyOf(None)
    BY <1>11, Names DEF AtWork, SessionsOnlyOf, ChainBegins, sessions, Authorised,
       Begins, Goes
  <2> QED BY <1>1, <2>1
<1>12. ASSUME NEW h \in MfaGets, NEW u \in Parties, MfaGetBegins(h, u)  PROVE Sessions'
  <2>1. SessionsOnlyOf(None)
    BY <1>12, Names DEF AtWork, SessionsOnlyOf, MfaGetBegins, sessions, Authorised,
       Begins, Goes
  <2> QED BY <1>1, <2>1
<1>13. ASSUME NEW h \in MfaPosts, NEW u \in Parties, MfaPostBegins(h, u)
      PROVE  Sessions'
  <2>1. SessionsOnlyOf(None)
    BY <1>13, Names DEF AtWork, SessionsOnlyOf, MfaPostBegins, sessions, Authorised,
       Begins, Goes
  <2> QED BY <1>1, <2>1
<1>14. ASSUME NEW u \in Parties, CheckExisting(u)  PROVE Sessions'
  <2>1. SessionsOnlyOf(None)
    BY <1>14 DEF AccountTypeOK, Handlers, Requests, Resting, AtWork, SessionsOnlyOf,
       CheckExisting, sessions, Moves, Goes
  <2> QED BY <1>1, <2>1
<1>15. ASSUME NEW u \in Parties, SaveAccount(u)  PROVE Sessions'
  <2>1. SessionsOnlyOf(None)
    BY <1>15 DEF Resting, AtWork, SessionsOnlyOf, SaveAccount, Moves, AccountSaved,
       Goes, sessions
  <2> QED BY <1>1, <2>1
<1>16. ASSUME NEW u \in Parties, RegistrationOtp(u)  PROVE Sessions'
  <2>1. SessionsOnlyOf(None)
    BY <1>16, Names DEF Handlers, Requests, Resting, AtWork, SessionsOnlyOf,
       RegistrationOtp, Moves, OtpSaved, Goes, sessions
  <2> QED BY <1>1, <2>1
<1>17. ASSUME NEW u \in Parties, RegistrationToken(u)  PROVE Sessions'
  <2>1. SessionsOnlyOf(u)
    BY <1>17 DEF Handlers, AtWork, Shape, SessionsOnlyOf, RegistrationToken, Moves,
       TokenSaved, Answered, Goes
  <2> QED BY <1>17, <2>1, SessionsLast, RegistrationOpensSession DEF Sessions
<1>18. ASSUME NEW h \in Logins \cup TokenRequests, ComparePassword(h)  PROVE Sessions'
  <2>1. h \in Logins /\ h \in Handlers /\ pc[h] = "password" /\ of[h] \in Parties
    <3>1. h \in Logins /\ h \in Handlers /\ pc[h] = "password"
      BY <1>18, Names DEF Shape, ComparePassword, StepsOf, Resting, Handlers, Requests
    <3> QED BY <3>1 DEF AccountTypeOK, Shape
  <2>2. SessionsOnlyOf(of[h])
    BY <1>18, <2>1, Names DEF AccountTypeOK, Handlers, Requests, SessionsOnlyOf,
       ComparePassword, sessions, Moves, Goes
  <2>3. PICK a \in Parties : a = of[h]
    BY <2>1
  <2>4. SessionsAt(a)'
    BY <1>18, <2>1, <2>3, LoginIsAdmitted
  <2> QED BY <2>2, <2>3, <2>4, SessionsLast DEF Sessions
<1>19. ASSUME NEW h \in Logins \cup TokenRequests, LoginToken(h)  PROVE Sessions'
  <2>0. h \in Logins /\ \E a \in Parties : a = of[h]
    BY <1>19 DEF LoginToken, TokenSaved, Handlers, Requests, AccountTypeOK, Shape
  <2>1. PICK a \in Parties : a = of[h]
    BY <2>0
  <2>2. SessionsOnlyOf(a)
    BY <1>19, <2>1, Names DEF AccountTypeOK, Handlers, Requests, AtWork, SessionsOnlyOf,
       Tokens, LoginToken, Moves, TokenSaved, Answered, Goes
  <2>3. SessionsAt(a)'
    BY <1>19, <2>0, <2>1, LoginOpensSession
  <2>4. \A u \in Parties \ {a} : SessionsAt(u)'
    BY <2>2, SessionsLast
  <2> QED BY <2>3, <2>4 DEF Sessions
<1>20. ASSUME NEW h \in Logins \cup TokenRequests, DeleteOld(h)  PROVE Sessions'
  <2>1. h \in Logins /\ h \in Handlers /\ pc[h] = "delete" /\ of[h] \in Parties
    <3>1. h \in Logins /\ h \in Handlers /\ pc[h] = "delete"
      BY <1>20, Names DEF Shape, DeleteOld, OldDeleted, StepsOf, Resting, Handlers,
         Requests
    <3> QED BY <3>1 DEF AccountTypeOK, Shape
  <2>2. SessionsOnlyOf(of[h])
    BY <1>20, <2>1, DeleteOldIsSessionOf
  <2>3. PICK a \in Parties : a = of[h]
    BY <2>1
  <2>4. SessionsAt(a)'
    BY <1>20, <2>1, <2>3, LoginClosesSession
  <2> QED BY <2>2, <2>3, <2>4, SessionsLast DEF Sessions
<1>21. ASSUME NEW h \in Logins \cup TokenRequests, ReadToken(h)  PROVE Sessions'
  <2>1. h \in Handlers /\ h \notin Parties \cup Logins /\ UNCHANGED <<tokens, held>>
    BY <1>21, Names DEF ReadToken, sessions, Handlers, Requests
  <2>2. \E s : Moves(h, s)
    BY <1>21 DEF ReadToken
  <2>3. SessionsOnlyOf(None)
    BY <2>1, <2>2, OtherMoveIsSessionsOnlyOf
  <2> QED BY <1>1, <2>3
<1>22. ASSUME NEW h \in OtpRequests \cup Verifications, OtpGuard(h)  PROVE Sessions'
  <2>1. SessionsOnlyOf(None)
    BY <1>22 DEF Resting, AtWork, SessionsOnlyOf, OtpGuard, Guards, sessions, Moves,
       Goes
  <2> QED BY <1>1, <2>1
<1>23. ASSUME NEW h \in OtpRequests \cup Verifications, OtpStore(h)  PROVE Sessions'
  <2>1. SessionsOnlyOf(None)
    BY <1>23 DEF Resting, AtWork, SessionsOnlyOf, OtpStore, Moves, OtpSaved, Goes,
       sessions
  <2> QED BY <1>1, <2>1
<1>24. ASSUME NEW h \in OtpRequests \cup Verifications, OtpSend(h)  PROVE Sessions'
  <2>1. SessionsOnlyOf(None)
    BY <1>24, Names DEF Handlers, Requests, Resting, AtWork, SessionsOnlyOf, OtpSend,
       sessions, Moves, Goes
  <2> QED BY <1>1, <2>1
<1>25. ASSUME NEW h \in OtpRequests \cup Verifications, VerificationGuard(h)
      PROVE  Sessions'
  <2>1. SessionsOnlyOf(None)
    BY <1>25 DEF Resting, AtWork, SessionsOnlyOf, VerificationGuard, Guards, sessions,
       Moves, Goes
  <2> QED BY <1>1, <2>1
<1>26. ASSUME NEW h \in OtpRequests \cup Verifications, CompareOtp(h)  PROVE Sessions'
  <2>1. SessionsOnlyOf(None)
    BY <1>26 DEF Resting, AtWork, SessionsOnlyOf, CompareOtp, sessions, Moves, Goes
  <2> QED BY <1>1, <2>1
<1>27. ASSUME NEW h \in OtpRequests \cup Verifications, Verify(h)  PROVE Sessions'
  <2>1. h \in Handlers /\ h \notin Parties \cup Logins /\ UNCHANGED <<tokens, held>>
    BY <1>27, Names DEF Verify, VerificationSaved, sessions, Handlers, Requests
  <2>2. \E s : Moves(h, s)
    BY <1>27 DEF Verify
  <2>3. SessionsOnlyOf(None)
    BY <2>1, <2>2, OtherMoveIsSessionsOnlyOf
  <2> QED BY <1>1, <2>3
<1>28. ASSUME NEW h \in Creations, PinGuard(h)  PROVE Sessions'
  <2>1. SessionsOnlyOf(None)
    BY <1>28 DEF Resting, AtWork, SessionsOnlyOf, PinGuard, Guards, sessions, Moves,
       Goes
  <2> QED BY <1>1, <2>1
<1>29. ASSUME NEW h \in Creations, SetPin(h)  PROVE Sessions'
  <2>1. SessionsOnlyOf(None)
    BY <1>29 DEF Resting, AtWork, SessionsOnlyOf, SetPin, Moves, PinSaved, Goes,
       sessions
  <2> QED BY <1>1, <2>1
<1>30. ASSUME NEW h \in Creations, ChainGuard(h)  PROVE Sessions'
  <2>1. SessionsOnlyOf(None)
    BY <1>30 DEF AccountTypeOK, Handlers, Requests, Resting, AtWork, SessionsOnlyOf,
       ChainGuard, sessions, Moves, Goes
  <2> QED BY <1>1, <2>1
<1>31. ASSUME NEW h \in Creations, WalletAnswered(h)  PROVE Sessions'
  <2>1. h \in Handlers /\ h \notin Parties \cup Logins /\ UNCHANGED <<tokens, held>>
    BY <1>31, Names, AccountAssumption DEF WalletAnswered, sessions, Handlers, Requests
  <2>2. \E s : Moves(h, s)
    BY <1>31 DEF WalletAnswered
  <2>3. SessionsOnlyOf(None)
    BY <2>1, <2>2, OtherMoveIsSessionsOnlyOf
  <2> QED BY <1>1, <2>3
<1>32. ASSUME NEW h \in MfaGets \cup MfaPosts, MfaGetGuard(h)  PROVE Sessions'
  <2>1. SessionsOnlyOf(None)
    BY <1>32 DEF Resting, AtWork, SessionsOnlyOf, MfaGetGuard, Guards, sessions, Moves,
       Goes
  <2> QED BY <1>1, <2>1
<1>33. ASSUME NEW h \in MfaGets \cup MfaPosts, MfaRecord(h)  PROVE Sessions'
  <2>1. SessionsOnlyOf(None)
    BY <1>33 DEF Resting, AtWork, SessionsOnlyOf, MfaRecord, sessions, Moves, Goes
  <2> QED BY <1>1, <2>1
<1>34. ASSUME NEW h \in MfaGets \cup MfaPosts, MfaStore(h)  PROVE Sessions'
  <2>1. SessionsOnlyOf(None)
    BY <1>34, Names DEF Handlers, Requests, Resting, AtWork, SessionsOnlyOf, MfaStore,
       Moves, SecretStored, Goes, sessions
  <2> QED BY <1>1, <2>1
<1>35. ASSUME NEW h \in MfaGets \cup MfaPosts, MfaPostGuard(h)  PROVE Sessions'
  <2>1. SessionsOnlyOf(None)
    BY <1>35 DEF Resting, AtWork, SessionsOnlyOf, MfaPostGuard, Guards, sessions, Moves,
       Goes
  <2> QED BY <1>1, <2>1
<1>36. ASSUME NEW h \in MfaGets \cup MfaPosts, MfaRead(h)  PROVE Sessions'
  <2>1. SessionsOnlyOf(None)
    BY <1>36 DEF AccountTypeOK, Handlers, Requests, Resting, AtWork, SessionsOnlyOf,
       MfaRead, sessions, Moves, Goes
  <2> QED BY <1>1, <2>1
<1>37. ASSUME NEW h \in MfaGets \cup MfaPosts, MfaVerify(h)  PROVE Sessions'
  <2>1. SessionsOnlyOf(None)
    BY <1>37 DEF Resting, AtWork, SessionsOnlyOf, MfaVerify, sessions, Moves, Goes
  <2> QED BY <1>1, <2>1
<1>38. ASSUME NEW h \in MfaGets \cup MfaPosts, MfaEnable(h)  PROVE Sessions'
  <2>1. SessionsOnlyOf(None)
    BY <1>38, Names DEF Handlers, Requests, Resting, AtWork, SessionsOnlyOf, MfaEnable,
       Moves, SecretSaved, Goes, sessions
  <2> QED BY <1>1, <2>1
<1>39. ASSUME NEW h \in Handlers, FailsUnwritten(h)  PROVE Sessions'
  <2>1. SessionsOnlyOf(None)
    BY <1>39 DEF AtWork, SessionsOnlyOf, FailsUnwritten, sessions, Throws, Moves,
       Faults, Goes
  <2> QED BY <1>1, <2>1
<1>40. ASSUME NEW h \in Handlers, FailsSaving(h)  PROVE Sessions'
  <2>1. SessionsOnlyOf(None)
    BY <1>40 DEF AtWork, SessionsOnlyOf, FailsSaving, AccountSaved, Throws, sessions,
       Moves, Goes
  <2> QED BY <1>1, <2>1
<1>41. ASSUME NEW h \in Handlers, FailsStoringCode(h)  PROVE Sessions'
  <2>1. SessionsOnlyOf(None)
    BY <1>41 DEF AtWork, SessionsOnlyOf, FailsStoringCode, OtpSaved, Throws, sessions,
       Moves, Goes
  <2> QED BY <1>1, <2>1
<1>42. ASSUME NEW h \in Handlers, FailsSavingToken(h)  PROVE Sessions'
  <2>1. SessionsOnlyOf(None)
    BY <1>42 DEF AtWork, SessionsOnlyOf, FailsSavingToken, TokenSaved, Throws, Moves,
       Faults, Goes
  <2> QED BY <1>1, <2>1
<1>43. ASSUME NEW h \in Handlers, FailsDeleting(h)  PROVE Sessions'
  <2>1. SessionsOnlyOf(None)
    BY <1>43, FailsDeletingKeepsSessionsOnlyOf
  <2> QED BY <1>1, <2>1
<1>44. ASSUME NEW h \in Handlers, FailsVerifying(h)  PROVE Sessions'
  <2>1. SessionsOnlyOf(None)
    BY <1>44 DEF AtWork, SessionsOnlyOf, FailsVerifying, VerificationSaved, Throws,
       sessions, Moves, Goes
  <2> QED BY <1>1, <2>1
<1>45. ASSUME NEW h \in Handlers, FailsSettingPin(h)  PROVE Sessions'
  <2>1. SessionsOnlyOf(None)
    BY <1>45 DEF AtWork, SessionsOnlyOf, FailsSettingPin, PinSaved, Throws, sessions,
       Moves, Goes
  <2> QED BY <1>1, <2>1
<1>46. ASSUME NEW h \in Handlers, FailsEnabling(h)  PROVE Sessions'
  <2>1. SessionsOnlyOf(None)
    BY <1>46 DEF AtWork, SessionsOnlyOf, FailsEnabling, SecretSaved, Throws, sessions,
       Moves, Goes
  <2> QED BY <1>1, <2>1
<1>47. ASSUME NEW h \in Handlers, FailsStoringSecret(h)  PROVE Sessions'
  <2>1. SessionsOnlyOf(None)
    BY <1>47 DEF AtWork, SessionsOnlyOf, FailsStoringSecret, SecretStored, Throws,
       sessions, Moves, Goes
  <2> QED BY <1>1, <2>1
<1>48. CASE Crash
  <2>1. SessionsOnlyOf(None)
    BY <1>48 DEF Handlers, Requests, AtWork, SessionsOnlyOf, Crash, sessions
  <2> QED BY <1>1, <2>1
<1>49. ASSUME NEW h \in Handlers, RequestFails(h)  PROVE Sessions'
  BY <1>49, Failing, <1>39, <1>40, <1>41, <1>42, <1>43, <1>44, <1>45, <1>46, <1>47
<1> QED BY <1>2, <1>3, <1>4, <1>5, <1>6, <1>7, <1>8, <1>9, <1>10, <1>11, <1>12, <1>13,
   <1>14, <1>15, <1>16, <1>17, <1>18, <1>19, <1>20, <1>21, <1>22, <1>23, <1>24, <1>25,
   <1>26, <1>27, <1>28, <1>29, <1>30, <1>31, <1>32, <1>33, <1>34, <1>35, <1>36, <1>37,
   <1>38, <1>48, <1>49 DEF AccountNext, Arrives, RegistrationStep, SessionStep,
   VerificationStep, SetupStep, MfaStep

-----------------------------------------------------------------------------
\* The invariant holds at the start.
LEMMA AccountInvInit == AccountInit => AccountInv
<1> SUFFICES ASSUME AccountInit PROVE AccountInv
  OBVIOUS
<1> USE Names DEF AccountInit
<1>1. ChainsInv
  BY ChainsInvInit
<1>2. AccountTypeOK
  BY <1>1 DEF AccountTypeOK, ChainsInv, Resting, Codes, Tokens
<1>3. Shape /\ Meeting
  BY ChainsAssumption DEF Shape, Meeting, AtWork, Resting, UserRequests, Handlers,
     Requests
<1>4. Creating
  BY AccountAssumption DEF Creating, ChainsInit, Handlers, Requests
<1>5. Ordered
  BY ChainsAssumption DEF Ordered, Handlers, Requests
<1>6. Pinned /\ Coded /\ Secrets
  BY DEF Pinned, Coded, Secrets, Handlers, Requests
<1>7. Tokened
  BY DEF Tokened, Handlers, Requests
<1>8. Sessions
  <2> SUFFICES ASSUME NEW u \in Parties PROVE SessionsAt(u)
    BY DEF Sessions
  <2>1. u # None /\ \A l \in Logins : l \in Handlers
    BY DEF Handlers, Requests
  <2>2. SignIns(u) = {} /\ GivenTo(u) = {}
    BY <2>1 DEF SignIns, GivenTo, Given, Tokens, Handlers, Requests
  <2>3. Remaining(u)
    BY DEF Remaining, Tokens, Handlers, Requests
  <2> QED BY <2>2, <2>3 DEF SessionsAt, Replaced
<1> QED BY <1>1, <1>2, <1>3, <1>4, <1>5, <1>6, <1>7, <1>8 DEF AccountInv

\* Every step keeps it.
LEMMA AccountInvStep == AccountInv /\ [AccountNext]_vars => AccountInv'
<1> SUFFICES ASSUME AccountInv, [AccountNext]_vars PROVE AccountInv'
  OBVIOUS
<1>1. /\ AccountTypeOK /\ ChainsInv /\ Shape /\ Meeting /\ Creating /\ Ordered
      /\ Pinned /\ Coded /\ Secrets /\ Tokened /\ Sessions
      /\ ChainsTypeOK /\ CreationShape
  BY DEF AccountInv, ChainsInv
<1>2. [ChainsNext]_chainVars
  BY <1>1, ChainsUsed
<1>3. ChainsInv' /\ ChainsKept
  BY <1>1, <1>2, ChainsInvStep, ChainsKeep
<1>4. ChainsTypeOK'
  BY <1>3 DEF ChainsInv
<1>5. AccountTypeOK'
  BY <1>1, <1>4, TypesStep
<1>6. Shape' /\ Kept
  BY <1>1, ShapeStep, KeptStep
<1>7. Lasting
  BY <1>1, <1>3, <1>6, KeptLasts
<1>8. Meeting' /\ Creating' /\ Ordered' /\ Pinned' /\ Coded' /\ Secrets' /\ Tokened'
  BY <1>1, <1>7, MeetingStep, CreatingStep, OrderedStep, PinnedStep, CodedStep,
     SecretsStep, TokenedStep
<1>9. Sessions'
  BY <1>1, <1>6, <1>7, <1>8, SessionsStep
<1> QED BY <1>3, <1>5, <1>6, <1>8, <1>9 DEF AccountInv

\* The account, its handlers and the wallets' calls keep the invariant.
THEOREM AccountInvariant == AccountSpec => []AccountInv
  BY AccountInvInit, AccountInvStep, PTL DEF AccountSpec

\* The documents, the memory store and the handlers keep their types.
THEOREM AccountTypeCorrect == AccountSpec => []AccountTypeOK
<1>1. AccountInv => AccountTypeOK
  BY DEF AccountInv
<1> QED BY <1>1, AccountInvariant, PTL

\* The guards of the setup, each read before its handler writes, keep it in order.
THEOREM SetupGoesInOrder == AccountSpec => []SetupInOrder
<1>1. ASSUME AccountInv  PROVE SetupInOrder
  <2>1. Ordered /\ Creating /\ AccountTypeOK /\ CreationShape
    BY <1>1 DEF AccountInv, ChainsInv
  <2>2. \A c \in wallets : party[c] \in active
    BY <2>1 DEF Creating, CreationShape, AccountTypeOK, ChainsTypeOK
  <2>3. \A u \in Parties \ Merchants :
          u \in verified => \E v \in Verifications : of[v] = u /\ code[v] \in inbox[u]
    BY <2>1 DEF Ordered, Confirmed
  <2>4. \A u \in Merchants :
          u \in active => \E v \in Verifications : of[v] = u /\ code[v] \in OtpRequests
    BY <2>1 DEF Ordered, Requested
  <2> QED BY <2>1, <2>2, <2>3, <2>4 DEF SetupInOrder, Ordered
<1> QED BY <1>1, AccountInvariant, PTL

\* assignWallet follows the activation of an account.
THEOREM ActivationBringsWallet == AccountSpec => []ActiveHasWallet
<1>1. ASSUME AccountInv  PROVE ActiveHasWallet
  <2>1. Creating
    BY <1>1 DEF AccountInv
  <2>2. ASSUME NEW u \in active, u \notin faulted,
               \A h \in Handlers : of[h] = u => ~AtWork(h)
        PROVE  \E c \in wallets : party[c] = u /\ chain[c] = Base
    <3>1. PICK c \in Creations :
            /\ of[c] = u /\ chain[c] = Base
            /\ creating[c] # "idle" /\ pc[c] \in {"wallet", "done"}
      BY <2>1, <2>2 DEF Creating, WalletAsked
    <3>2. c \in Handlers
      BY AccountAssumption DEF Handlers, Requests
    <3>3. pc[c] = "done"
      BY <2>2, <3>1, <3>2 DEF AtWork, Resting
    <3>4. creating[c] \in {"done", "exists"} /\ party[c] = u
      BY <2>1, <3>1, <3>3 DEF Creating
    <3> QED BY <2>1, <3>1, <3>4 DEF Creating, HasWallet
  <2> QED BY <2>2 DEF ActiveHasWallet
<1> QED BY <1>1, AccountInvariant, PTL

\* A pin is set anew only by a request that began before the pin was there.
THEOREM SecondPinNeedsRace == AccountSpec => PinSetOnce
<1>1. ASSUME AccountInv, [AccountNext]_vars  PROVE PinReplaced
  <2>1. AccountTypeOK /\ Shape /\ Pinned
    BY <1>1 DEF AccountInv
  <2> SUFFICES ASSUME NEW u \in Parties, pin[u] # None, pin'[u] # pin[u]
               PROVE  Beside(pin[u], pin'[u])
    BY DEF PinReplaced
  <2>2. PICK p : PinSaved(p)
    <3>1. pin' # pin
      OBVIOUS
    <3>2. CASE UNCHANGED vars
      BY <3>1, <3>2 DEF vars, accountVars, documents
    <3>3. ASSUME NEW r \in Parties, Arrives(r) \/ RegistrationStep(r) \/ Greet(r) \/ Expire(r)
          PROVE  FALSE
      BY <3>1, <3>3 DEF Arrives, Register, LoginBegins, TokenBegins, OtpBegins,
         VerificationBegins, PinBegins, ChainBegins, MfaGetBegins, MfaPostBegins,
         RegistrationStep, CheckExisting, SaveAccount, AccountSaved, RegistrationOtp,
         OtpSaved, RegistrationToken, TokenSaved, Greet, Expire, documents
    <3>4. ASSUME NEW h, SessionStep(h) \/ MfaStep(h) \/ VerificationStep(h)  PROVE FALSE
      BY <3>1, <3>4 DEF SessionStep, MfaStep, VerificationStep, ComparePassword,
         LoginToken, TokenSaved, DeleteOld, OldDeleted, ReadToken, MfaGetGuard, Guards,
         MfaRecord, MfaStore, SecretStored, MfaPostGuard, MfaRead, MfaVerify, MfaEnable,
         SecretSaved, OtpGuard, OtpStore, OtpSaved, OtpSend, VerificationGuard,
         CompareOtp, Verify, VerificationSaved, documents
    <3>5. ASSUME NEW h, SetupStep(h)  PROVE PinSaved(h)
      BY <3>1, <3>5 DEF SetupStep, PinGuard, Guards, SetPin, ChainGuard, WalletAnswered,
         documents
    <3>6. ASSUME NEW h, RequestFails(h)  PROVE PinSaved(h)
      BY <3>1, <3>6, Failing DEF FailsUnwritten, FailsSaving, FailsStoringCode,
         FailsSavingToken, FailsDeleting, FailsVerifying, FailsSettingPin, FailsEnabling,
         FailsStoringSecret, AccountSaved, OtpSaved, TokenSaved, OldDeleted,
         VerificationSaved, SecretSaved, SecretStored, documents
    <3>7. ASSUME NEW c \in Creations, CreationRuns(c)  PROVE FALSE
      BY <3>1, <3>7 DEF CreationRuns, accountVars, documents
    <3>8. CASE Crash
      BY <3>1, <3>8 DEF Crash, documents
    <3> QED BY <1>1, <3>2, <3>3, <3>4, <3>5, <3>6, <3>7, <3>8 DEF AccountNext
  <2>3. p \in PinRequests /\ pc[p] = "update" /\ pin' = [pin EXCEPT ![of[p]] = p]
    BY <2>2 DEF PinSaved
  <2>4. u = of[p] /\ pin'[u] = p
    BY <2>1, <2>3 DEF AccountTypeOK
  <2> QED BY <2>1, <2>3, <2>4 DEF Pinned
<1> QED BY <1>1, AccountInvariant, PTL DEF AccountSpec, PinSetOnce

\* A code is compared with the one the store holds, the last stored for the account.
THEOREM StaleCodeNeedsRace == AccountSpec => LatestCodeVerifies
<1>1. ASSUME AccountInv  PROVE CodeAccepted
  <2>1. Coded
    BY <1>1 DEF AccountInv
  <2> QED BY <2>1 DEF CodeAccepted, Coded, CodeBeside
<1> QED BY <1>1, AccountInvariant, PTL DEF AccountSpec, LatestCodeVerifies

\* Only MfaEnable ends a request that has compared its code, unless the request fails.
LEMMA EnabledByPost ==
  ASSUME AccountTypeOK, Shape, [AccountNext]_vars, NEW x \in MfaPosts,
         pc[x] = "update", pc'[x] = "done"
  PROVE  MfaEnable(x)
<1> USE Names DEF Handlers, Requests
<1>1. ASSUME NEW h, NEW s, Moves(h, s), h # x \/ s # "done"  PROVE FALSE
  BY <1>1 DEF AccountTypeOK, Moves, Goes
<1>2. ASSUME NEW h, NEW u, NEW s, Begins(h, u, s)  PROVE FALSE
  BY <1>2 DEF AccountTypeOK, Begins, Goes
<1>3. ASSUME NEW u \in Parties, Arrives(u)  PROVE FALSE
  BY <1>2, <1>3 DEF Arrives, Register, LoginBegins, TokenBegins, OtpBegins,
     VerificationBegins, PinBegins, ChainBegins, MfaGetBegins, MfaPostBegins, Authorised
<1>4. ASSUME NEW u \in Parties, RegistrationStep(u)  PROVE FALSE
  BY <1>1, <1>4 DEF RegistrationStep, CheckExisting, SaveAccount, RegistrationOtp,
     RegistrationToken
<1>5. ASSUME NEW u \in Parties, Greet(u) \/ Expire(u)  PROVE FALSE
  BY <1>5 DEF Greet, Expire, request
<1>6. ASSUME NEW h \in Logins \cup TokenRequests, SessionStep(h)  PROVE FALSE
  BY <1>1, <1>6 DEF SessionStep, ComparePassword, LoginToken, DeleteOld, ReadToken
<1>7. ASSUME NEW h \in OtpRequests \cup Verifications, VerificationStep(h)  PROVE FALSE
  BY <1>1, <1>7 DEF VerificationStep, OtpGuard, Guards, OtpStore, OtpSend,
     VerificationGuard, CompareOtp, Verify
<1>8. ASSUME NEW h \in Creations, SetupStep(h)  PROVE FALSE
  BY <1>1, <1>8, AccountAssumption DEF SetupStep, PinGuard, Guards, SetPin, ChainGuard,
     WalletAnswered
<1>9. ASSUME NEW h \in MfaGets \cup MfaPosts, MfaStep(h)  PROVE MfaEnable(x)
  BY <1>1, <1>9 DEF MfaStep, MfaGetGuard, Guards, MfaRecord, MfaStore, SecretStored,
     MfaPostGuard, MfaRead, MfaVerify, MfaEnable
<1>10. ASSUME NEW h \in Handlers, RequestFails(h)  PROVE FALSE
  BY <1>1, <1>10 DEF RequestFails
<1>11. CASE UNCHANGED vars
  BY <1>11 DEF vars, accountVars, request
<1>12. ASSUME NEW c \in Creations, CreationRuns(c)  PROVE FALSE
  BY <1>12 DEF CreationRuns, accountVars, request
<1>13. CASE Crash
  BY <1>13 DEF Crash, AtWork, Resting
<1> QED BY <1>3, <1>4, <1>5, <1>6, <1>7, <1>8, <1>9, <1>10, <1>11, <1>12, <1>13
       DEF AccountNext

\* A secret is enabled after its code was compared with the secret read.
THEOREM StaleSecretNeedsRace == AccountSpec => LatestSecretEnabled
<1>1. ASSUME AccountInv, [AccountNext]_vars  PROVE SecretEnabled
  <2>1. AccountTypeOK /\ Shape /\ Ordered /\ Secrets
    BY <1>1 DEF AccountInv
  <2> SUFFICES ASSUME NEW x \in MfaPosts, pc[x] = "update", pc'[x] = "done"
               PROVE  secret'[of[x]] = latest[of[x]] \/ \E g \in MfaGets : Beside(g, x)
    BY DEF SecretEnabled
  <2>2. MfaEnable(x)
    BY <1>1, <2>1, EnabledByPost
  <2>3. /\ of[x] \in Parties /\ read[x] \in shown[of[x]] /\ pc[read[x]] = "done"
        /\ secret'[of[x]] = read[x]
    BY <2>1, <2>2 DEF MfaEnable, SecretSaved, AccountTypeOK, Shape, Ordered, Secrets,
       Handlers, Requests, Resting
  <2> QED BY <2>1, <2>3 DEF Secrets, SecretBeside
<1> QED BY <1>1, AccountInvariant, PTL DEF AccountSpec, LatestSecretEnabled

\* signInUser and signInMerchant delete the token they were sent with.
THEOREM SessionsAreReplaced == AccountSpec => []OneSession
<1>1. ASSUME AccountInv  PROVE OneSession
  <2>1. Sessions /\ Tokened /\ AccountTypeOK /\ Shape
    BY <1>1 DEF AccountInv
  <2> SUFFICES ASSUME NEW u \in Parties, u \notin faulted, ~Strayed(u),
                      \A l \in SignIns(u) : pc[l] = "done" /\ old[l] # None /\ of[old[l]] = u,
                      \A k, l \in SignIns(u) : old[k] = old[l] => k = l
               PROVE  SessionsOf(u) = {held[u]} \ {None}
    BY DEF OneSession
  <2>2. Remaining(u) /\ Replaced(u)
    BY <2>1 DEF Sessions, SessionsAt, Orderly
  <2>3. ASSUME NEW t \in SessionsOf(u)  PROVE t \in {held[u]} \ {None}
    <3>1. /\ t \in tokens /\ t \in Tokens /\ of[t] = u
          /\ pc[t] \in {"done", "delete"} /\ \A l \in Logins : pc[l] = "done" => old[l] # t
      BY <2>1, <2>2, <2>3 DEF SessionsOf, Remaining, AccountTypeOK
    <3>2. pc[t] = "done"
      <4>1. CASE t \in Logins
        BY <3>1, <4>1 DEF SignIns
      <4>2. CASE t \in Parties
        BY <2>1, <3>1, <4>2 DEF Shape, StepsOf, Resting, Handlers
      <4> QED BY <3>1, <4>1, <4>2 DEF Tokens
    <3>3. t \in GivenTo(u) /\ \A k \in SignIns(u) : old[k] # t
      BY <3>1, <3>2 DEF GivenTo, Given, SignIns
    <3>4. t # None
      BY <3>1, Names DEF Tokens, Handlers, Requests
    <3> QED BY <2>2, <3>3, <3>4 DEF Replaced
  <2>4. ASSUME held[u] # None  PROVE held[u] \in SessionsOf(u)
    <3>1. of[held[u]] = u /\ held[u] \in tokens
      BY <2>1, <2>4 DEF Tokened
    <3> QED BY <3>1 DEF SessionsOf
  <2> QED BY <2>3, <2>4
<1> QED BY <1>1, AccountInvariant, PTL

\* A sign-in deletes only a token that its own replaces.
THEOREM HeldTokenIsAccepted == AccountSpec => []HeldIsAccepted
<1>1. ASSUME AccountInv  PROVE HeldIsAccepted
  <2>1. Tokened
    BY <1>1 DEF AccountInv
  <2> QED BY <2>1 DEF HeldIsAccepted, Tokened, Disturbed
<1> QED BY <1>1, AccountInvariant, PTL
=============================================================================
