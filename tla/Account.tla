------------------------------- MODULE Account -------------------------------
(***************************************************************************)
(* The account of a user or a merchant: registration, the one-time code    *)
(* that verifies it, the pin, the default wallet, sessions and the second  *)
(* factor.                                                                 *)
(*                                                                         *)
(* An account is named by the request that registered it, a code, a        *)
(* refresh token and a secret by the request that made it.  A guard reads  *)
(* the account in an await of its own, before the handler starts; each     *)
(* awaited operation is a step.  The default wallet is created by          *)
(* WalletChains, which the handlers of the pin and of a merchant's         *)
(* verification call and await.                                            *)
(***************************************************************************)
EXTENDS WalletChains

CONSTANTS
  OtpRequests,     \* GET user/verify and merchant/verify
  Verifications,   \* POST user/verify and merchant/verify
  PinRequests,     \* POST user/pin
  ChainRequests,   \* POST wallet/chain/user/new
  Logins,          \* POST user/login and merchant/login
  TokenRequests,   \* POST access-token
  MfaGets,         \* GET user/mfa
  MfaPosts,        \* POST user/mfa
  Base,            \* the chain of the default wallet
  Expiring         \* the codes and secrets whose time may pass in a run

Requests == OtpRequests \cup Verifications \cup PinRequests \cup ChainRequests
            \cup Logins \cup TokenRequests \cup MfaGets \cup MfaPosts
Handlers == Parties \cup Requests

ASSUME AccountAssumption ==
  /\ Creations = Verifications \cup PinRequests \cup ChainRequests
  /\ Base \in Chains
  /\ None \notin Requests
  /\ LET kinds == <<Parties, OtpRequests, Verifications, PinRequests, ChainRequests,
                    Logins, TokenRequests, MfaGets, MfaPosts>>
     IN \A i, j \in 1 .. 9 : i # j => kinds[i] \cap kinds[j] = {}

VARIABLES
  pc,         \* the operation each handler does next
  of,         \* the account each handler is about
  accounts,   \* the account documents that exist
  verified,   \* the users whose phone is verified
  active,     \* the accounts whose status is active
  pin,        \* the request whose pin each account has
  otp,        \* the code the memory store holds for each account
  inbox,      \* the codes sent to each account's phone or mail
  greeting,   \* the message nobody awaits after a registration: none, sent or done
  code,       \* the code each verification submits
  tokens,     \* the refresh tokens that exist
  held,       \* the refresh token the account's client holds
  old,        \* the refresh token each login or token request was sent with
  mfa,        \* the secret the memory store holds for each account
  shown,      \* the secrets answered to each account
  tried,      \* the secret whose code each MfaPost submits
  read,       \* the secret each MfaPost has read
  secret,     \* the secret each account document holds
  issued,     \* history: the code stored last for each account
  latest,     \* history: the secret answered last to each account
  beside,     \* history: the handlers of its account at work when each began
  faulted     \* history: accounts with an operation that failed

documents == <<accounts, verified, active, pin>>
codes == <<otp, inbox, greeting, code, issued>>
sessions == <<tokens, held, old>>
factor == <<mfa, shown, tried, read, secret, latest>>
request == <<pc, of, beside>>
accountVars == <<documents, codes, sessions, factor, request, faulted>>
vars == <<accountVars, chainVars>>

Goes(h, s) == pc' = [pc EXCEPT ![h] = s]
AtWork(h) == pc[h] \notin Resting
Beside(g, h) == g \in beside[h] \/ h \in beside[g]
Faults(h) == faulted' = faulted \cup {of[h]}

\* A request about account u starts, at operation s.
Begins(h, u, s) ==
  /\ pc[h] = "idle"
  /\ Goes(h, s)
  /\ of' = [of EXCEPT ![h] = u]
  /\ beside' = [beside EXCEPT ![h] = {g \in Handlers : AtWork(g) /\ of[g] = u}]

\* A handler goes on to operation s.
Moves(h, s) == Goes(h, s) /\ UNCHANGED <<of, beside>>

AccountInit ==
  /\ ChainsInit
  /\ pc = [h \in Handlers |-> "idle"]
  /\ of = [h \in Handlers |-> None]
  /\ accounts = {} /\ verified = {} /\ active = {}
  /\ pin = [u \in Parties |-> None]
  /\ otp = [u \in Parties |-> None]
  /\ inbox = [u \in Parties |-> {}]
  /\ greeting = [u \in Parties |-> "none"]
  /\ code = [v \in Verifications |-> None]
  /\ tokens = {}
  /\ held = [u \in Parties |-> None]
  /\ old = [h \in Logins \cup TokenRequests |-> None]
  /\ mfa = [u \in Parties |-> None]
  /\ shown = [u \in Parties |-> {}]
  /\ tried = [x \in MfaPosts |-> None]
  /\ read = [x \in MfaPosts |-> None]
  /\ secret = [u \in Parties |-> None]
  /\ issued = [u \in Parties |-> None]
  /\ latest = [u \in Parties |-> None]
  /\ beside = [h \in Handlers |-> {}]
  /\ faulted = {}

-----------------------------------------------------------------------------
(***************************************************************************)
(* registerUserDetails and registerMerchantDetails.                        *)
(***************************************************************************)

Register(u) ==
  /\ Begins(u, u, "check")
  /\ UNCHANGED <<chainVars, documents, codes, sessions, factor, faulted>>

\* Another account may have the username, the phone or the email.
CheckExisting(u) ==
  /\ pc[u] = "check"
  /\ Moves(u, "save") \/ Moves(u, "refused")
  /\ UNCHANGED <<chainVars, documents, codes, sessions, factor, faulted>>

\* createUser and createMerchant.
AccountSaved(u) ==
  /\ pc[u] = "save"
  /\ accounts' = accounts \cup {u}
  /\ UNCHANGED <<chainVars, verified, active, pin, codes, sessions, factor>>

SaveAccount(u) == AccountSaved(u) /\ Moves(u, "otp") /\ UNCHANGED faulted

\* createOtpForAuthentication: the code replaces the one before.
OtpSaved(h) ==
  /\ pc[h] = "otp"
  /\ otp' = [otp EXCEPT ![of[h]] = h]
  /\ issued' = [issued EXCEPT ![of[h]] = h]
  /\ UNCHANGED <<chainVars, documents, inbox, code, sessions, factor>>

\* The account is created, so created.user is emitted: its handler sends the code to a
\* user.  The one of created.merchant sends nothing.
RegistrationOtp(u) ==
  /\ u \in Parties /\ OtpSaved(u)
  /\ Moves(u, "token")
  /\ greeting' = IF u \in Merchants THEN greeting ELSE [greeting EXCEPT ![u] = "sent"]
  /\ UNCHANGED faulted

\* createAuthorizationTokens; the answer gives the client the refresh token.
TokenSaved(h) ==
  /\ pc[h] = "token"
  /\ tokens' = tokens \cup {h}
  /\ UNCHANGED <<chainVars, documents, codes, old, factor>>

Answered(h) == held' = [held EXCEPT ![of[h]] = h]

RegistrationToken(u) ==
  /\ u \in Parties /\ TokenSaved(u)
  /\ Moves(u, "done") /\ Answered(u)
  /\ UNCHANGED faulted

Greet(u) ==
  /\ greeting[u] = "sent"
  /\ greeting' = [greeting EXCEPT ![u] = "done"]
  /\ \/ inbox' = [inbox EXCEPT ![u] = @ \cup {u}]
     \/ "mail" \in Failures /\ UNCHANGED inbox
  /\ UNCHANGED <<chainVars, documents, otp, code, issued, sessions, factor, request,
                 faulted>>

RegistrationStep(u) ==
  CheckExisting(u) \/ SaveAccount(u) \/ RegistrationOtp(u) \/ RegistrationToken(u)

-----------------------------------------------------------------------------
(***************************************************************************)
(* Sessions: signInUser, signInMerchant and generateAccessToken.           *)
(***************************************************************************)

\* The refresh tokens that were answered to a client.
Tokens == Parties \cup Logins
Given == {t \in Tokens : pc[t] = "done"}

\* A client may send any refresh token that was answered, of the account or of another
\* that signed in from the same browser, and deleted since or not: the handler does not
\* ask.
LoginBegins(l, u) ==
  /\ u \in accounts
  /\ Begins(l, u, "password")
  /\ \E t \in Given \cup {None} : old' = [old EXCEPT ![l] = t]
  /\ UNCHANGED <<chainVars, documents, codes, tokens, held, factor, faulted>>

ComparePassword(l) ==
  /\ pc[l] = "password"
  /\ Moves(l, "token") \/ Moves(l, "refused")
  /\ UNCHANGED <<chainVars, documents, codes, sessions, factor, faulted>>

\* Variant of LoginToken for the mutants: does not delete the old token.
LoginTokenOnly(l) ==
  /\ l \in Logins /\ TokenSaved(l)
  /\ Moves(l, "done") /\ Answered(l)
  /\ UNCHANGED faulted

LoginToken(l) ==
  /\ l \in Logins /\ TokenSaved(l)
  /\ \/ old[l] = None /\ Moves(l, "done") /\ Answered(l)
     \/ old[l] # None /\ Moves(l, "delete") /\ UNCHANGED held
  /\ UNCHANGED faulted

\* Variant of OldDeleted for the mutants: deletes the account's other tokens.
OldDeletedAll(l) ==
  /\ pc[l] = "delete"
  /\ tokens' = {t \in tokens : of[t] # of[l]}
  /\ UNCHANGED <<chainVars, documents, codes, old, factor>>

\* deleteTokens.
OldDeleted(l) ==
  /\ pc[l] = "delete"
  /\ tokens' = tokens \ {old[l]}
  /\ UNCHANGED <<chainVars, documents, codes, old, factor>>

\* The update of lastLogin that follows is not awaited and changes nothing that is
\* read.
DeleteOld(l) ==
  OldDeleted(l) /\ Moves(l, "done") /\ Answered(l) /\ UNCHANGED faulted

TokenBegins(t, u) ==
  /\ held[u] # None
  /\ Begins(t, u, "read")
  /\ old' = [old EXCEPT ![t] = held[u]]
  /\ UNCHANGED <<chainVars, documents, codes, tokens, held, factor, faulted>>

\* retrieveToken; the access token is not stored.
ReadToken(t) ==
  /\ t \in TokenRequests /\ pc[t] = "read"
  /\ Moves(t, IF old[t] \in tokens THEN "done" ELSE "refused")
  /\ UNCHANGED <<chainVars, documents, codes, sessions, factor, faulted>>

SessionStep(h) == ComparePassword(h) \/ LoginToken(h) \/ DeleteOld(h) \/ ReadToken(h)

-----------------------------------------------------------------------------
(***************************************************************************)
(* Verification.                                                           *)
(***************************************************************************)

\* AccountVerificationAuthGuard and MerchantAccountVerificationAuthGuard.
Unverified(u) == u \notin active /\ (u \in Merchants \/ u \notin verified)

\* AccountPin.
Pinless(u) == u \notin active /\ pin[u] = None /\ u \in verified

\* VerifiedUser.
Complete(u) == u \in active /\ pin[u] # None /\ u \in verified

\* A guard lets the handler go on to operation s if the account document allows it.
Guards(h, allowed, s) ==
  /\ pc[h] = "guard"
  /\ Moves(h, IF allowed THEN s ELSE "refused")
  /\ UNCHANGED <<chainVars, documents, codes, sessions, factor, faulted>>

\* A request with an access token starts at its guard.
Authorised(h, u) == held[u] # None /\ Begins(h, u, "guard")

OtpBegins(o, u) ==
  /\ Authorised(o, u)
  /\ UNCHANGED <<chainVars, documents, codes, sessions, factor, faulted>>

OtpGuard(o) == o \in OtpRequests /\ Guards(o, Unverified(of[o]), "otp")

\* initiateAccountVerification and initiateMerchantAccountVerification.
OtpStore(o) ==
  /\ o \in OtpRequests /\ OtpSaved(o)
  /\ Moves(o, "send")
  /\ UNCHANGED <<greeting, faulted>>

OtpSend(o) ==
  /\ pc[o] = "send"
  /\ Moves(o, "done")
  /\ inbox' = [inbox EXCEPT ![of[o]] = @ \cup {o}]
  /\ UNCHANGED <<chainVars, documents, otp, greeting, code, issued, sessions, factor,
                 faulted>>

\* The client submits a code it was sent.
VerificationBegins(v, u) ==
  /\ Authorised(v, u)
  /\ \E c \in inbox[u] : code' = [code EXCEPT ![v] = c]
  /\ UNCHANGED <<chainVars, documents, otp, inbox, greeting, issued, sessions, factor,
                 faulted>>

VerificationGuard(v) == v \in Verifications /\ Guards(v, Unverified(of[v]), "compare")

\* Variant of CompareOtp for the mutants: any code that was sent will do.
CompareOtpSent(v) ==
  /\ pc[v] = "compare"
  /\ Moves(v, IF code[v] \in inbox[of[v]] THEN "update" ELSE "refused")
  /\ UNCHANGED <<chainVars, documents, codes, sessions, factor, faulted>>

\* verifyOtpForAuthentication; the code is not deleted.
CompareOtp(v) ==
  /\ pc[v] = "compare"
  /\ Moves(v, IF otp[of[v]] = code[v] THEN "update" ELSE "refused")
  /\ UNCHANGED <<chainVars, documents, codes, sessions, factor, faulted>>

\* Variant of VerificationSaved for the mutants: a merchant's is saved like a user's.
VerificationSavedAlike(v) ==
  /\ v \in Verifications /\ pc[v] = "update"
  /\ verified' = verified \cup {of[v]}
  /\ UNCHANGED <<accounts, active, pin, codes, sessions, factor>>

\* completeAccountVerification and completeMerchantAccountVerification.
VerificationSaved(v) ==
  /\ v \in Verifications /\ pc[v] = "update"
  /\ \/ /\ of[v] \notin Merchants
        /\ verified' = verified \cup {of[v]} /\ UNCHANGED active
     \/ /\ of[v] \in Merchants
        /\ active' = active \cup {of[v]} /\ UNCHANGED verified
  /\ UNCHANGED <<accounts, pin, codes, sessions, factor>>

\* A merchant's is followed by assignWallet.
Verify(v) ==
  /\ VerificationSaved(v)
  /\ \/ /\ of[v] \notin Merchants
        /\ Moves(v, "done") /\ UNCHANGED chainVars
     \/ /\ of[v] \in Merchants
        /\ Moves(v, "wallet") /\ BeginCreation(v, of[v], Base)
  /\ UNCHANGED faulted

VerificationStep(h) ==
  \/ OtpGuard(h) \/ OtpStore(h) \/ OtpSend(h)
  \/ VerificationGuard(h) \/ CompareOtp(h) \/ Verify(h)

-----------------------------------------------------------------------------
(***************************************************************************)
(* setupTransactionPin and addNewChain.                                    *)
(***************************************************************************)

PinBegins(p, u) ==
  /\ u \notin Merchants
  /\ Authorised(p, u)
  /\ UNCHANGED <<chainVars, documents, codes, sessions, factor, faulted>>

\* Variants of PinGuard for the mutants: it forgets the pin, or the verification.
PinGuardAnyPin(p) == p \in PinRequests /\ Guards(p, of[p] \in verified, "update")
PinGuardUnverified(p) ==
  p \in PinRequests /\ Guards(p, of[p] \notin active /\ pin[of[p]] = None, "update")

PinGuard(p) == p \in PinRequests /\ Guards(p, Pinless(of[p]), "update")

\* createUserTransactionPin.
PinSaved(p) ==
  /\ p \in PinRequests /\ pc[p] = "update"
  /\ pin' = [pin EXCEPT ![of[p]] = p]
  /\ active' = active \cup {of[p]}
  /\ UNCHANGED <<accounts, verified, codes, sessions, factor>>

\* Variant of SetPin for the mutants: creates no wallet.
SetPinOnly(p) ==
  PinSaved(p) /\ Moves(p, "done") /\ UNCHANGED <<chainVars, faulted>>

SetPin(p) ==
  PinSaved(p) /\ Moves(p, "wallet") /\ BeginCreation(p, of[p], Base) /\ UNCHANGED faulted

ChainBegins(n, u) ==
  /\ u \notin Merchants
  /\ Authorised(n, u)
  /\ UNCHANGED <<chainVars, documents, codes, sessions, factor, faulted>>

ChainGuard(n) ==
  /\ n \in ChainRequests /\ pc[n] = "guard"
  /\ \/ /\ Complete(of[n])
        /\ Moves(n, "wallet")
        /\ \E k \in Chains : BeginCreation(n, of[n], k)
     \/ ~Complete(of[n]) /\ Moves(n, "refused") /\ UNCHANGED chainVars
  /\ UNCHANGED <<documents, codes, sessions, factor, faulted>>

\* assignWallet returns, null if the wallet exists, or throws.
WalletAnswered(h) ==
  /\ pc[h] = "wallet"
  /\ \/ creating[h] \in {"done", "exists"} /\ Moves(h, "done") /\ UNCHANGED faulted
     \/ creating[h] \in {"refused", "failed"} /\ Moves(h, "failed") /\ Faults(h)
  /\ UNCHANGED <<chainVars, documents, codes, sessions, factor>>

SetupStep(h) == PinGuard(h) \/ SetPin(h) \/ ChainGuard(h) \/ WalletAnswered(h)

-----------------------------------------------------------------------------
(***************************************************************************)
(* createMFASecret and completeMFASetup.                                   *)
(***************************************************************************)

MfaGetBegins(g, u) ==
  /\ u \notin Merchants
  /\ Authorised(g, u)
  /\ UNCHANGED <<chainVars, documents, codes, sessions, factor, faulted>>

MfaGetGuard(g) == g \in MfaGets /\ Guards(g, Complete(of[g]), "record")

\* The record of the secret is saved, then the store names it.
MfaRecord(g) ==
  /\ pc[g] = "record"
  /\ Moves(g, "store")
  /\ UNCHANGED <<chainVars, documents, codes, sessions, factor, faulted>>

SecretStored(g) ==
  /\ pc[g] = "store"
  /\ mfa' = [mfa EXCEPT ![of[g]] = g]
  /\ UNCHANGED <<chainVars, documents, codes, sessions, tried, read, secret>>

\* The answer shows the secret to the client.
MfaStore(g) ==
  /\ SecretStored(g)
  /\ Moves(g, "done")
  /\ shown' = [shown EXCEPT ![of[g]] = @ \cup {g}]
  /\ latest' = [latest EXCEPT ![of[g]] = g]
  /\ UNCHANGED faulted

\* The client submits the code of a secret it was shown.
MfaPostBegins(x, u) ==
  /\ u \notin Merchants
  /\ Authorised(x, u)
  /\ \E g \in shown[u] : tried' = [tried EXCEPT ![x] = g]
  /\ UNCHANGED <<chainVars, documents, codes, sessions, mfa, shown, read, secret, latest,
                 faulted>>

MfaPostGuard(x) == x \in MfaPosts /\ Guards(x, Complete(of[x]), "read")

MfaRead(x) ==
  /\ x \in MfaPosts /\ pc[x] = "read"
  /\ \/ mfa[of[x]] = None /\ Moves(x, "refused") /\ UNCHANGED read
     \/ /\ mfa[of[x]] # None /\ Moves(x, "verify")
        /\ read' = [read EXCEPT ![x] = mfa[of[x]]]
  /\ UNCHANGED <<chainVars, documents, codes, sessions, mfa, shown, tried, secret, latest,
                 faulted>>

\* Variant of MfaVerify for the mutants: the code is compared with the secret it is for.
MfaVerifyTried(x) ==
  /\ pc[x] = "verify"
  /\ Moves(x, "update")
  /\ read' = [read EXCEPT ![x] = tried[x]]
  /\ UNCHANGED <<chainVars, documents, codes, sessions, mfa, shown, tried, secret, latest,
                 faulted>>

\* The record is found, and the code compared with its secret.
MfaVerify(x) ==
  /\ pc[x] = "verify"
  /\ Moves(x, IF read[x] = tried[x] THEN "update" ELSE "refused")
  /\ UNCHANGED <<chainVars, documents, codes, sessions, factor, faulted>>

\* validateUserMFAAuth.
SecretSaved(x) ==
  /\ x \in MfaPosts /\ pc[x] = "update"
  /\ secret' = [secret EXCEPT ![of[x]] = read[x]]
  /\ UNCHANGED <<chainVars, documents, codes, sessions, mfa, shown, tried, read, latest>>

MfaEnable(x) == SecretSaved(x) /\ Moves(x, "done") /\ UNCHANGED faulted

MfaStep(h) ==
  \/ MfaGetGuard(h) \/ MfaRecord(h) \/ MfaStore(h)
  \/ MfaPostGuard(h) \/ MfaRead(h) \/ MfaVerify(h) \/ MfaEnable(h)

-----------------------------------------------------------------------------
(***************************************************************************)
(* Time and failures.                                                      *)
(***************************************************************************)

\* The memory store forgets a code after one minute, a secret after five.
Expire(u) ==
  /\ \/ /\ otp[u] \in Expiring
        /\ otp' = [otp EXCEPT ![u] = None] /\ UNCHANGED mfa
     \/ /\ mfa[u] \in Expiring
        /\ mfa' = [mfa EXCEPT ![u] = None] /\ UNCHANGED otp
  /\ UNCHANGED <<chainVars, documents, inbox, greeting, code, issued, sessions, shown,
                 tried, read, secret, latest, request, faulted>>

\* An awaited operation of the handler throws; a write may have been made all the
\* same.
RequestFails(h) ==
  /\ \/ AtWork(h) /\ pc[h] \notin {"wallet", "send"} /\ "database" \in Failures
     \/ pc[h] = "send" /\ "mail" \in Failures
  /\ Moves(h, "failed")
  /\ Faults(h)
  /\ \/ UNCHANGED <<chainVars, documents, codes, sessions, factor>>
     \/ AccountSaved(h)
     \/ OtpSaved(h) /\ UNCHANGED greeting
     \/ (TokenSaved(h) \/ OldDeleted(h)) /\ UNCHANGED held
     \/ (VerificationSaved(h) \/ PinSaved(h) \/ SecretSaved(h)) /\ UNCHANGED chainVars
     \/ SecretStored(h) /\ UNCHANGED <<shown, latest>>

\* The process ends and is started again: nothing in flight is resumed.
Crash ==
  /\ ChainsCrash
  /\ pc' = [h \in Handlers |-> IF AtWork(h) THEN "failed" ELSE pc[h]]
  /\ greeting' = [u \in Parties |-> IF greeting[u] = "sent" THEN "done" ELSE greeting[u]]
  /\ faulted' = faulted \cup {of[h] : h \in {g \in Handlers : AtWork(g)}}
  /\ UNCHANGED <<of, beside, documents, otp, inbox, code, issued, sessions, factor>>

CreationRuns(c) == CreationStep(c) /\ UNCHANGED accountVars

Arrives(u) ==
  \/ Register(u)
  \/ \E h \in Logins : LoginBegins(h, u)
  \/ \E h \in TokenRequests : TokenBegins(h, u)
  \/ \E h \in OtpRequests : OtpBegins(h, u)
  \/ \E h \in Verifications : VerificationBegins(h, u)
  \/ \E h \in PinRequests : PinBegins(h, u)
  \/ \E h \in ChainRequests : ChainBegins(h, u)
  \/ \E h \in MfaGets : MfaGetBegins(h, u)
  \/ \E h \in MfaPosts : MfaPostBegins(h, u)

AccountNext ==
  \/ \E u \in Parties : Arrives(u) \/ RegistrationStep(u) \/ Greet(u) \/ Expire(u)
  \/ \E h \in Logins \cup TokenRequests : SessionStep(h)
  \/ \E h \in OtpRequests \cup Verifications : VerificationStep(h)
  \/ \E h \in Creations : SetupStep(h)
  \/ \E h \in MfaGets \cup MfaPosts : MfaStep(h)
  \/ \E h \in Handlers : RequestFails(h)
  \/ \E c \in Creations : CreationRuns(c)
  \/ Crash

AccountSpec == AccountInit /\ [][AccountNext]_vars

-----------------------------------------------------------------------------
(***************************************************************************)
(* Properties.                                                             *)
(***************************************************************************)

Codes == Parties \cup OtpRequests
Steps == {"check", "save", "otp", "token", "password", "delete", "read", "guard", "send",
          "compare", "update", "wallet", "record", "store", "verify"}

\* The documents, the memory store and the handlers have values of their types.
AccountTypeOK ==
  /\ ChainsTypeOK
  /\ pc \in [Handlers -> Steps \cup Resting]
  /\ of \in [Handlers -> Parties \cup {None}]
  /\ accounts \subseteq Parties /\ verified \subseteq Parties \ Merchants
  /\ active \subseteq Parties
  /\ pin \in [Parties -> PinRequests \cup {None}]
  /\ otp \in [Parties -> Codes \cup {None}]
  /\ inbox \in [Parties -> SUBSET Codes]
  /\ greeting \in [Parties -> {"none", "sent", "done"}]
  /\ code \in [Verifications -> Codes \cup {None}]
  /\ tokens \subseteq Tokens
  /\ held \in [Parties -> Tokens \cup {None}]
  /\ old \in [Logins \cup TokenRequests -> Tokens \cup {None}]
  /\ mfa \in [Parties -> MfaGets \cup {None}]
  /\ shown \in [Parties -> SUBSET MfaGets]
  /\ tried \in [MfaPosts -> MfaGets \cup {None}]
  /\ read \in [MfaPosts -> MfaGets \cup {None}]
  /\ secret \in [Parties -> MfaGets \cup {None}]
  /\ issued \in [Parties -> Codes \cup {None}]
  /\ latest \in [Parties -> MfaGets \cup {None}]
  /\ beside \in [Handlers -> SUBSET Handlers]
  /\ faulted \subseteq Parties

\* The setup goes in order whichever requests overlap, though each guard reads the
\* account awaits before its handler writes: a user is active exactly with a pin, has a
\* pin only with a verified phone, and a wallet and a second factor only when active;
\* a phone was verified with a code that was sent, a merchant's account with one of
\* an OTP request, since the registration's is never sent to a merchant.
SetupInOrder ==
  /\ \A u \in Parties \ Merchants :
       /\ u \in active <=> pin[u] # None
       /\ pin[u] # None => u \in verified
       /\ secret[u] # None => u \in active /\ secret[u] \in shown[u]
       /\ u \in verified => \E v \in Verifications : of[v] = u /\ code[v] \in inbox[u]
  /\ \A u \in Merchants :
       u \in active => \E v \in Verifications : of[v] = u /\ code[v] \in OtpRequests
  /\ \A c \in wallets : party[c] \in active

\* A pin is replaced only by a request that was at work beside the one that set it:
\* the guard looks for a pin, and the handler sets one at a later await.
PinReplaced ==
  \A u \in Parties :
    pin[u] # None /\ pin'[u] # pin[u] => Beside(pin[u], pin'[u])
PinSetOnce == [][PinReplaced]_vars

\* An active account has its default wallet once its requests are through, unless one
\* failed: the account is made active first, and a failed setup cannot be repeated.
ActiveHasWallet ==
  \A u \in active :
    (u \notin faulted /\ \A h \in Handlers : of[h] = u => ~AtWork(h))
      => \E c \in wallets : party[c] = u /\ chain[c] = Base

\* A code verifies an account only if it is the last one stored for it, unless
\* another was being made beside the verification.
CodeAccepted ==
  \A v \in Verifications :
    pc[v] = "update" /\ pc'[v] \in {"done", "wallet"} =>
      \/ code[v] = issued[of[v]]
      \/ \E h \in OtpRequests \cup Parties : Beside(h, v)
LatestCodeVerifies == [][CodeAccepted]_vars

\* The second factor enabled is the secret answered last, unless another was being
\* made beside the request that enabled it.
SecretEnabled ==
  \A x \in MfaPosts :
    pc[x] = "update" /\ pc'[x] = "done" =>
      \/ secret'[of[x]] = latest[of[x]]
      \/ \E g \in MfaGets : Beside(g, x)
LatestSecretEnabled == [][SecretEnabled]_vars

SessionsOf(u) == {t \in tokens : of[t] = u}
SignIns(u) == {l \in Logins : of[l] = u /\ pc[l] \in {"token", "delete", "done"}}

\* A sign-in of another account was sent a token of account u.
Strayed(u) == \E l \in Logins : old[l] # None /\ of[old[l]] = u /\ of[l] # u

\* An account whose sign-ins are through has one refresh token, the one answered last, if
\* none failed, each was sent a token of the account and no two the same one, and no
\* other account's was sent one: whichever tokens the sign-ins were sent and in whatever
\* order they began.  A sign-in creates its token, then deletes the one it was sent
\* with.
OneSession ==
  \A u \in Parties :
    (/\ u \notin faulted /\ ~Strayed(u)
     /\ \A l \in SignIns(u) : pc[l] = "done" /\ old[l] # None /\ of[old[l]] = u
     /\ \A k, l \in SignIns(u) : old[k] = old[l] => k = l)
      => SessionsOf(u) = {held[u]} \ {None}

\* A client that sends the refresh token it holds gets an access token, whichever tokens
\* were sent before, unless it is signing in beside, a sign-in failed or another
\* account's was sent a token of this one.
HeldIsAccepted ==
  \A t \in TokenRequests :
    pc[t] = "refused" =>
      \/ of[t] \in faulted \/ Strayed(of[t])
      \/ \E l \in Logins : Beside(l, t)
=============================================================================
