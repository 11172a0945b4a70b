---------------------------- MODULE WalletChains ----------------------------
(***************************************************************************)
(* The wallets a user or a merchant has on each chain, and the assets each  *)
(* wallet is known to hold.                                                *)
(*                                                                         *)
(* A creation (assignWallet) looks for the party's wallet, takes an address *)
(* from an earlier wallet or has the custodian make one, and saves the      *)
(* wallet document.  A query (retrieveChainBalance) looks for the wallet,   *)
(* reads its asset documents and, if there are none, fetches the assets     *)
(* from the custodian and saves a document for each.  Both check first and  *)
(* create in a later await, and no index makes a document unique.  Each     *)
(* awaited operation is a step.                                            *)
(***************************************************************************)
EXTENDS Naturals

CONSTANTS
  Parties,     \* users and merchants
  Merchants,   \* the merchants among them
  Chains,      \* the chains a request may name
  Supported,   \* the chains the custodian's processor supports
  Assets,      \* the assets the custodian may list
  Creations,   \* the calls of assignWallet
  Queries,     \* the calls of retrieveChainBalance
  Failures,    \* the faults a run allows
  None

ASSUME ChainsAssumption ==
  /\ Merchants \subseteq Parties
  /\ Supported \subseteq Chains
  /\ Creations \cap Queries = {}
  /\ None \notin Parties \cup Chains \cup Creations
  /\ Failures \subseteq {"database", "custodian", "crash", "mail"}

VARIABLES
  creating,   \* the operation each creation does next
  asking,     \* the operation each query does next
  party,      \* whose wallet each call is about
  chain,      \* on which chain
  address,    \* the address each creation saves, named by the creation it was made for
  wallets,    \* the creations whose wallet document exists
  source,     \* the wallet each query found
  listed,     \* the assets the custodian listed for each query
  saving,     \* the asset documents of each query whose save is in flight
  cached,     \* the asset documents each query has created
  answer,     \* the assets each query answered
  metBy,      \* history: the calls at work when each call began that compete with it
  spoiled     \* history: queries that lost a save

Calls == Creations \cup Queries
chainVars == <<creating, asking, party, chain, address, wallets, source, listed,
               saving, cached, answer, metBy, spoiled>>
queryVars == <<asking, source, listed, saving, cached, answer, spoiled>>
creationVars == <<creating, address, wallets>>
about == <<party, chain, metBy>>

Resting == {"idle", "done", "exists", "refused", "failed"}
Creates(c, s) == creating' = [creating EXCEPT ![c] = s]
Asks(q, s) == asking' = [asking EXCEPT ![q] = s]
Kind(u) == u \in Merchants
Asking(q) == asking[q] \notin Resting \/ saving[q] # {}

\* Two calls were at work at once.
Met(c, d) == c \in metBy[d] \/ d \in metBy[c]

ChainsInit ==
  /\ creating = [c \in Creations |-> "idle"]
  /\ asking = [q \in Queries |-> "idle"]
  /\ party = [c \in Calls |-> None]
  /\ chain = [c \in Calls |-> None]
  /\ address = [c \in Creations |-> None]
  /\ wallets = {}
  /\ source = [q \in Queries |-> None]
  /\ listed = [q \in Queries |-> {}]
  /\ saving = [q \in Queries |-> {}]
  /\ cached = [q \in Queries |-> {}]
  /\ answer = [q \in Queries |-> {}]
  /\ metBy = [c \in Calls |-> {}]
  /\ spoiled = {}

-----------------------------------------------------------------------------
(***************************************************************************)
(* createWalletChain.                                                      *)
(***************************************************************************)

\* processWallet and validateSelectedChain: at start each chain is assigned a
\* registered processor that supports it.
Assigned(k) == k \in Supported

BeginCreation(c, u, k) ==
  /\ creating[c] = "idle"
  /\ Creates(c, IF Assigned(k) THEN "check" ELSE "refused")
  /\ party' = [party EXCEPT ![c] = u]
  /\ chain' = [chain EXCEPT ![c] = k]
  /\ metBy' = [metBy EXCEPT ![c] =
       {d \in Creations : creating[d] \notin Resting /\ Kind(party[d]) = Kind(u)}]
  /\ UNCHANGED <<queryVars, address, wallets>>

\* findWalletChainByName.  It asks merchants' documents for a userId, and they have
\* a merchantId: a merchant's wallet is never found.
WalletsNamed(u, k) ==
  {d \in wallets : party[d] = u /\ chain[d] = k /\ u \notin Merchants}

\* Variant of CheckChain for the mutants: does not look.
CheckChainUnlooked(c) ==
  /\ creating[c] = "check"
  /\ Creates(c, "address")
  /\ UNCHANGED <<queryVars, about, address, wallets>>

CheckChain(c) ==
  /\ creating[c] = "check"
  /\ Creates(c, IF WalletsNamed(party[c], chain[c]) = {} THEN "address" ELSE "exists")
  /\ UNCHANGED <<queryVars, about, address, wallets>>

\* findWalletsByProcessor: the wallets of the kind that Blockradar holds, whoever
\* they belong to.
WalletsOfKind(u) == {d \in wallets : Kind(party[d]) = Kind(u)}

\* Variant of FindAddress for the mutants: always has an address made.
FindAddressNever(c) ==
  /\ creating[c] = "address"
  /\ Creates(c, "custodian")
  /\ UNCHANGED <<queryVars, about, wallets, address>>

\* processChainCreation takes the address of any wallet it finds.
FindAddress(c) ==
  /\ creating[c] = "address"
  /\ \/ /\ WalletsOfKind(party[c]) = {}
        /\ Creates(c, "custodian")
        /\ UNCHANGED address
     \/ \E d \in WalletsOfKind(party[c]) :
          /\ Creates(c, "save")
          /\ address' = [address EXCEPT ![c] = address[d]]
  /\ UNCHANGED <<queryVars, about, wallets>>

\* Variant of CustodianAnswers for the mutants: saves the chain's name.
CustodianAnswersByChain(c) ==
  /\ creating[c] = "custodian"
  /\ Creates(c, "save")
  /\ address' = [address EXCEPT ![c] = chain[c]]
  /\ UNCHANGED <<queryVars, about, wallets>>

CustodianAnswers(c) ==
  /\ creating[c] = "custodian"
  /\ Creates(c, "save")
  /\ address' = [address EXCEPT ![c] = c]
  /\ UNCHANGED <<queryVars, about, wallets>>

\* registerNewChain.
SaveWallet(c) ==
  /\ creating[c] = "save"
  /\ Creates(c, "done")
  /\ wallets' = wallets \cup {c}
  /\ UNCHANGED <<queryVars, about, address>>

\* A query fails, or the custodian refuses or does not answer; a save that fails
\* may have been made all the same.
CreationFails(c) ==
  /\ \/ creating[c] \in {"check", "address", "save"} /\ "database" \in Failures
     \/ creating[c] = "custodian" /\ "custodian" \in Failures
  /\ Creates(c, "failed")
  /\ \/ UNCHANGED wallets
     \/ creating[c] = "save" /\ wallets' = wallets \cup {c}
  /\ UNCHANGED <<queryVars, about, address>>

CreationStep(c) ==
  \/ CheckChain(c) \/ FindAddress(c) \/ CustodianAnswers(c) \/ SaveWallet(c)
  \/ CreationFails(c)

-----------------------------------------------------------------------------
(***************************************************************************)
(* getChainAssetBalance.                                                   *)
(***************************************************************************)

BeginQuery(q, u, k) ==
  /\ asking[q] = "idle"
  /\ Asks(q, IF Assigned(k) THEN "find" ELSE "refused")
  /\ party' = [party EXCEPT ![q] = u]
  /\ chain' = [chain EXCEPT ![q] = k]
  /\ metBy' = [metBy EXCEPT ![q] =
       {r \in Queries : Asking(r) /\ party[r] = u /\ chain[r] = k}]
  /\ UNCHANGED <<creationVars, source, listed, saving, cached, answer, spoiled>>

FindWallet(q) ==
  /\ asking[q] = "find"
  /\ \/ /\ WalletsNamed(party[q], chain[q]) = {}
        /\ Asks(q, "refused")
        /\ UNCHANGED source
     \/ \E d \in WalletsNamed(party[q], chain[q]) :
          /\ Asks(q, "assets")
          /\ source' = [source EXCEPT ![q] = d]
  /\ UNCHANGED <<creationVars, about, listed, saving, cached, answer, spoiled>>

\* The queries of a wallet, and the assets it has a document of.
QueriesOf(w) == {q \in Queries : source[q] = w}
AssetsOf(w) == UNION {cached[q] : q \in QueriesOf(w)}

\* Variant of ReadAssets for the mutants: always fetches.
ReadAssetsAlways(q) ==
  /\ asking[q] = "assets"
  /\ Asks(q, "fetch") /\ UNCHANGED answer
  /\ UNCHANGED <<creationVars, about, source, listed, saving, cached, spoiled>>

\* retrieveAssetsForChain; the assets found are answered, with rates that count as
\* zero when they cannot be had.
ReadAssets(q) ==
  /\ asking[q] = "assets"
  /\ IF AssetsOf(source[q]) = {}
     THEN Asks(q, "fetch") /\ UNCHANGED answer
     ELSE Asks(q, "done") /\ answer' = [answer EXCEPT ![q] = AssetsOf(source[q])]
  /\ UNCHANGED <<creationVars, about, source, listed, saving, cached, spoiled>>

\* Variant of FetchAssets for the mutants: stores only some of the list.
FetchAssetsPartly(q) ==
  /\ asking[q] = "fetch"
  /\ \E A \in SUBSET Assets :
       /\ listed' = [listed EXCEPT ![q] = A]
       /\ \E B \in SUBSET A : saving' = [saving EXCEPT ![q] = B]
  /\ Asks(q, "create")
  /\ UNCHANGED <<creationVars, about, source, cached, answer, spoiled>>

\* processChainAssetRetrieval, then createChainBalance up to its saves, which run
\* side by side.
FetchAssets(q) ==
  /\ asking[q] = "fetch"
  /\ \E A \in SUBSET Assets :
       /\ listed' = [listed EXCEPT ![q] = A]
       /\ saving' = [saving EXCEPT ![q] = A]
  /\ Asks(q, "create")
  /\ UNCHANGED <<creationVars, about, source, cached, answer, spoiled>>

SaveAsset(q, a) ==
  /\ a \in saving[q]
  /\ saving' = [saving EXCEPT ![q] = @ \ {a}]
  /\ cached' = [cached EXCEPT ![q] = @ \cup {a}]
  /\ UNCHANGED <<creationVars, about, asking, source, listed, answer, spoiled>>

AssetsCreated(q) ==
  /\ asking[q] = "create" /\ saving[q] = {}
  /\ Asks(q, "done")
  /\ answer' = [answer EXCEPT ![q] = listed[q]]
  /\ UNCHANGED <<creationVars, about, source, listed, saving, cached, spoiled>>

\* The first save that fails is the query's answer; the others go on, and it may
\* have been made all the same.
SaveFails(q, a) ==
  /\ "database" \in Failures
  /\ a \in saving[q]
  /\ saving' = [saving EXCEPT ![q] = @ \ {a}]
  /\ asking' = [asking EXCEPT ![q] = "failed"]
  /\ spoiled' = spoiled \cup {q}
  /\ \/ UNCHANGED cached
     \/ cached' = [cached EXCEPT ![q] = @ \cup {a}]
  /\ UNCHANGED <<creationVars, about, source, listed, answer>>

QueryFails(q) ==
  /\ \/ asking[q] \in {"find", "assets"} /\ "database" \in Failures
     \/ asking[q] = "fetch" /\ "custodian" \in Failures
  /\ Asks(q, "failed")
  /\ UNCHANGED <<creationVars, about, source, listed, saving, cached, answer, spoiled>>

QueryStep(q) ==
  \/ FindWallet(q) \/ ReadAssets(q) \/ FetchAssets(q) \/ AssetsCreated(q)
  \/ QueryFails(q)
  \/ \E a \in Assets : SaveAsset(q, a) \/ SaveFails(q, a)

\* The process ends and is started again: nothing in flight is resumed.
ChainsCrash ==
  /\ "crash" \in Failures
  /\ creating' = [c \in Creations |->
                    IF creating[c] \in Resting THEN creating[c] ELSE "failed"]
  /\ asking' = [q \in Queries |-> IF asking[q] \in Resting THEN asking[q] ELSE "failed"]
  /\ saving' = [q \in Queries |-> {}]
  /\ spoiled' = spoiled \cup {q \in Queries : saving[q] # {}}
  /\ UNCHANGED <<about, address, wallets, source, listed, cached, answer>>

ChainsNext ==
  \/ \E u \in Parties, k \in Chains :
       \/ \E c \in Creations : BeginCreation(c, u, k)
       \/ \E q \in Queries : BeginQuery(q, u, k)
  \/ \E c \in Creations : CreationStep(c)
  \/ \E q \in Queries : QueryStep(q)
  \/ ChainsCrash

ChainsSpec == ChainsInit /\ [][ChainsNext]_chainVars

-----------------------------------------------------------------------------
(***************************************************************************)
(* Properties.                                                             *)
(***************************************************************************)

CreationSteps == {"check", "address", "custodian", "save"}
QuerySteps == {"find", "assets", "fetch", "create"}

\* The documents and calls have values of their types; a wallet's address was made
\* for a creation.
ChainsTypeOK ==
  /\ creating \in [Creations -> CreationSteps \cup Resting]
  /\ asking \in [Queries -> QuerySteps \cup Resting]
  /\ party \in [Calls -> Parties \cup {None}]
  /\ chain \in [Calls -> Chains \cup {None}]
  /\ address \in [Creations -> Creations \cup {None}]
  /\ wallets \subseteq Creations
  /\ source \in [Queries -> Creations \cup {None}]
  /\ listed \in [Queries -> SUBSET Assets]
  /\ saving \in [Queries -> SUBSET Assets]
  /\ cached \in [Queries -> SUBSET Assets]
  /\ answer \in [Queries -> SUBSET Assets]
  /\ metBy \in [Calls -> SUBSET Calls]
  /\ spoiled \subseteq Queries

\* A user has two wallets on one chain only if two creations were at work at once:
\* createWalletChain looks for the wallet, and saves one some awaits later.
OneWalletPerChain ==
  \A c, d \in wallets :
    (c # d /\ party[c] = party[d] /\ chain[c] = chain[d] /\ party[c] \notin Merchants)
      => Met(c, d)

\* The users, and the merchants, have a second address at the custodian only if
\* two creations were at work at once: each address was made for a creation that
\* found no wallet of the kind, and then saved its own.
OneAddressUnlessMet ==
  \A c, d \in wallets :
    (Kind(party[c]) = Kind(party[d]) /\ address[c] # address[d])
      => Met(address[c], address[d])

\* A wallet has two documents of one asset only if two queries about it were at work
\* at once, or one began while a save of the other, which had failed, was in flight.
AssetsOnce ==
  \A q, r \in Queries :
    (q # r /\ source[q] = source[r] /\ cached[q] \cap cached[r] # {}) => Met(q, r)

\* What a query answers is the custodian's list, once it has been stored, unless two
\* queries about the wallet met or one lost a save: the stored list is never
\* completed, since only an empty one is fetched anew.
CacheIsWhole ==
  \A q \in Queries :
    LET others == QueriesOf(source[q])
    IN asking[q] = "done" =>
         \/ \E r \in others : answer[q] = listed[r]
         \/ \E r \in others : r \in spoiled
         \/ \E r, s \in others : Met(r, s)

\* "check If user Already has a wallet created by blockradar"
\* (wallet-custodial/processors/blockradar/index.processor.ts:182): the address of
\* a party's wallet is not another party's.
AddressOfOneParty ==
  \A c, d \in wallets : address[c] = address[d] => party[c] = party[d]
=============================================================================
