------------------------ MODULE WalletChains_proofs ------------------------
(***************************************************************************)
(* The safety of WalletChains for any parties, chains, assets and calls.   *)
(*                                                                         *)
(* ChainsInv is the inductive invariant: the types, and                    *)
(*   CreationShape  what a creation's step says of its wallet and address, *)
(*   WalletsMet     which creations must have been at work together,       *)
(*   AddressesMet   the same of the creations addresses were made for,     *)
(*   QueryShape     what a query's step says of what it has read and saved,*)
(*   QueriesMet     which queries must have been at work together,         *)
(*   Answers        where an answer comes from.                            *)
(***************************************************************************)
EXTENDS WalletChains, TLAPS

Runs(c) == creating[c] \notin Resting
Holds(c) == c \in wallets \/ creating[c] = "save"

CreationShape ==
  \A c \in Creations :
    /\ c \in wallets => creating[c] \in {"done", "failed"}
    /\ Holds(c) => address[c] \in Creations /\ creating[address[c]] # "idle"
    /\ creating[c] = "save" =>
         address[c] = c \/ \E d \in wallets : Kind(party[d]) = Kind(party[c])

WalletsMet ==
  /\ \A c, d \in Creations :
       c # d /\ Runs(c) /\ Runs(d) /\ Kind(party[c]) = Kind(party[d]) => Met(c, d)
  /\ \A c, d \in Creations :
       (/\ creating[c] \in {"address", "custodian", "save"} /\ d \in wallets
        /\ party[c] = party[d] /\ chain[c] = chain[d] /\ party[c] \notin Merchants)
       => Met(c, d)
  /\ OneWalletPerChain

AddressesMet ==
  /\ \A c, d \in Creations :
       (/\ Holds(c) /\ Holds(d) /\ Kind(party[c]) = Kind(party[d])
        /\ address[c] # address[d])
       => Met(address[c], address[d])
  /\ \A c, d \in Creations :
       (/\ creating[c] = "custodian" /\ Holds(d) /\ Kind(party[c]) = Kind(party[d])
        /\ c # address[d])
       => Met(c, address[d])

Fetches(q) == asking[q] \in {"fetch", "create"} \/ saving[q] # {}

QueryShape ==
  \A q \in Queries :
    /\ asking[q] \in {"idle", "find", "assets", "fetch"} =>
         listed[q] = {} /\ saving[q] = {} /\ cached[q] = {}
    /\ asking[q] \in {"idle", "find"} => source[q] = None
    /\ asking[q] \in {"assets", "fetch", "create", "done"} => source[q] # None
    /\ saving[q] # {} \/ cached[q] # {} => source[q] # None
    /\ source[q] # None =>
         /\ source[q] \in wallets
         /\ party[source[q]] = party[q] /\ chain[source[q]] = chain[q]
    /\ q \notin spoiled => listed[q] = cached[q] \cup saving[q]

AskersMet ==
  \A q, r \in Queries :
    q # r /\ Asking(q) /\ Asking(r) /\ party[q] = party[r] /\ chain[q] = chain[r]
      => Met(q, r)

FetchersMet ==
  \A q, r \in Queries :
    q # r /\ source[q] = source[r] /\ Fetches(q) /\ cached[r] # {} => Met(q, r)

StorersMet ==
  \A q, r \in Queries :
    q # r /\ source[q] = source[r] /\ cached[q] # {} /\ cached[r] # {} => Met(q, r)

QueriesMet == AskersMet /\ FetchersMet /\ StorersMet

Answers ==
  \A q \in Queries :
    asking[q] = "done" =>
      \/ \E r \in QueriesOf(source[q]) :
           asking[r] \notin {"idle", "find", "assets", "fetch"} /\ answer[q] = listed[r]
      \/ \E r \in QueriesOf(source[q]) : r \in spoiled
      \/ \E r, s \in QueriesOf(source[q]) : Met(r, s)

ChainsInv ==
  /\ ChainsTypeOK
  /\ CreationShape /\ WalletsMet /\ AddressesMet
  /\ QueryShape /\ QueriesMet /\ Answers

-----------------------------------------------------------------------------
(***************************************************************************)
(* Types.                                                                  *)
(***************************************************************************)

\* Every step keeps the documents and calls in their types.
LEMMA TypesKept == ChainsTypeOK /\ [ChainsNext]_chainVars => ChainsTypeOK'
<1> SUFFICES ASSUME ChainsTypeOK, [ChainsNext]_chainVars PROVE ChainsTypeOK'
  OBVIOUS
<1> USE ChainsAssumption
<1>1. ASSUME NEW c \in Creations, NEW u \in Parties, NEW k \in Chains,
             BeginCreation(c, u, k)
      PROVE  ChainsTypeOK'
  BY <1>1 DEF ChainsTypeOK, BeginCreation, Creates, queryVars, Calls, CreationSteps,
              Resting
<1>2. ASSUME NEW q \in Queries, NEW u \in Parties, NEW k \in Chains,
             BeginQuery(q, u, k)
      PROVE  ChainsTypeOK'
  BY <1>2 DEF ChainsTypeOK, BeginQuery, Asks, creationVars, Calls, QuerySteps, Resting
<1>3. ASSUME NEW c \in Creations, CreationStep(c)
      PROVE  ChainsTypeOK'
  <2>1. CASE CheckChain(c)
    BY <2>1 DEF ChainsTypeOK, CheckChain, Creates, queryVars, about, CreationSteps,
       Resting
  <2>2. CASE FindAddress(c)
    BY <2>2 DEF ChainsTypeOK, FindAddress, Creates, queryVars, about, CreationSteps,
                WalletsOfKind
  <2>3. CASE CustodianAnswers(c)
    BY <2>3 DEF ChainsTypeOK, CustodianAnswers, Creates, queryVars, about, CreationSteps
  <2>4. CASE SaveWallet(c)
    BY <2>4 DEF ChainsTypeOK, SaveWallet, Creates, queryVars, about, Resting
  <2>5. CASE CreationFails(c)
    BY <2>5 DEF ChainsTypeOK, CreationFails, Creates, queryVars, about, Resting
  <2> QED BY <1>3, <2>1, <2>2, <2>3, <2>4, <2>5 DEF CreationStep
<1>4. ASSUME NEW q \in Queries, QueryStep(q)
      PROVE  ChainsTypeOK'
  <2>1. CASE FindWallet(q)
    BY <2>1 DEF ChainsTypeOK, FindWallet, Asks, creationVars, about, QuerySteps, Resting,
                WalletsNamed
  <2>2. CASE ReadAssets(q)
    <3>1. AssetsOf(source[q]) \in SUBSET Assets
      BY DEF ChainsTypeOK, AssetsOf, QueriesOf
    <3> QED BY <2>2, <3>1 DEF ChainsTypeOK, ReadAssets, Asks, creationVars, about,
                              QuerySteps, Resting
  <2>3. CASE FetchAssets(q)
    BY <2>3 DEF ChainsTypeOK, FetchAssets, Asks, creationVars, about, QuerySteps
  <2>4. CASE AssetsCreated(q)
    BY <2>4 DEF ChainsTypeOK, AssetsCreated, Asks, creationVars, about, Resting
  <2>5. CASE QueryFails(q)
    BY <2>5 DEF ChainsTypeOK, QueryFails, Asks, creationVars, about, Resting
  <2>6. ASSUME NEW a \in Assets, SaveAsset(q, a) PROVE ChainsTypeOK'
    BY <2>6 DEF ChainsTypeOK, SaveAsset, creationVars, about
  <2>7. ASSUME NEW a \in Assets, SaveFails(q, a) PROVE ChainsTypeOK'
    BY <2>7 DEF ChainsTypeOK, SaveFails, creationVars, about, Resting
  <2> QED BY <1>4, <2>1, <2>2, <2>3, <2>4, <2>5, <2>6, <2>7 DEF QueryStep
<1>5. CASE ChainsCrash
  BY <1>5 DEF ChainsTypeOK, ChainsCrash, about, Resting
<1>6. CASE UNCHANGED chainVars
  BY <1>6 DEF ChainsTypeOK, chainVars
<1> QED BY <1>1, <1>2, <1>3, <1>4, <1>5, <1>6 DEF ChainsNext

-----------------------------------------------------------------------------
(***************************************************************************)
(* Creations.                                                              *)
(***************************************************************************)

\* A wallet is saved at the last step of its creation, and the address at hand was
\* made for a creation that began.
LEMMA CreationShapeKept ==
  ASSUME ChainsTypeOK, CreationShape, [ChainsNext]_chainVars
  PROVE  CreationShape'
<1> USE ChainsAssumption DEF ChainsTypeOK, Resting, CreationShape, Holds, Kind, Calls
<1>1. ASSUME NEW c \in Creations, NEW u \in Parties, NEW k \in Chains,
             BeginCreation(c, u, k)
      PROVE  CreationShape'
  BY <1>1 DEF BeginCreation, Creates, queryVars
<1>2. ASSUME NEW q \in Queries, NEW u \in Parties, NEW k \in Chains,
             BeginQuery(q, u, k)
      PROVE  CreationShape'
  <2> \A c \in Creations : party'[c] = party[c]
    BY <1>2 DEF BeginQuery
  <2> UNCHANGED creationVars
    BY <1>2 DEF BeginQuery
  <2> QED BY DEF creationVars
<1>3. ASSUME NEW c \in Creations, CreationStep(c)
      PROVE  CreationShape'
  <2>1. CASE CheckChain(c)
    BY <2>1 DEF CheckChain, Creates, queryVars, about
  <2>2. CASE FindAddress(c)
    BY <2>2 DEF FindAddress, Creates, queryVars, about, WalletsOfKind
  <2>3. CASE CustodianAnswers(c)
    BY <2>3 DEF CustodianAnswers, Creates, queryVars, about
  <2>4. CASE SaveWallet(c)
    BY <2>4 DEF SaveWallet, Creates, queryVars, about
  <2>5. CASE CreationFails(c)
    BY <2>5 DEF CreationFails, Creates, queryVars, about
  <2> QED BY <1>3, <2>1, <2>2, <2>3, <2>4, <2>5 DEF CreationStep
<1>4. ASSUME NEW q \in Queries, QueryStep(q)
      PROVE  CreationShape'
  <2> UNCHANGED <<creationVars, about>>
    BY <1>4 DEF QueryStep, FindWallet, ReadAssets, FetchAssets, AssetsCreated,
                QueryFails, SaveAsset, SaveFails
  <2> QED BY DEF creationVars, about
<1>5. CASE ChainsCrash
  BY <1>5 DEF ChainsCrash, about
<1>6. CASE UNCHANGED chainVars
  BY <1>6 DEF chainVars
<1> QED BY <1>1, <1>2, <1>3, <1>4, <1>5, <1>6 DEF ChainsNext

\* Of two creations for one party and chain that both get past the check, one was at
\* work when the other began.
LEMMA WalletsMetKept ==
  ASSUME ChainsTypeOK, CreationShape, WalletsMet, [ChainsNext]_chainVars
  PROVE  WalletsMet'
<1> USE ChainsAssumption DEF ChainsTypeOK, Resting, CreationShape, WalletsMet,
            OneWalletPerChain, Holds, Kind, Calls, Met, Runs
<1>1. ASSUME NEW c \in Creations, NEW u \in Parties, NEW k \in Chains,
             BeginCreation(c, u, k)
      PROVE  WalletsMet'
  BY <1>1 DEF BeginCreation, Creates, queryVars
<1>2. ASSUME NEW q \in Queries, NEW u \in Parties, NEW k \in Chains,
             BeginQuery(q, u, k)
      PROVE  WalletsMet'
  BY <1>2 DEF BeginQuery, Asks, creationVars
<1>3. ASSUME NEW c \in Creations, CreationStep(c)
      PROVE  WalletsMet'
  <2>1. CASE CheckChain(c)
    BY <2>1 DEF CheckChain, Creates, queryVars, about, WalletsNamed
  <2>2. CASE FindAddress(c)
    <3> UNCHANGED <<party, chain, wallets, metBy>>
      BY <2>2 DEF FindAddress, about
    <3>1. PICK s \in {"custodian", "save"} :
            creating[c] = "address" /\ creating' = [creating EXCEPT ![c] = s]
      BY <2>2 DEF FindAddress, Creates
    <3>2. \A d \in Creations : Runs(d)' <=> Runs(d)
      BY <3>1
    <3>3. \A d \in Creations :
            creating'[d] \in {"address", "custodian", "save"}
              => creating[d] \in {"address", "custodian", "save"}
      BY <3>1
    <3> QED BY <3>2, <3>3
  <2>3. CASE CustodianAnswers(c)
    <3> UNCHANGED <<party, chain, wallets, metBy>>
      BY <2>3 DEF CustodianAnswers, about
    <3>1. creating[c] = "custodian" /\ creating' = [creating EXCEPT ![c] = "save"]
      BY <2>3 DEF CustodianAnswers, Creates
    <3>2. \A d \in Creations : Runs(d)' <=> Runs(d)
      BY <3>1
    <3>3. \A d \in Creations :
            creating'[d] \in {"address", "custodian", "save"}
              => creating[d] \in {"address", "custodian", "save"}
      BY <3>1
    <3> QED BY <3>2, <3>3
  <2>4. CASE SaveWallet(c)
    <3> UNCHANGED <<party, chain, metBy>>
      BY <2>4 DEF SaveWallet, about
    <3>1. creating[c] = "save" /\ creating' = [creating EXCEPT ![c] = "done"]
      BY <2>4 DEF SaveWallet, Creates
    <3>2. wallets' = wallets \cup {c}
      BY <2>4 DEF SaveWallet
    <3>3. \A d \in Creations :
            /\ Runs(d)' => Runs(d)
            /\ creating'[d] \in {"address", "custodian", "save"}
                 => d # c /\ creating[d] \in {"address", "custodian", "save"}
      BY <3>1
    <3>4. \A d \in wallets : d \in Creations /\ d # c
      BY <3>1
    <3>5. \A d \in Creations \ {c} :
            (/\ creating[d] \in {"address", "custodian", "save"}
             /\ Kind(party[d]) = Kind(party[c]))
            => Met(d, c)
      BY <3>1
    <3>6. \A d \in wallets :
            (party[d] = party[c] /\ chain[d] = chain[c] /\ party[d] \notin Merchants)
              => Met(c, d) /\ Met(d, c)
      BY <3>1, <3>4
    <3> QED BY <3>2, <3>3, <3>4, <3>5, <3>6
  <2>5. CASE CreationFails(c)
    <3> UNCHANGED <<party, chain, metBy>>
      BY <2>5 DEF CreationFails, about
    <3>1. Runs(c) /\ creating' = [creating EXCEPT ![c] = "failed"]
      BY <2>5 DEF CreationFails, Creates
    <3>2. wallets' = wallets \/ (wallets' = wallets \cup {c} /\ creating[c] = "save")
      BY <2>5 DEF CreationFails
    <3>3. \A d \in Creations :
            /\ Runs(d)' => Runs(d)
            /\ creating'[d] \in {"address", "custodian", "save"}
                 => d # c /\ creating[d] \in {"address", "custodian", "save"}
      BY <3>1
    <3>4. CASE wallets' = wallets
      BY <3>3, <3>4
    <3>5. CASE wallets' = wallets \cup {c} /\ creating[c] = "save"
      <4>1. \A d \in wallets : d \in Creations /\ d # c
        BY <3>5
      <4>2. \A d \in Creations \ {c} :
              (/\ creating[d] \in {"address", "custodian", "save"}
               /\ Kind(party[d]) = Kind(party[c]))
              => Met(d, c)
        BY <3>5
      <4>3. \A d \in wallets :
              (/\ party[d] = party[c] /\ chain[d] = chain[c]
               /\ party[d] \notin Merchants)
              => Met(c, d) /\ Met(d, c)
        BY <3>5, <4>1
      <4> QED BY <3>3, <3>5, <4>1, <4>2, <4>3
    <3> QED BY <3>2, <3>4, <3>5
  <2> QED BY <1>3, <2>1, <2>2, <2>3, <2>4, <2>5 DEF CreationStep
<1>4. ASSUME NEW q \in Queries, QueryStep(q)
      PROVE  WalletsMet'
  <2> UNCHANGED <<creationVars, about>>
    BY <1>4 DEF QueryStep, FindWallet, ReadAssets, FetchAssets, AssetsCreated,
                QueryFails, SaveAsset, SaveFails
  <2> QED BY DEF creationVars, about
<1>5. CASE ChainsCrash
  BY <1>5 DEF ChainsCrash, about
<1>6. CASE UNCHANGED chainVars
  BY <1>6 DEF chainVars
<1> QED BY <1>1, <1>2, <1>3, <1>4, <1>5, <1>6 DEF ChainsNext

\* A second address of a kind is asked for only by a creation that found no wallet of
\* the kind, so those that have one at hand are still at work.
LEMMA AddressesMetKept ==
  ASSUME ChainsTypeOK, CreationShape, WalletsMet, AddressesMet, [ChainsNext]_chainVars
  PROVE  AddressesMet'
<1> USE ChainsAssumption DEF ChainsTypeOK, Resting, CreationShape, WalletsMet,
            AddressesMet, Holds, Kind, Calls, Met, Runs
<1>1. ASSUME NEW c \in Creations, NEW u \in Parties, NEW k \in Chains,
             BeginCreation(c, u, k)
      PROVE  AddressesMet'
  BY <1>1 DEF BeginCreation, Creates, queryVars
<1>2. ASSUME NEW q \in Queries, NEW u \in Parties, NEW k \in Chains,
             BeginQuery(q, u, k)
      PROVE  AddressesMet'
  BY <1>2 DEF BeginQuery, Asks, creationVars
<1>3. ASSUME NEW c \in Creations, CreationStep(c)
      PROVE  AddressesMet'
  <2>1. CASE CheckChain(c)
    BY <2>1 DEF CheckChain, Creates, queryVars, about
  <2>2. CASE FindAddress(c)
    <3> DEFINE Kin(d) == Kind(party[d]) = Kind(party[c])
    <3> UNCHANGED <<party, wallets, metBy>> /\ c \in Calls
      BY <2>2 DEF FindAddress, about
    <3>1. ASSUME WalletsOfKind(party[c]) = {}, address' = address,
                 creating' = [creating EXCEPT ![c] = "custodian"]
          PROVE  AddressesMet'
      <4>1. \A d \in Creations :
              Holds(d) /\ Kin(d) => creating[d] = "save" /\ address[d] = d
        BY <3>1 DEF WalletsOfKind
      <4>2. \A d \in Creations : Holds(d) /\ Kin(d) => Met(c, d)
        BY <4>1, <2>2 DEF FindAddress
      <4>3. \A d \in Creations : Holds(d)' <=> Holds(d)
        BY <3>1, <2>2 DEF FindAddress
      <4> QED BY <3>1, <4>1, <4>2, <4>3
    <3>2. ASSUME NEW w \in WalletsOfKind(party[c]),
                 creating' = [creating EXCEPT ![c] = "save"],
                 address' = [address EXCEPT ![c] = address[w]]
          PROVE  AddressesMet'
      <4>1. w \in Creations /\ Holds(w) /\ Kin(w) /\ w # c
        BY <2>2 DEF WalletsOfKind, FindAddress
      <4>2. \A d \in Creations \ {c} : (Holds(d)' <=> Holds(d)) /\ address'[d] = address[d]
        BY <3>2
      <4>3. address'[c] = address[w]
        BY <3>2
      <4> QED BY <3>2, <4>1, <4>2, <4>3
    <3> QED BY <2>2, <3>1, <3>2 DEF FindAddress, Creates
  <2>3. CASE CustodianAnswers(c)
    <3> UNCHANGED <<party, wallets, metBy>>
      BY <2>3 DEF CustodianAnswers, about
    <3>1. creating[c] = "custodian" /\ creating' = [creating EXCEPT ![c] = "save"]
      BY <2>3 DEF CustodianAnswers, Creates
    <3>2. address' = [address EXCEPT ![c] = c]
      BY <2>3 DEF CustodianAnswers
    <3>3. \A d \in Creations \ {c} : (Holds(d)' <=> Holds(d)) /\ address'[d] = address[d]
      BY <3>1, <3>2
    <3>4. \A d \in Creations \ {c} :
            Kind(party[d]) = Kind(party[c]) =>
              /\ Holds(d) /\ c # address[d] => Met(c, address[d]) /\ Met(address[d], c)
              /\ creating[d] = "custodian" => Met(d, c)
      BY <3>1
    <3> QED BY <3>1, <3>2, <3>3, <3>4
  <2>4. CASE SaveWallet(c)
    BY <2>4 DEF SaveWallet, Creates, queryVars, about
  <2>5. CASE CreationFails(c)
    BY <2>5 DEF CreationFails, Creates, queryVars, about
  <2> QED BY <1>3, <2>1, <2>2, <2>3, <2>4, <2>5 DEF CreationStep
<1>4. ASSUME NEW q \in Queries, QueryStep(q)
      PROVE  AddressesMet'
  <2> UNCHANGED <<creationVars, about>>
    BY <1>4 DEF QueryStep, FindWallet, ReadAssets, FetchAssets, AssetsCreated,
                QueryFails, SaveAsset, SaveFails
  <2> QED BY DEF creationVars, about
<1>5. CASE ChainsCrash
  BY <1>5 DEF ChainsCrash, about
<1>6. CASE UNCHANGED chainVars
  BY <1>6 DEF chainVars
<1> QED BY <1>1, <1>2, <1>3, <1>4, <1>5, <1>6 DEF ChainsNext

-----------------------------------------------------------------------------
(***************************************************************************)
(* Queries.                                                                *)
(***************************************************************************)

\* What a query has listed it has stored, is storing, or has lost.
LEMMA QueryShapeKept ==
  ASSUME ChainsTypeOK, CreationShape, QueryShape, [ChainsNext]_chainVars
  PROVE  QueryShape'
<1> USE ChainsAssumption DEF ChainsTypeOK, Resting, CreationShape, QueryShape, Calls,
            QuerySteps
<1>1. ASSUME NEW c \in Creations, NEW u \in Parties, NEW k \in Chains,
             BeginCreation(c, u, k)
      PROVE  QueryShape'
  BY <1>1 DEF BeginCreation, Creates, queryVars
<1>2. ASSUME NEW q \in Queries, NEW u \in Parties, NEW k \in Chains,
             BeginQuery(q, u, k)
      PROVE  QueryShape'
  BY <1>2 DEF BeginQuery, Asks, creationVars
<1>3. ASSUME NEW c \in Creations, CreationStep(c)
      PROVE  QueryShape'
  <2> UNCHANGED <<queryVars, about>> /\ wallets \subseteq wallets'
    BY <1>3 DEF CreationStep, CheckChain, FindAddress, CustodianAnswers, SaveWallet,
                CreationFails
  <2> QED BY DEF queryVars, about
<1>4. ASSUME NEW q \in Queries, QueryStep(q)
      PROVE  QueryShape'
  <2>1. CASE FindWallet(q)
    BY <2>1 DEF FindWallet, Asks, creationVars, about, WalletsNamed
  <2>2. CASE ReadAssets(q)
    BY <2>2 DEF ReadAssets, Asks, creationVars, about
  <2>3. CASE FetchAssets(q)
    BY <2>3 DEF FetchAssets, Asks, creationVars, about
  <2>4. CASE AssetsCreated(q)
    BY <2>4 DEF AssetsCreated, Asks, creationVars, about
  <2>5. CASE QueryFails(q)
    BY <2>5 DEF QueryFails, Asks, creationVars, about
  <2>6. CASE \E a \in Assets : SaveAsset(q, a)
    BY <2>6 DEF SaveAsset, creationVars, about
  <2>7. CASE \E a \in Assets : SaveFails(q, a)
    BY <2>7 DEF SaveFails, creationVars, about
  <2> QED BY <1>4, <2>1, <2>2, <2>3, <2>4, <2>5, <2>6, <2>7 DEF QueryStep
<1>5. CASE ChainsCrash
  BY <1>5 DEF ChainsCrash, about
<1>6. CASE UNCHANGED chainVars
  BY <1>6 DEF chainVars
<1> QED BY <1>1, <1>2, <1>3, <1>4, <1>5, <1>6 DEF ChainsNext

\* Queries about one chain that are at work have met.
LEMMA AskersMetKept ==
  ASSUME ChainsTypeOK, AskersMet, [ChainsNext]_chainVars
  PROVE  AskersMet'
<1> USE ChainsAssumption DEF ChainsTypeOK, Resting, AskersMet, Asking, Calls, Met
<1>1. ASSUME NEW c \in Creations, NEW u \in Parties, NEW k \in Chains,
             BeginCreation(c, u, k)
      PROVE  AskersMet'
  <2> c \notin Queries /\ \A q \in Queries : q # c /\ q \in Calls
    BY DEF Calls
  <2> \A q \in Queries :
        party'[q] = party[q] /\ chain'[q] = chain[q] /\ metBy'[q] = metBy[q]
    BY <1>1 DEF BeginCreation
  <2> QED BY <1>1 DEF BeginCreation, queryVars
<1>2. ASSUME NEW q \in Queries, NEW u \in Parties, NEW k \in Chains,
             BeginQuery(q, u, k)
      PROVE  AskersMet'
  BY <1>2 DEF BeginQuery, Asks, creationVars
<1>3. ASSUME NEW c \in Creations, CreationStep(c)
      PROVE  AskersMet'
  <2> UNCHANGED <<queryVars, about>> /\ wallets \subseteq wallets'
    BY <1>3 DEF CreationStep, CheckChain, FindAddress, CustodianAnswers, SaveWallet,
                CreationFails
  <2> QED BY DEF queryVars, about
<1>4. ASSUME NEW q \in Queries, QueryStep(q)
      PROVE  AskersMet'
  <2>1. CASE FindWallet(q)
    BY <2>1 DEF FindWallet, Asks, creationVars, about, WalletsNamed
  <2>2. CASE ReadAssets(q)
    BY <2>2 DEF ReadAssets, Asks, creationVars, about
  <2>3. CASE FetchAssets(q)
    BY <2>3 DEF FetchAssets, Asks, creationVars, about
  <2>4. CASE AssetsCreated(q)
    BY <2>4 DEF AssetsCreated, Asks, creationVars, about
  <2>5. CASE QueryFails(q)
    BY <2>5 DEF QueryFails, Asks, creationVars, about
  <2>6. CASE \E a \in Assets : SaveAsset(q, a)
    BY <2>6 DEF SaveAsset, creationVars, about
  <2>7. CASE \E a \in Assets : SaveFails(q, a)
    BY <2>7 DEF SaveFails, creationVars, about
  <2> QED BY <1>4, <2>1, <2>2, <2>3, <2>4, <2>5, <2>6, <2>7 DEF QueryStep
<1>5. CASE ChainsCrash
  BY <1>5 DEF ChainsCrash, about
<1>6. CASE UNCHANGED chainVars
  BY <1>6 DEF chainVars
<1> QED BY <1>1, <1>2, <1>3, <1>4, <1>5, <1>6 DEF ChainsNext

\* A query fetches only if nothing was stored: what is stored now was stored meanwhile.
LEMMA FetchersMetKept ==
  ASSUME ChainsTypeOK, QueryShape, AskersMet, FetchersMet, [ChainsNext]_chainVars
  PROVE  FetchersMet'
<1> USE ChainsAssumption DEF ChainsTypeOK, Resting, QueryShape, AskersMet, FetchersMet,
            Asking, Fetches, Calls, Met
<1>1. ASSUME NEW c \in Creations, NEW u \in Parties, NEW k \in Chains,
             BeginCreation(c, u, k)
      PROVE  FetchersMet'
  <2> c \notin Queries /\ \A q \in Queries : q # c /\ q \in Calls
    BY DEF Calls
  <2> \A q \in Queries :
        party'[q] = party[q] /\ chain'[q] = chain[q] /\ metBy'[q] = metBy[q]
    BY <1>1 DEF BeginCreation
  <2> QED BY <1>1 DEF BeginCreation, queryVars
<1>2. ASSUME NEW q \in Queries, NEW u \in Parties, NEW k \in Chains,
             BeginQuery(q, u, k)
      PROVE  FetchersMet'
  <2>1. UNCHANGED <<source, saving, cached>> /\ asking[q] = "idle"
    BY <1>2 DEF BeginQuery
  <2>2. saving[q] = {} /\ cached[q] = {}
    BY <2>1
  <2>3. \A r \in Queries : Fetches(r)' => Fetches(r) /\ r # q
    BY <1>2, <2>1, <2>2 DEF BeginQuery, Asks
  <2>4. \A r, s \in Queries \ {q} : Met(r, s)' <=> Met(r, s)
    BY <1>2 DEF BeginQuery
  <2> QED BY <2>1, <2>2, <2>3, <2>4
<1>3. ASSUME NEW c \in Creations, CreationStep(c)
      PROVE  FetchersMet'
  <2> UNCHANGED <<queryVars, about>> /\ wallets \subseteq wallets'
    BY <1>3 DEF CreationStep, CheckChain, FindAddress, CustodianAnswers, SaveWallet,
                CreationFails
  <2> QED BY DEF queryVars, about
<1>4. ASSUME NEW q \in Queries, QueryStep(q)
      PROVE  FetchersMet'
  <2>1. CASE FindWallet(q)
    BY <2>1 DEF FindWallet, Asks, creationVars, about, WalletsNamed
  <2>2. CASE ReadAssets(q)
    BY <2>2 DEF ReadAssets, Asks, creationVars, about, AssetsOf, QueriesOf
  <2>3. CASE FetchAssets(q)
    BY <2>3 DEF FetchAssets, Asks, creationVars, about
  <2>4. CASE AssetsCreated(q)
    BY <2>4 DEF AssetsCreated, Asks, creationVars, about
  <2>5. CASE QueryFails(q)
    BY <2>5 DEF QueryFails, Asks, creationVars, about
  <2>6. CASE \E a \in Assets : SaveAsset(q, a)
    <3> UNCHANGED <<party, chain, metBy, asking, source>>
      BY <2>6 DEF SaveAsset, about
    <3>1. /\ saving[q] # {}
          /\ \A r \in Queries \ {q} : saving'[r] = saving[r] /\ cached'[r] = cached[r]
      BY <2>6 DEF SaveAsset
    <3>2. \A r \in Queries : Fetches(r)' => Fetches(r)
      BY <3>1
    <3>3. ASSUME NEW r \in Queries \ {q}, source[r] = source[q], Fetches(r)
          PROVE  Met(r, q)
      <4>1. Asking(q) /\ Asking(r)
        BY <3>1, <3>3
      <4>2. party[r] = party[q] /\ chain[r] = chain[q]
        BY <3>1, <3>3
      <4> QED BY <4>1, <4>2
    <3> QED BY <3>1, <3>2, <3>3
  <2>7. CASE \E a \in Assets : SaveFails(q, a)
    <3> UNCHANGED <<party, chain, metBy, source>>
      BY <2>7 DEF SaveFails, about
    <3>1. saving[q] # {} /\ asking'[q] = "failed"
      BY <2>7 DEF SaveFails
    <3>2. \A r \in Queries \ {q} :
            asking'[r] = asking[r] /\ saving'[r] = saving[r] /\ cached'[r] = cached[r]
      BY <2>7 DEF SaveFails
    <3>3. \A r \in Queries : (Fetches(r)' => Fetches(r)) /\ (Fetches(r) => Asking(r))
      BY <3>1, <3>2
    <3>4. ASSUME NEW r \in Queries \ {q}, source[r] = source[q], Fetches(r)
          PROVE  Met(r, q)
      <4>1. Asking(q) /\ Asking(r)
        BY <3>1, <3>3, <3>4
      <4>2. party[r] = party[q] /\ chain[r] = chain[q]
        BY <3>1, <3>4
      <4> QED BY <4>1, <4>2
    <3> QED BY <3>1, <3>2, <3>3, <3>4
  <2> QED BY <1>4, <2>1, <2>2, <2>3, <2>4, <2>5, <2>6, <2>7 DEF QueryStep
<1>5. CASE ChainsCrash
  BY <1>5 DEF ChainsCrash, about
<1>6. CASE UNCHANGED chainVars
  BY <1>6 DEF chainVars
<1> QED BY <1>1, <1>2, <1>3, <1>4, <1>5, <1>6 DEF ChainsNext

\* A query stores only what it fetched.
LEMMA StorersMetKept ==
  ASSUME ChainsTypeOK, QueryShape, FetchersMet, StorersMet, [ChainsNext]_chainVars
  PROVE  StorersMet'
<1> USE ChainsAssumption DEF ChainsTypeOK, Resting, QueryShape, FetchersMet, StorersMet,
            Fetches, Calls, Met
<1>1. ASSUME NEW c \in Creations, NEW u \in Parties, NEW k \in Chains,
             BeginCreation(c, u, k)
      PROVE  StorersMet'
  <2> c \notin Queries /\ \A q \in Queries : q # c /\ q \in Calls
    BY DEF Calls
  <2> \A q \in Queries :
        party'[q] = party[q] /\ chain'[q] = chain[q] /\ metBy'[q] = metBy[q]
    BY <1>1 DEF BeginCreation
  <2> QED BY <1>1 DEF BeginCreation, queryVars
<1>2. ASSUME NEW q \in Queries, NEW u \in Parties, NEW k \in Chains,
             BeginQuery(q, u, k)
      PROVE  StorersMet'
  <2>1. UNCHANGED <<source, saving, cached>> /\ asking[q] = "idle"
    BY <1>2 DEF BeginQuery
  <2>2. saving[q] = {} /\ cached[q] = {}
    BY <2>1
  <2>3. \A r, s \in Queries \ {q} : Met(r, s)' <=> Met(r, s)
    BY <1>2 DEF BeginQuery
  <2> QED BY <2>1, <2>2, <2>3
<1>3. ASSUME NEW c \in Creations, CreationStep(c)
      PROVE  StorersMet'
  <2> UNCHANGED <<queryVars, about>> /\ wallets \subseteq wallets'
    BY <1>3 DEF CreationStep, CheckChain, FindAddress, CustodianAnswers, SaveWallet,
                CreationFails
  <2> QED BY DEF queryVars, about
<1>4. ASSUME NEW q \in Queries, QueryStep(q)
      PROVE  StorersMet'
  <2>1. CASE FindWallet(q)
    BY <2>1 DEF FindWallet, Asks, creationVars, about, WalletsNamed
  <2>2. CASE ReadAssets(q)
    BY <2>2 DEF ReadAssets, Asks, creationVars, about
  <2>3. CASE FetchAssets(q)
    BY <2>3 DEF FetchAssets, Asks, creationVars, about
  <2>4. CASE AssetsCreated(q)
    BY <2>4 DEF AssetsCreated, Asks, creationVars, about
  <2>5. CASE QueryFails(q)
    BY <2>5 DEF QueryFails, Asks, creationVars, about
  <2>6. CASE \E a \in Assets : SaveAsset(q, a)
    <3> UNCHANGED <<metBy, source>>
      BY <2>6 DEF SaveAsset, about
    <3>1. Fetches(q) /\ \A r \in Queries \ {q} : cached'[r] = cached[r]
      BY <2>6 DEF SaveAsset
    <3>2. \A r \in Queries \ {q} :
            source[r] = source[q] /\ cached[r] # {} => Met(q, r) /\ Met(r, q)
      BY <3>1
    <3> QED BY <3>1, <3>2
  <2>7. CASE \E a \in Assets : SaveFails(q, a)
    <3> UNCHANGED <<metBy, source>>
      BY <2>7 DEF SaveFails, about
    <3>1. Fetches(q) /\ \A r \in Queries \ {q} : cached'[r] = cached[r]
      BY <2>7 DEF SaveFails
    <3>2. \A r \in Queries \ {q} :
            source[r] = source[q] /\ cached[r] # {} => Met(q, r) /\ Met(r, q)
      BY <3>1
    <3> QED BY <3>1, <3>2
  <2> QED BY <1>4, <2>1, <2>2, <2>3, <2>4, <2>5, <2>6, <2>7 DEF QueryStep
<1>5. CASE ChainsCrash
  BY <1>5 DEF ChainsCrash, about
<1>6. CASE UNCHANGED chainVars
  BY <1>6 DEF chainVars
<1> QED BY <1>1, <1>2, <1>3, <1>4, <1>5, <1>6 DEF ChainsNext

\* An answer taken from the stored assets is the list of the one query that stored them.
LEMMA AnswersKept ==
  ASSUME ChainsTypeOK, QueryShape, QueriesMet, Answers, [ChainsNext]_chainVars
  PROVE  Answers'
<1> USE ChainsAssumption DEF ChainsTypeOK, Resting, QueryShape, Answers, QueriesOf,
            Calls, Met
<1>1. ASSUME NEW c \in Creations, NEW u \in Parties, NEW k \in Chains,
             BeginCreation(c, u, k)
      PROVE  Answers'
  <2> c \notin Queries /\ \A q \in Queries : q # c /\ q \in Calls
    BY DEF Calls
  <2> \A q \in Queries :
        party'[q] = party[q] /\ chain'[q] = chain[q] /\ metBy'[q] = metBy[q]
    BY <1>1 DEF BeginCreation
  <2> QED BY <1>1 DEF BeginCreation, queryVars
<1>2. ASSUME NEW q \in Queries, NEW u \in Parties, NEW k \in Chains,
             BeginQuery(q, u, k)
      PROVE  Answers'
  BY <1>2 DEF BeginQuery, Asks, creationVars
<1>3. ASSUME NEW c \in Creations, CreationStep(c)
      PROVE  Answers'
  <2> UNCHANGED <<queryVars, about>> /\ wallets \subseteq wallets'
    BY <1>3 DEF CreationStep, CheckChain, FindAddress, CustodianAnswers, SaveWallet,
                CreationFails
  <2> QED BY DEF queryVars, about
<1>4. ASSUME NEW q \in Queries, QueryStep(q)
      PROVE  Answers'
  <2>1. CASE FindWallet(q)
    <3> UNCHANGED <<listed, answer, spoiled, metBy>>
      BY <2>1 DEF FindWallet, about
    <3>1. asking[q] = "find" /\ source[q] = None
      BY <2>1 DEF FindWallet
    <3>2. \A r \in Queries \ {q} : source'[r] = source[r] /\ asking'[r] = asking[r]
      BY <2>1 DEF FindWallet, Asks
    <3>3. asking'[q] # "done"
      BY <2>1 DEF FindWallet, Asks
    <3>4. ASSUME NEW p \in Queries, asking'[p] = "done"
          PROVE  \/ \E r \in QueriesOf(source[p])' :
                      /\ asking'[r] \notin {"idle", "find", "assets", "fetch"}
                      /\ answer'[p] = listed'[r]
                 \/ \E r \in QueriesOf(source[p])' : r \in spoiled'
                 \/ \E r, s \in QueriesOf(source[p])' : Met(r, s)'
      <4>1. p # q /\ asking[p] = "done" /\ source[p] # None /\ source'[p] = source[p]
        BY <3>2, <3>3, <3>4
      <4>2. \A r \in QueriesOf(source[p]) :
              r \in QueriesOf(source[p])' /\ r # q /\ asking'[r] = asking[r]
        BY <3>1, <3>2, <4>1
      <4>3. \/ \E r \in QueriesOf(source[p]) :
                  /\ asking[r] \notin {"idle", "find", "assets", "fetch"}
                  /\ answer[p] = listed[r]
            \/ \E r \in QueriesOf(source[p]) : r \in spoiled
            \/ \E r, s \in QueriesOf(source[p]) : Met(r, s)
        BY <4>1
      <4>4. \A r, s \in Queries : Met(r, s) => Met(r, s)'
        OBVIOUS
      <4> HIDE DEF Answers, Met
      <4> QED BY <4>2, <4>3, <4>4
    <3> QED BY <3>4
  <2>2. CASE ReadAssets(q)
    <3> DEFINE w == source[q]
    <3> UNCHANGED <<source, listed, saving, cached, spoiled, metBy>>
      BY <2>2 DEF ReadAssets, about
    <3>1. asking[q] = "assets" /\ q \in QueriesOf(w) /\ q \in Queries
      BY <2>2 DEF ReadAssets, QueriesOf
    <3>2. CASE AssetsOf(w) = {}
      BY <2>2, <3>1, <3>2 DEF ReadAssets, Asks, QueriesOf
    <3>3. CASE AssetsOf(w) # {}
      <4>1. /\ asking' = [asking EXCEPT ![q] = "done"]
            /\ answer' = [answer EXCEPT ![q] = AssetsOf(w)]
        BY <2>2, <3>3 DEF ReadAssets, Asks
      <4>2. ASSUME \A r \in QueriesOf(w) : r \notin spoiled,
                   \A r, s \in QueriesOf(w) : ~Met(r, s)
            PROVE  \E r \in QueriesOf(w) :
                     /\ asking[r] \notin {"idle", "find", "assets", "fetch"}
                     /\ AssetsOf(w) = listed[r]
        <5>1. PICK r \in QueriesOf(w) : cached[r] # {}
          BY <3>3 DEF AssetsOf
        <5>2. r \in Queries /\ source[r] = w
          BY DEF QueriesOf
        <5>3. \A s \in QueriesOf(w) : s # r => cached[s] = {}
          BY <4>2, <5>1, <5>2 DEF QueriesOf, QueriesMet, StorersMet
        <5>4. AssetsOf(w) = cached[r]
          BY <5>1, <5>3 DEF AssetsOf
        <5>5. asking[r] \notin {"idle", "find", "assets", "fetch"} /\ r # q
          BY <3>1, <5>1, <5>2 DEF QueryShape
        <5>6. party[r] = party[q] /\ chain[r] = chain[q]
          BY <3>1, <5>2, <5>1 DEF QueryShape
        <5>7. saving[r] = {}
          BY <3>1, <4>2, <5>2, <5>5, <5>6 DEF QueriesMet, AskersMet, Asking
        <5>8. r \notin spoiled
          BY <4>2, <5>1
        <5>9. listed[r] = cached[r] \cup saving[r]
          BY <5>2, <5>8 DEF QueryShape
        <5>10. cached[r] \cup saving[r] = cached[r]
          BY <5>7
        <5> QED BY <5>4, <5>5, <5>9, <5>10
      <4> QED BY <3>1, <4>1, <4>2 DEF QueriesOf
    <3> QED BY <3>2, <3>3
  <2>3. CASE FetchAssets(q)
    BY <2>3 DEF FetchAssets, Asks, creationVars, about
  <2>4. CASE AssetsCreated(q)
    BY <2>4 DEF AssetsCreated, Asks, creationVars, about
  <2>5. CASE QueryFails(q)
    BY <2>5 DEF QueryFails, Asks, creationVars, about
  <2>6. CASE \E a \in Assets : SaveAsset(q, a)
    BY <2>6 DEF SaveAsset, creationVars, about
  <2>7. CASE \E a \in Assets : SaveFails(q, a)
    BY <2>7 DEF SaveFails, creationVars, about
  <2> QED BY <1>4, <2>1, <2>2, <2>3, <2>4, <2>5, <2>6, <2>7 DEF QueryStep
<1>5. CASE ChainsCrash
  <2>1. /\ UNCHANGED <<metBy, source, listed, answer>> /\ spoiled \subseteq spoiled'
        /\ \A q \in Queries : asking'[q] = asking[q] \/ asking'[q] = "failed"
    BY <1>5 DEF ChainsCrash, about
  <2>2. \A q \in Queries :
          asking[q] \notin {"idle", "find", "assets", "fetch"}
            => asking'[q] \notin {"idle", "find", "assets", "fetch"}
    BY <2>1
  <2> QED BY <2>1, <2>2
<1>6. CASE UNCHANGED chainVars
  BY <1>6 DEF chainVars
<1> QED BY <1>1, <1>2, <1>3, <1>4, <1>5, <1>6 DEF ChainsNext

-----------------------------------------------------------------------------
(***************************************************************************)
(* The invariant and what follows.                                         *)
(***************************************************************************)

\* The invariant holds at the start.
LEMMA ChainsInvInit == ChainsInit => ChainsInv
<1> SUFFICES ASSUME ChainsInit PROVE ChainsInv
  OBVIOUS
<1> USE DEF ChainsInit
<1>1. ChainsTypeOK
  BY DEF ChainsTypeOK, Calls, Resting
<1>2. CreationShape /\ WalletsMet /\ AddressesMet
  BY DEF CreationShape, WalletsMet, OneWalletPerChain, AddressesMet, Holds, Runs, Resting
<1>3. QueryShape /\ QueriesMet /\ Answers
  BY DEF QueryShape, QueriesMet, AskersMet, FetchersMet, StorersMet, Answers, Asking,
         Fetches, Resting
<1> QED BY <1>1, <1>2, <1>3 DEF ChainsInv

\* Every step keeps the invariant.
LEMMA ChainsInvStep == ChainsInv /\ [ChainsNext]_chainVars => ChainsInv'
  BY TypesKept, CreationShapeKept, WalletsMetKept, AddressesMetKept, QueryShapeKept,
     AskersMetKept, FetchersMetKept, StorersMetKept, AnswersKept
     DEF ChainsInv, QueriesMet

\* The invariant holds at the start and is kept by every step.
THEOREM ChainsInvariant == ChainsSpec => []ChainsInv
  BY ChainsInvInit, ChainsInvStep, PTL DEF ChainsSpec

\* The documents and calls keep their types.
THEOREM ChainsTypeCorrect == ChainsSpec => []ChainsTypeOK
<1>1. ChainsInv => ChainsTypeOK
  BY DEF ChainsInv
<1> QED BY <1>1, ChainsInvariant, PTL

\* createWalletChain gives a user two wallets on a chain only in a race.
THEOREM SecondWalletNeedsRace == ChainsSpec => []OneWalletPerChain
<1>1. ChainsInv => OneWalletPerChain
  BY DEF ChainsInv, WalletsMet
<1> QED BY <1>1, ChainsInvariant, PTL

\* The custodian makes a second address for users, or for merchants, only in a race.
THEOREM SecondAddressNeedsRace == ChainsSpec => []OneAddressUnlessMet
<1>1. ChainsInv => OneAddressUnlessMet
  BY DEF ChainsInv, ChainsTypeOK, AddressesMet, OneAddressUnlessMet, Holds
<1> QED BY <1>1, ChainsInvariant, PTL

\* createChainBalance stores an asset of a wallet twice only in a race.
THEOREM SecondAssetNeedsRace == ChainsSpec => []AssetsOnce
<1>1. ChainsInv => AssetsOnce
  BY DEF ChainsInv, QueriesMet, StorersMet, AssetsOnce
<1> QED BY <1>1, ChainsInvariant, PTL

\* getChainAssetBalance answers the custodian's list, a lost save or a race apart.
THEOREM AnswersAreWhole == ChainsSpec => []CacheIsWhole
<1>1. ChainsInv => CacheIsWhole
  BY DEF ChainsInv, Answers, CacheIsWhole
<1> QED BY <1>1, ChainsInvariant, PTL
=============================================================================
