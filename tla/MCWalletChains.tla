--------------------------- MODULE MCWalletChains ---------------------------
(***************************************************************************)
(* WalletChains, model-checked.                                            *)
(***************************************************************************)
EXTENDS WalletChains, FiniteSets, TLC

CallSymmetry ==
  Permutations(Creations) \cup Permutations(Queries) \cup Permutations(Assets)
    \cup Permutations(Supported)

Begun == {c \in Creations : creating[c] # "idle"}

\* At most two calls at work at once, and queries after at most two creations: a query
\* reads the wallets once, and no creation reads what a query writes.
TwoAtWork ==
  /\ Cardinality({c \in Creations : creating[c] \notin Resting})
       + Cardinality({q \in Queries : Asking(q)}) <= 2
  /\ (\E q \in Queries : asking[q] # "idle") =>
       Cardinality(Begun) <= 2 /\ \A c \in Begun : creating[c] \in Resting
=============================================================================
