------------------------------ MODULE MCAccount ------------------------------
(***************************************************************************)
(* Account, model-checked.                                                 *)
(***************************************************************************)
EXTENDS Account, FiniteSets, TLC

\* Requests that nothing tells apart.  The secrets and the codes are told apart: Expiring
\* holds one of each.
RequestSymmetry ==
  Permutations(PinRequests) \cup Permutations(Logins) \cup Permutations(TokenRequests)

\* At most two handlers at work at once.
TwoAtWork == Cardinality({h \in Handlers : AtWork(h)}) <= 2

\* At most one handler of a run fails, or those that a crash ends.
OneFailure == Cardinality({h \in Handlers : pc[h] = "failed"}) <= 1

\* The requests of a run are about one concern: the sessions of the accounts or, of one
\* account, its setup or, once that is through, its chains or its second factor.  Of two
\* accounts, one is registered before the other is, and both before anybody signs in.
\* Only the setup reads the message sent after a registration.
Begun(H) == \E h \in H : pc[h] # "idle"
Setup == OtpRequests \cup Verifications \cup PinRequests
SignInRequests == Logins \cup TokenRequests
Later == ChainRequests \cup MfaGets \cup MfaPosts
OneConcern ==
  /\ ~(Begun(SignInRequests) /\ Begun(Setup \cup Later))
  /\ Begun(Setup \cup Later) =>
       \A g, h \in Handlers : of[g] # None /\ of[h] # None => of[g] = of[h]
  /\ \A u, w \in Parties : of[u] # of[w] /\ AtWork(u) /\ pc[w] # "idle" =>
       pc[w] = "done" /\ ~Begun(Requests)
  /\ ~(Begun(ChainRequests) /\ Begun(MfaGets \cup MfaPosts))
  /\ Begun(Later) =>
       /\ Cardinality({h \in Setup : pc[h] # "idle"}) <= 2
       /\ \A h \in Setup : ~AtWork(h)
  /\ Begun(SignInRequests \cup Later) => \A u \in Parties : greeting[u] # "sent"
=============================================================================
