--------------------------- MODULE PayoutPromise ---------------------------
(***************************************************************************)
(* What sending to a bank account promises, without documents, handlers or *)
(* webhooks: a pin authorises a payment, coins are taken only for an       *)
(* authorised payment, a payout is made only for coins that were taken,    *)
(* and a payment is shown as completed only while a payout was made for it.*)
(* It promises nothing of how often: the safety the implementation adds is *)
(* in its own invariants.                                                  *)
(***************************************************************************)
CONSTANTS
  Takers,   \* whoever may take coins for a payment and then pay it out
  Orders    \* the payments

VARIABLES
  authorised,  \* the payments a pin has authorised
  debited,     \* which taker took coins, and for which payment
  paid,        \* which taker's payout was made, and for which payment
  shown        \* the payments shown as completed

promise == <<authorised, debited, paid, shown>>

PromiseInit == authorised = {} /\ debited = {} /\ paid = {} /\ shown = {}

Authorise(p) ==
  /\ authorised' = authorised \cup {p}
  /\ UNCHANGED <<debited, paid, shown>>

TakeCoins(t, p) ==
  /\ p \in authorised
  /\ \A q \in Orders : <<t, q>> \notin debited
  /\ debited' = debited \cup {<<t, p>>}
  /\ UNCHANGED <<authorised, paid, shown>>

PayOut(t, p) ==
  /\ <<t, p>> \in debited
  /\ \A u \in Takers : <<u, p>> \notin paid
  /\ paid' = paid \cup {<<t, p>>}
  /\ UNCHANGED <<authorised, debited, shown>>

Show(p) ==
  /\ \E t \in Takers : <<t, p>> \in paid
  /\ shown' = shown \cup {p}
  /\ UNCHANGED <<authorised, debited, paid>>

Hide(p) ==
  /\ shown' = shown \ {p}
  /\ UNCHANGED <<authorised, debited, paid>>

PromiseNext ==
  \E p \in Orders :
    \/ Authorise(p) \/ Show(p) \/ Hide(p)
    \/ \E t \in Takers : TakeCoins(t, p) \/ PayOut(t, p)

PromiseSpec == PromiseInit /\ [][PromiseNext]_promise
=============================================================================
