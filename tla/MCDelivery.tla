------------------------------ MODULE MCDelivery ------------------------------
(* Delivery on small instances.                                              *)
EXTENDS Delivery, TLC

CONSTANTS d1, d2, w1, w2

\* the receiver of d1 does anything a peer can do, that of d2 only HTTP
AnyAnswer == [d \in Delivery |-> IF d = d1 THEN Answer ELSE Answer \ {"garbled"}]

\* every receiver accepts or refuses; a lost answer is recorded as a refusal is
OnlyHttp == [d \in Delivery |-> {"ok", "refused"}]

\* d1's receiver never speaks HTTP
NeverHttp == [d \in Delivery |-> IF d = d1 THEN {"garbled"} ELSE {"ok"}]
=============================================================================
