---------------------------- MODULE MCTipPurchase ----------------------------
(* Small instances of TipPurchase for TLC. *)
EXTENDS TipPurchase

CONSTANTS r1, r2, r3, ann, bob, keyA, keyB, keyC

\* One buyer who tries again.
OneBuyer == [r \in Requests |-> ann]

\* Two buyers, the first of whom calls twice.
TwoBuyers == [r \in Requests |-> IF r = r3 THEN bob ELSE ann]

\* A fresh idempotency key for each request.
FreshKeys ==
    [r \in Requests |-> CASE r = r1 -> keyA [] r = r2 -> keyB [] OTHER -> keyC]

\* All requests carry the same key.
OneKey == [r \in Requests |-> keyA]
=============================================================================
