------------------------- MODULE MCEscrowSettlement -------------------------
(* Small instances of EscrowSettlement for TLC. *)
EXTENDS EscrowSettlement

CONSTANTS e1, e2, human, ai

\* One sale of a tipster's tip and one of a tip of the platform's own.
OfBoth == [e \in Escrows |-> IF e = e1 THEN human ELSE ai]

\* Two sales of the tipster's tip.
OfHuman == [e \in Escrows |-> human]

\* 1.05 and 10.00: ten per cent of the first is half a cent off a whole cent.
Prices == [e \in Escrows |-> IF e = e1 THEN 105 ELSE 1000]

\* The identifiers of the escrows differ in their first eight characters.
Distinct == [e \in Escrows |-> e]

\* Everybody has bank details.
AllPayable == Escrows \X {"TIPSTER_PAYOUT", "BUYER_REFUND"}

\* The tipster has bank details, the buyers do not.
TipsterPayable == Escrows \X {"TIPSTER_PAYOUT"}
=============================================================================
