---------------------------- MODULE EscrowLedger ----------------------------
(***************************************************************************)
(* What EscrowSettlementScheduler promises: money is taken into escrow     *)
(* once, stays there until its tip is decided, and then leaves once, as    *)
(* the payment the outcome calls for, booked in the step that releases it. *)
(***************************************************************************)
CONSTANTS
    Escrows,
    Tips,
    TipOf,      \* the tip of each escrow
    Outcomes,   \* what a tip can be decided to be
    Due,        \* the type and amount of the payment, by escrow, then outcome
    Bookers     \* names for the rows of the book

VARIABLES
    tip,        \* "pending" or the outcome of each tip
    state,      \* "none", "HELD" or the type of payment that released it
    book        \* the payments that have gone out

vars == <<tip, state, book>>

Entry(e, b, due) ==
    [escrow |-> e, by |-> b, type |-> due.type, amount |-> due.amount]

Take(e) ==
    /\ state[e] = "none"
    /\ state' = [state EXCEPT ![e] = "HELD"]
    /\ UNCHANGED <<tip, book>>

Decide(t) ==
    /\ tip[t] = "pending"
    /\ \E o \in Outcomes : tip' = [tip EXCEPT ![t] = o]
    /\ UNCHANGED <<state, book>>

Release(e) ==
    /\ state[e] = "HELD"
    /\ tip[TipOf[e]] # "pending"
    /\ LET due == Due[e][tip[TipOf[e]]] IN
         /\ state' = [state EXCEPT ![e] = due.type]
         /\ \E b \in Bookers : book' = book \cup {Entry(e, b, due)}
    /\ UNCHANGED tip

Init ==
    /\ tip = [t \in Tips |-> "pending"]
    /\ state = [e \in Escrows |-> "none"]
    /\ book = {}

Next ==
    \/ \E e \in Escrows : Take(e) \/ Release(e)
    \/ \E t \in Tips : Decide(t)

Spec == Init /\ [][Next]_vars
=============================================================================
