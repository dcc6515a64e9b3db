-------------------------- MODULE EscrowSettlement --------------------------
(***************************************************************************)
(* Paying out what is held: EscrowSettlementScheduler, the cron that every *)
(* thirty minutes releases or refunds the escrows of decided tips, over    *)
(* the tables tips, purchases, escrow and payments, and the payouts it     *)
(* asks of PalmPay while its transaction is open.                          *)
(*                                                                         *)
(* Nothing keeps a tick of the cron from starting while the previous run   *)
(* is at work, so there may be several Runs.  Each escrow is settled in a  *)
(* transaction of its own at READ COMMITTED; what an open transaction has  *)
(* written is told from the record of its run, and becomes part of escrow  *)
(* and payments when it commits.                                           *)
(*                                                                         *)
(* A tip is decided once (the outcome cron only writes tips it finds       *)
(* pending).  No code gives a tip the status CANCELLED or an escrow the    *)
(* status PENDING, so neither is a value here.                             *)
(***************************************************************************)
EXTENDS Integers

CONSTANTS
    Escrows,         \* escrow rows, one for each purchase
    Tips,
    TipOf,           \* the tip of each purchase
    AiTips,          \* tips with isAi: their escrows have isAiTip
    Amount,          \* of each escrow, in cents
    Rate,            \* platformCommissionRate, in ten-thousandths
    Payable,         \* <<escrow, release type>> whose recipient has bank details
    Reference,       \* the first eight characters of each escrow's id
    Runs,            \* runs of processEscrowSettlements
    Enabled,         \* cronEnabled /\ settlementEnabled /\ active app settings
    ColumnsRequired, \* payments.orderNumber and globalPaymentMethodId NOT NULL
    MaxFaults        \* bound on crashes and failed database calls

ASSUME EscrowsAssumption ==
    /\ TipOf \in [Escrows -> Tips]
    /\ Amount \in [Escrows -> Nat]
    /\ Rate \in 0..10000

ASSUME SwitchesAssumption ==
    /\ Enabled \in BOOLEAN
    /\ ColumnsRequired \in BOOLEAN
    /\ MaxFaults \in Nat

VARIABLES
    tip,        \* status of each tip
    purchase,   \* status of each escrow's purchase
    escrow,     \* the committed escrow rows
    payments,   \* the committed payments rows of the three outgoing types
    orders,     \* payouts PalmPay has accepted
    run,        \* the cron runs: where they are and what they hold in memory
    faults

vars == <<tip, purchase, escrow, payments, orders, run, faults>>

-----------------------------------------------------------------------------
(* Rows and amounts *)

Outcomes     == {"won", "lost", "void"}
ReleaseTypes == {"PLATFORM_REVENUE", "TIPSTER_PAYOUT", "BUYER_REFUND"}

\* A decimal(10, 2) column rounds half a cent up.  (A product that is exactly
\* half a cent is a double slightly off it; see the README.)
RoundCents(tenThousandths) == (tenThousandths + 5000) \div 10000

\* Two faults for TLC to find: the platform keeps the money of any AI tip, and
\* a payment type where a release type belongs.
ReleaseKeepingLost(e, outcome) ==
    IF TipOf[e] \in AiTips THEN "PLATFORM_REVENUE"
    ELSE IF outcome = "won" THEN "TIPSTER_PAYOUT" ELSE "BUYER_REFUND"
ReleaseAsPaymentType(e, outcome) ==
    IF outcome # "won" THEN "ESCROW_REFUND"
    ELSE IF TipOf[e] \in AiTips THEN "PLATFORM_REVENUE" ELSE "TIPSTER_PAYOUT"

Release(e, outcome) ==
    IF outcome # "won" THEN "BUYER_REFUND"
    ELSE IF TipOf[e] \in AiTips THEN "PLATFORM_REVENUE" ELSE "TIPSTER_PAYOUT"

\* platformFee and tipsterEarnings of a settled escrow, rounded one by one.
Fee(e, type) ==
    CASE type = "PLATFORM_REVENUE" -> Amount[e]
      [] type = "TIPSTER_PAYOUT"   -> RoundCents(Amount[e] * Rate)
      [] OTHER                     -> 0
Earnings(e, type) ==
    IF type = "TIPSTER_PAYOUT" THEN RoundCents(Amount[e] * (10000 - Rate)) ELSE 0

\* "none" is the status of a row that is not in the table.
NoEscrow == [status |-> "none", type |-> "none", fee |-> 0, earnings |-> 0]
Held     == [NoEscrow EXCEPT !.status = "HELD"]
Settled(e, type) ==
    [status   |-> IF type = "BUYER_REFUND" THEN "REFUNDED" ELSE "RELEASED",
     type     |-> type,
     fee      |-> Fee(e, type),
     earnings |-> Earnings(e, type)]

DueAmount(e, type) ==
    IF type = "TIPSTER_PAYOUT" THEN Earnings(e, type) ELSE Amount[e]

\* A payments row, named by the run that inserts it.  The three payment types
\* go with the three release types; "txn" says that providerTransactionId is set.
Payment(e, r, type) ==
    [escrow |-> e, by |-> r, type |-> type, txn |-> FALSE,
     amount |-> DueAmount(e, type)]

\* A fault for TLC to find: a reference that is new for each run.
FreshReference(e, r, type) == <<type, Reference[e], r>>

\* paymentReference, the order id of the payout.  It depends on the escrow only,
\* so that PalmPay can tell a repetition.
PaymentReference(e, r, type) == <<type, Reference[e]>>

-----------------------------------------------------------------------------
(* The rest of the system *)

\* EscrowService.createEscrowForPurchase, once for each purchase.
CreateEscrow(e) ==
    /\ escrow[e] = NoEscrow
    /\ purchase[e] = "COMPLETED"
    /\ escrow' = [escrow EXCEPT ![e] = Held]
    /\ UNCHANGED <<tip, purchase, payments, orders, run, faults>>

\* TipOutcomeDeterminationScheduler decides a pending tip.
Decide(t) ==
    /\ tip[t] = "pending"
    /\ \E outcome \in Outcomes : tip' = [tip EXCEPT ![t] = outcome]
    /\ UNCHANGED <<purchase, escrow, payments, orders, run, faults>>

\* A later notification of PalmPay gives a completed purchase another status,
\* or completes it again.
Renotify(e) ==
    /\ purchase' = [purchase EXCEPT ![e] =
                       IF @ = "COMPLETED" THEN "FAILED" ELSE "COMPLETED"]
    /\ UNCHANGED <<tip, escrow, payments, orders, run, faults>>

-----------------------------------------------------------------------------
(* processEscrowSettlements *)

NoRun == [pc |-> "idle", todo |-> {}, draft |-> {}]

\* A fault for TLC to find: a refund does not count as settled.
ReleasedOnly(e) == escrow[e].status = "RELEASED"

\* The rows a settlement leaves alone.
AlreadySettled(e) == escrow[e].status \in {"RELEASED", "REFUNDED"}

\* What the list of a run selects.
Ready(e) ==
    /\ escrow[e].status # "none"
    /\ ~AlreadySettled(e)
    /\ purchase[e] = "COMPLETED"
    /\ tip[TipOf[e]] # "pending"

\* A run that selects nothing ends at once.
Start(r) ==
    /\ Enabled
    /\ run[r].pc = "idle"
    /\ \E e \in Escrows : Ready(e)
    /\ run' = [run EXCEPT ![r].pc = "next",
                          ![r].todo = {e \in Escrows : Ready(e)}]
    /\ UNCHANGED <<tip, purchase, escrow, payments, orders, faults>>

-----------------------------------------------------------------------------
(* settleEscrow *)

\* "draft" is the payments row of the settlement a run is at, if it is at one:
\* its escrow and its type say what becomes of the escrow row.
Open == {"insert", "payout", "save", "commit"}

\* The settlement ends; the loop goes on with the next escrow of the list.
Leave(r) ==
    run' = [run EXCEPT ![r].pc = IF run[r].todo = {} THEN "idle" ELSE "next",
                       ![r].draft = {}]

To(r, step) == run' = [run EXCEPT ![r].pc = step]

\* A fault for TLC to find: a void tip has no branch.
RefreshWithoutVoid(r) ==
    /\ run[r].pc = "next"
    /\ \E e \in run[r].todo :
         /\ tip[TipOf[e]] \in {"won", "lost"}
         /\ ~AlreadySettled(e)
         /\ run' = [run EXCEPT
                       ![r].pc = "insert",
                       ![r].todo = @ \ {e},
                       ![r].draft = {Payment(e, r, Release(e, tip[TipOf[e]]))}]
    /\ UNCHANGED <<tip, purchase, escrow, payments, orders, faults>>

\* The escrow is read again, with its tip and the recipients, and the branch is
\* chosen.  The status of the purchase is not looked at again.
Refresh(r) ==
    /\ run[r].pc = "next"
    /\ \E e \in run[r].todo :
         /\ tip[TipOf[e]] # "pending"
         /\ ~AlreadySettled(e)
         /\ run' = [run EXCEPT
                       ![r].pc = "insert",
                       ![r].todo = @ \ {e},
                       ![r].draft = {Payment(e, r, Release(e, tip[TipOf[e]]))}]
    /\ UNCHANGED <<tip, purchase, escrow, payments, orders, faults>>

\* Another run has settled the escrow since the list was read.
Skip(r) ==
    /\ run[r].pc = "next"
    /\ \E e \in run[r].todo :
         /\ AlreadySettled(e)
         /\ LET rest == run[r].todo \ {e} IN
            run' = [run EXCEPT ![r].pc = IF rest = {} THEN "idle" ELSE "next",
                               ![r].todo = rest]
    /\ UNCHANGED <<tip, purchase, escrow, payments, orders, faults>>

\* The payments row is inserted in the open transaction.  It references the
\* escrow row, which does not conflict with an update of its other columns.  It
\* has neither an orderNumber nor a globalPaymentMethodId: where the columns are
\* NOT NULL the insert fails and the settlement is rolled back.
Insert(r) ==
    /\ run[r].pc = "insert"
    /\ IF ColumnsRequired THEN Leave(r)
       ELSE \E p \in run[r].draft :
              To(r, IF <<p.escrow, p.type>> \in Payable THEN "payout" ELSE "save")
    /\ UNCHANGED <<tip, purchase, escrow, payments, orders, faults>>

\* initiatePayout over HTTP, the transaction still open.  PalmPay takes an order
\* id once.
OrderOf(p) == [id |-> PaymentReference(p.escrow, p.by, p.type), escrow |-> p.escrow]
Taken(p)   == \E o \in orders : o.id = OrderOf(p).id

\* The order is accepted and its number saved in the payments row.
PayoutAccepted(r) ==
    /\ run[r].pc = "payout"
    /\ \E p \in run[r].draft :
         /\ ~Taken(p)
         /\ orders' = orders \cup {OrderOf(p)}
         /\ run' = [run EXCEPT ![r].pc = "save",
                               ![r].draft = {[p EXCEPT !.txn = TRUE]}]
    /\ UNCHANGED <<tip, purchase, escrow, payments, faults>>

\* The order is accepted but the answer is lost: initiatePayout reports a failure.
PayoutUnanswered(r) ==
    /\ run[r].pc = "payout"
    /\ \E p \in run[r].draft :
         /\ ~Taken(p)
         /\ orders' = orders \cup {OrderOf(p)}
    /\ To(r, "save")
    /\ UNCHANGED <<tip, purchase, escrow, payments, faults>>

\* PalmPay refuses the order, or the request never reaches it; a failure is
\* logged and the settlement goes on.
PayoutRefused(r) ==
    /\ run[r].pc = "payout"
    /\ To(r, "save")
    /\ UNCHANGED <<tip, purchase, escrow, payments, orders, faults>>

\* The escrow row is updated, whatever it holds by now, once no other open
\* transaction has updated it.
SaveEscrow(r) ==
    /\ run[r].pc = "save"
    /\ \A s \in Runs, p \in run[r].draft :
         run[s].pc = "commit" => \A q \in run[s].draft : q.escrow # p.escrow
    /\ To(r, "commit")
    /\ UNCHANGED <<tip, purchase, escrow, payments, orders, faults>>

Commit(r) ==
    /\ run[r].pc = "commit"
    /\ payments' = payments \cup run[r].draft
    /\ escrow' = [e \in Escrows |->
                    IF \E p \in run[r].draft : p.escrow = e
                    THEN Settled(e, (CHOOSE p \in run[r].draft : TRUE).type)
                    ELSE escrow[e]]
    /\ Leave(r)
    /\ UNCHANGED <<tip, purchase, orders, faults>>

\* A fault for TLC to find: the row survives the rollback, as if it had been
\* inserted outside the transaction.
AbortKeepingRow(r) ==
    /\ run[r].pc \in {"save", "commit"}
    /\ faults < MaxFaults
    /\ faults' = faults + 1
    /\ payments' = payments \cup run[r].draft
    /\ Leave(r)
    /\ UNCHANGED <<tip, purchase, escrow, orders>>

\* A call of the database fails: the transaction is rolled back, the error
\* counted, and the loop goes on.
Abort(r) ==
    /\ run[r].pc \in Open \ {"payout"}
    /\ faults < MaxFaults
    /\ faults' = faults + 1
    /\ Leave(r)
    /\ UNCHANGED <<tip, purchase, escrow, payments, orders>>

\* The process stops: the runs are gone and their transactions rolled back.
Crash ==
    /\ \E r \in Runs : run[r].pc # "idle"
    /\ faults < MaxFaults
    /\ faults' = faults + 1
    /\ run' = [r \in Runs |-> NoRun]
    /\ UNCHANGED <<tip, purchase, escrow, payments, orders>>

-----------------------------------------------------------------------------
(* Specification *)

Init ==
    /\ tip = [t \in Tips |-> "pending"]
    /\ purchase = [e \in Escrows |-> "COMPLETED"]
    /\ escrow = [e \in Escrows |-> NoEscrow]
    /\ payments = {}
    /\ orders = {}
    /\ run = [r \in Runs |-> NoRun]
    /\ faults = 0

\* What a run does when nothing goes wrong around it.
Advance(r) ==
    \/ Start(r) \/ Refresh(r) \/ Skip(r)
    \/ Insert(r)
    \/ PayoutAccepted(r) \/ PayoutUnanswered(r) \/ PayoutRefused(r)
    \/ SaveEscrow(r) \/ Commit(r)

Next ==
    \/ \E e \in Escrows : CreateEscrow(e) \/ Renotify(e)
    \/ \E t \in Tips : Decide(t)
    \/ \E r \in Runs : Advance(r) \/ Abort(r)
    \/ Crash

Spec == Init /\ [][Next]_vars

\* The cron ticks again and again, and a started run comes to its end.
FairSpec == Spec /\ \A r \in Runs : WF_vars(Advance(r))

-----------------------------------------------------------------------------
(* Properties *)

Rows == [escrow : Escrows, by : Runs, type : ReleaseTypes, txn : BOOLEAN,
         amount : Nat]

TypeOK ==
    /\ tip \in [Tips -> Outcomes \cup {"pending"}]
    /\ purchase \in [Escrows -> {"COMPLETED", "FAILED"}]
    /\ escrow \in [Escrows ->
           [status : {"none", "HELD", "RELEASED", "REFUNDED"},
            type : ReleaseTypes \cup {"none"}, fee : Nat, earnings : Nat]]
    /\ payments \subseteq Rows
    /\ orders \subseteq [id : ReleaseTypes \X {Reference[e] : e \in Escrows},
                         escrow : Escrows]
    /\ run \in [Runs -> [pc : Open \cup {"idle", "next"},
                         todo : SUBSET Escrows, draft : SUBSET Rows]]
    /\ faults \in 0..MaxFaults

RowsOf(e) == {p \in payments : p.escrow = e}

\* Whatever crashes, lost answers, failed calls and overlapping runs there are,
\* PalmPay is made to pay out one escrow at most once: the order ids of a
\* repeated settlement are those of the first one
\* (escrow-settlement.scheduler.ts:315 and 407).
OneTransfer ==
    \A e \in Escrows : \A o, q \in {x \in orders : x.escrow = e} : o = q

\* One settlement books one payment: two rows for one escrow, or a second one
\* about to be committed, would be two payouts owed.  "Check if already settled" is what keeps them apart
\* (escrow-settlement.scheduler.ts:217).
OneRow ==
    \A e \in Escrows :
        /\ \A p, q \in RowsOf(e) : p = q
        /\ \A r \in Runs : \A p \in run[r].draft :
              p.escrow = e /\ run[r].pc = "commit" => RowsOf(e) = {}

\* What the comments of settleEscrow promise for an outcome: "platform keeps all
\* funds", "split between platform and tipster", "refund to buyer".
Owed(e, outcome) ==
    CASE outcome = "won" /\ TipOf[e] \in AiTips ->
             [type |-> "PLATFORM_REVENUE", amount |-> Amount[e]]
      [] outcome = "won" /\ TipOf[e] \notin AiTips ->
             [type |-> "TIPSTER_PAYOUT", amount |-> Earnings(e, "TIPSTER_PAYOUT")]
      [] OTHER ->
             [type |-> "BUYER_REFUND", amount |-> Amount[e]]

\* The books agree: an escrow is settled exactly if there is a payment for it,
\* and both are what the outcome of its tip calls for
\* (escrow-settlement.scheduler.ts:253-476).
BooksAgree ==
    \A e \in Escrows :
        /\ AlreadySettled(e) <=> RowsOf(e) # {}
        /\ \A p \in RowsOf(e) :
             /\ tip[TipOf[e]] # "pending"
             /\ p.type = Owed(e, tip[TipOf[e]]).type
             /\ p.amount = Owed(e, tip[TipOf[e]]).amount
             /\ escrow[e] = Settled(e, p.type)

\* Under the schema of the migrations the insert is rejected before PalmPay is
\* called: a settlement that cannot be booked moves no money and leaves the
\* escrow held (create-payments-table-with-polymorphic-relationships.sql:45).
FailsSafe ==
    ColumnsRequired =>
        /\ orders = {}
        /\ payments = {}
        /\ \A e \in Escrows : escrow[e] \in {NoEscrow, Held}

\* An escrow whose purchase stays completed and whose tip is decided does not
\* stay held: crashes and failed calls only put it off to a later run
\* (escrow-settlement.scheduler.ts:76).
EventuallySettled == \A e \in Escrows : <>[](Ready(e) \/ AlreadySettled(e)) => <>AlreadySettled(e)

\* A payment to a recipient with bank details that was not handed to PalmPay
\* "will be retried later" (escrow-settlement.scheduler.ts:359).
PendingRetried ==
    \A e \in Escrows :
        (\E p \in RowsOf(e) : <<e, p.type>> \in Payable /\ ~p.txn)
            ~> (\E p \in RowsOf(e) : p.txn)

\* The amount in escrow is "split between platform and tipster", no cent more
\* and no cent less (escrow-settlement.scheduler.ts:288).
SplitExact ==
    \A e \in Escrows :
        escrow[e].status = "RELEASED" =>
            escrow[e].fee + escrow[e].earnings = Amount[e]

\* What is settled is paid for: "Purchase is COMPLETED"
\* (escrow-settlement.scheduler.ts:97).
SettlesCompleted ==
    [][\A e \in Escrows :
         escrow[e].status = "HELD" /\ escrow'[e].status # "HELD"
             => purchase[e] = "COMPLETED"]_vars

-----------------------------------------------------------------------------
(* The ledger *)

Due == [e \in Escrows |-> [o \in Outcomes |-> Owed(e, o)]]

LedgerState ==
    [e \in Escrows |->
        IF AlreadySettled(e) THEN escrow[e].type ELSE escrow[e].status]

Booking(p) ==
    [escrow |-> p.escrow, by |-> p.by, type |-> p.type, amount |-> p.amount]

Ledger == INSTANCE EscrowLedger WITH
    Bookers <- Runs,
    state <- LedgerState,
    book <- {Booking(p) : p \in payments}

\* A single run at a time implements the ledger.
LedgerSpec == Ledger!Spec
=============================================================================
