----------------------------- MODULE TipPurchase -----------------------------
(***************************************************************************)
(* Selling one published tip: TipsService.purchaseTip (the checkout), the  *)
(* PalmPay gateway and its mobile-money webhook, the two payment crons and *)
(* EscrowService, over the tables purchases, payments and escrow.          *)
(*                                                                         *)
(* A call of purchaseTip is a member of Requests.  The purchase row it     *)
(* inserts, the payment row it inserts and the order it opens at PalmPay   *)
(* all carry the identity of the call, so they are named by the request.   *)
(*                                                                         *)
(* The database is PostgreSQL at READ COMMITTED.  "purchase" and "payment" *)
(* hold the committed rows; what an open transaction has written is told   *)
(* from the program counter of its owner.  An action blocked by a row lock *)
(* or by an uncommitted unique key is disabled until the owner ends.       *)
(***************************************************************************)
EXTENDS Integers, FiniteSets

CONSTANTS
    Requests,       \* calls of purchaseTip for the tip
    Buyers,         \* users that buy it
    Owner,          \* the buyer of each request: (tip, buyer) is a unique key
    Refs,           \* order numbers, "TIP-<idempotency key>"
    Ref,            \* the order number of each request: a unique key of payments
    Deliveries,     \* webhook calls PalmPay makes, duplicates included
    Checker,        \* checkPendingPayments
    Cleaner,        \* cleanupOldPendingPayments
    CheckEnabled,   \* cronEnabled /\ checkEnabled
    CleanupEnabled, \* cronEnabled /\ cleanupEnabled
    MaxCrashes      \* bound on process restarts

ASSUME RequestsAssumption ==
    /\ Requests # {}
    /\ Owner \in [Requests -> Buyers]
    /\ Ref \in [Requests -> Refs]

ASSUME ProcsAssumption ==
    /\ Checker # Cleaner
    /\ Checker \notin Deliveries
    /\ Cleaner \notin Deliveries

ASSUME SwitchesAssumption ==
    /\ CheckEnabled \in BOOLEAN
    /\ CleanupEnabled \in BOOLEAN
    /\ MaxCrashes \in Nat

VARIABLES
    purchase,   \* status of the committed purchases row of each request
    payment,    \* the committed payments row of each request
    escrow,     \* number of escrow rows of each purchase
    order,      \* status code of the order at PalmPay
    age,        \* of the payment: under 30 minutes, in between, over 24 hours
    mails,      \* e-mails sent: kind, payment reported, purchase whose buyer gets it
    pc,         \* where each request is
    victim,     \* the FAILED purchase the request deletes, if any
    answer,     \* what the gateway answered to the request
    shown,      \* the order whose checkout URL the request returned, if any
    proc,       \* webhook handlers and crons: step, order, code, entity in memory
    listed,     \* the entities a cron run has loaded and not yet processed
    job,        \* createEscrowForPurchase, started by a handler or the checker
    crashes

db   == <<purchase, payment, escrow>>
reqs == <<pc, victim, answer, shown>>
vars == <<purchase, payment, escrow, order, age, mails, pc, victim, answer,
          shown, proc, listed, job, crashes>>

-----------------------------------------------------------------------------
(* Rows, codes and steps *)

Procs == Deliveries \cup {Checker, Cleaner}

PurchaseStatus == {"PENDING", "COMPLETED", "FAILED", "CANCELLED"}
PaymentStatus  == {"pending", "completed", "failed", "cancelled"}

\* "none" is the status of a row that is not in the table.  "txn" and "url" say
\* that providerTransactionId and checkoutUrl are non-empty, "linked" that
\* purchaseId is not NULL, "email" and "hook" are the two notification flags.
Payment == [status : PaymentStatus \cup {"none"}, txn : BOOLEAN, url : BOOLEAN,
            linked : BOOLEAN, email : BOOLEAN, hook : BOOLEAN]

NoPayment == [status |-> "none", txn |-> FALSE, url |-> FALSE,
              linked |-> FALSE, email |-> FALSE, hook |-> FALSE]

OrderCodes == 0..4
NoOrder    == -1

\* Two faults for TLC to find: code 1 taken for paid, and a status that is not
\* one of the column's enum.
MapProcessingAsPaid(c) == IF c \in {1, 2} THEN "completed" ELSE "pending"
MapToUnknownStatus(c) == IF c = 2 THEN "success" ELSE "pending"

mapPalmpayStatus(c) ==
    CASE c = 2 -> "completed" [] c = 3 -> "failed"
      [] c = 4 -> "cancelled" [] OTHER -> "pending"

\* The purchase status a webhook with code c writes (it reads the raw code).
Settles(c) == c \in {2, 3, 4}
SettledAs(c) ==
    CASE c = 2 -> "COMPLETED" [] c = 3 -> "FAILED" [] OTHER -> "CANCELLED"

\* Requests run in one transaction from the first read to the reply.
Deleted  == {"nullify", "check", "insert", "charge", "gateway", "finish"}
InTx     == Deleted \cup {"delete"}
Inserted == {"charge", "gateway", "finish"}
Charged  == {"gateway", "finish"}
RequestSteps == InTx \cup {"idle", "answered", "lost"}

ProcSteps == {"idle", "save", "locked", "commit", "notify", "mark", "hook",
              "done", "next", "refresh", "savepay", "readbuy", "savebuy",
              "escrow", "failpay", "failbuy"}

-----------------------------------------------------------------------------
(* Locks *)

\* The purchases row q is locked by a DELETE that is not committed; once the
\* foreign key has nulled purchaseId, the payments row q is locked as well.
DeleteLocks(q)  == \E r \in Requests : q \in victim[r] /\ pc[r] \in Deleted
NullifyLocks(q) ==
    /\ payment[q].linked
    /\ \E r \in Requests : q \in victim[r] /\ pc[r] \in Deleted \ {"nullify"}

HandlerLocks(q, steps) ==
    \E d \in Deliveries : proc[d].order = q /\ proc[d].pc \in steps

PaymentHeld(q) == NullifyLocks(q) \/ HandlerLocks(q, {"locked", "commit"})

\* A handler holds the purchases row once it has saved it.
PurchaseHeld(q) ==
    \/ DeleteLocks(q)
    \/ \E d \in Deliveries : /\ proc[d].order = q
                             /\ proc[d].pc = "commit"
                             /\ Settles(proc[d].code)

-----------------------------------------------------------------------------
(* Handlers and crons: a step, and the end of the work on one payment *)

Step(p, s) == proc' = [proc EXCEPT ![p].pc = s]

AnyRequest == CHOOSE r \in Requests : TRUE

Idle(s, q) == [pc |-> s, order |-> q, code |-> 0, snap |-> NoPayment]

End(p) == proc' = [proc EXCEPT ![p] =
                     Idle(IF p \in Deliveries THEN "done" ELSE "next", @.order)]

-----------------------------------------------------------------------------
(* Checkout: TipsService.purchaseTip *)

Rows == {q \in Requests : purchase[q] # "none"}
Visible(q) == payment[q].status # "none"

\* Leave the handler: its transaction is over, u is the checkout URL returned.
Reply(r, u) ==
    /\ pc' = [pc EXCEPT ![r] = "answered"]
    /\ shown' = [shown EXCEPT ![r] = u]
    /\ victim' = [victim EXCEPT ![r] = {}]
    /\ answer' = [answer EXCEPT ![r] = "none"]

Goto(r, step) ==
    /\ pc' = [pc EXCEPT ![r] = step]
    /\ UNCHANGED <<answer, shown>>

Env == <<order, age, mails, proc, listed, job, crashes>>

\* findOne({where: {id: payment.purchaseId}}): TypeORM drops a null condition,
\* so an unlinked payment finds any purchase.
PurchaseOf(q, linked) == IF linked THEN Rows \cap {q} ELSE Rows

\* The URL of the pending payment q is returned when its purchase is found.
Existing(q) ==
    IF /\ payment[q].status = "pending"
       /\ payment[q].url
       /\ PurchaseOf(q, payment[q].linked) # {}
    THEN {q} ELSE {}

\* Buyer and tip checks, then the purchase of the same buyer and tip.
ReadExisting(r) ==
    LET mine == {q \in Rows : Owner[q] = Owner[r]}
    IN  /\ pc[r] = "idle"
        /\ \/ Reply(r, {})                      \* buyer, tip or tipster refused
           \/ \E q \in mine :
                /\ purchase[q] \in {"PENDING", "COMPLETED"}
                /\ Reply(r, IF purchase[q] = "PENDING" /\ payment[q].linked
                            THEN Existing(q) ELSE {})
           \/ \E q \in mine :
                /\ purchase[q] = "FAILED"
                /\ Goto(r, "delete")
                /\ victim' = [victim EXCEPT ![r] = {q}]
           \/ /\ \A q \in mine : purchase[q] = "CANCELLED"
              /\ Goto(r, "check")
              /\ UNCHANGED victim
        /\ UNCHANGED <<db, Env>>

\* An escrow row refers to the purchase; a fault: no foreign key.
NeverReferenced(q) == FALSE
Referenced(q) == escrow[q] > 0

\* DELETE of the row by its id only: it waits for the lock, and finds the row
\* in whatever status it is by then.  An escrow row forbids it.
DeleteFailed(r) ==
    /\ pc[r] = "delete"
    /\ \A q \in victim[r] : ~PurchaseHeld(q)
    /\ \/ /\ \E q \in victim[r] : purchase[q] # "none" /\ ~Referenced(q)
          /\ Goto(r, "nullify")
          /\ UNCHANGED victim
       \/ /\ \E q \in victim[r] : purchase[q] # "none" /\ Referenced(q)
          /\ Reply(r, {})
       \/ /\ \A q \in victim[r] : purchase[q] = "none"
          /\ Goto(r, "check")
          /\ victim' = [victim EXCEPT ![r] = {}]
    /\ UNCHANGED <<db, Env>>

\* The second half of the DELETE: ON DELETE SET NULL locks the payments row.
NullifyPayments(r) ==
    /\ pc[r] = "nullify"
    /\ \A q \in victim[r] : payment[q].linked => ~HandlerLocks(q, {"locked", "commit"})
    /\ Goto(r, "check")
    /\ UNCHANGED <<victim, db, Env>>

\* The DELETE waits for the payments row of a handler that waits for the
\* purchases row: PostgreSQL aborts one of the two transactions.
ResolveDeadlock(r, d) ==
    /\ pc[r] = "nullify"
    /\ proc[d].pc = "locked" /\ proc[d].order \in victim[r]
    /\ payment[proc[d].order].linked
    /\ proc[d].snap.linked /\ Settles(proc[d].code)
    /\ \/ Reply(r, {}) /\ UNCHANGED proc
       \/ End(d) /\ UNCHANGED reqs
    /\ UNCHANGED <<db, order, age, mails, listed, job, crashes>>

\* The payments row with the order number of r, a unique key; a fault: none.
NoSameOrder(r) == {}
SameOrder(r) == {q \in Requests : Ref[q] = Ref[r] /\ Visible(q)}

\* Country and gateway checks, then the payment with the same order number,
\* read on another connection.
CheckOrderNumber(r) ==
    /\ pc[r] = "check"
    /\ \/ Reply(r, {})                          \* country or gateway refused
       \/ \E q \in SameOrder(r) :
            /\ payment[q].status \in {"pending", "completed"}
            /\ Reply(r, Existing(q))
       \/ /\ \A q \in SameOrder(r) : payment[q].status \in {"failed", "cancelled"}
          /\ Goto(r, "insert")
          /\ UNCHANGED victim
    /\ UNCHANGED <<db, Env>>

\* Rows and open transactions that compete for the unique key (tip, buyer); a
\* fault: the key is missing.
NoSlotRows(r) == {}
SlotRows(r) == {q \in Rows \ victim[r] : Owner[q] = Owner[r]}
SlotRivals(r) ==
    {q \in Requests \ {r} :
        /\ Owner[q] = Owner[r]
        /\ pc[q] \in Inserted \/ (pc[q] \in Deleted /\ victim[q] # {})}

\* On a conflict the call fails; a fault: it inserts again until it succeeds.
RetryOnConflict(r) == Goto(r, "insert") /\ UNCHANGED victim
FailOnConflict(r) == Reply(r, {})

\* INSERT purchase, PENDING.
InsertPurchase(r) ==
    /\ pc[r] = "insert"
    /\ SlotRivals(r) = {}
    /\ \/ SlotRows(r) # {} /\ FailOnConflict(r)  \* uk_purchases_tip_buyer
       \/ SlotRows(r) = {} /\ Goto(r, "charge") /\ UNCHANGED victim
    /\ UNCHANGED <<db, Env>>

\* Commit: the victim goes, its payment is unlinked, the new rows appear.
CommitRequest(r, status, row) ==
    /\ purchase' = [q \in Requests |-> IF q = r THEN status
                                       ELSE IF q \in victim[r] THEN "none"
                                       ELSE purchase[q]]
    /\ payment' = [q \in Requests |->
                    IF q = r THEN row
                    ELSE IF q \in victim[r] THEN [payment[q] EXCEPT !.linked = FALSE]
                    ELSE payment[q]]
    /\ UNCHANGED escrow

NewPayment(status, txn, url) ==
    [status |-> status, txn |-> txn, url |-> url,
     linked |-> TRUE, email |-> FALSE, hook |-> FALSE]

\* Open transactions that have inserted the order number of r; a fault: they
\* are not waited for.
NoKeyRivals(r) == {}
KeyRivals(r) == {q \in Requests \ {r} : Ref[q] = Ref[r] /\ pc[q] \in Charged}

\* INSERT payment, after the look-ups of method and gateway rows.  A rival
\* that has inserted the same order number is waited for.
InsertPayment(r) ==
    /\ pc[r] = "charge"
    /\ \/ /\ Reply(r, {})                       \* method or gateway not found
          /\ CommitRequest(r, "FAILED", NoPayment)
       \/ /\ KeyRivals(r) = {}
          /\ \/ \E q \in SameOrder(r) : Reply(r, Existing(q))  \* uk_payments_order_number
             \/ SameOrder(r) = {} /\ Goto(r, "gateway") /\ UNCHANGED victim
          /\ UNCHANGED db
    /\ UNCHANGED Env

\* What makeApiRequest makes of a request for an order: a refusal, a timeout and
\* an answer that cannot be read all fail, and PalmPay may have opened the order.
makeApiRequest ==
    {[success |-> TRUE, opened |-> TRUE], [success |-> FALSE, opened |-> TRUE],
     [success |-> FALSE, opened |-> FALSE]}

\* An answer without an order number fails the call, one without a URL does not.
initiateMobileMoneyPayment(response) ==
    IF response.success THEN {"ok", "nourl", "failed"} ELSE {"failed"}

\* The gateway call, the transaction still open.  The registry may throw;
\* PalmpayService never does: a failed call returns an empty transaction id.
CallGateway(r) ==
    /\ pc[r] = "gateway"
    /\ \/ /\ Reply(r, {})                       \* registry throws: both FAILED
          /\ CommitRequest(r, "FAILED", NewPayment("failed", FALSE, FALSE))
          /\ UNCHANGED order
       \/ /\ \E response \in makeApiRequest :
                /\ \E a \in initiateMobileMoneyPayment(response) :
                      answer' = [answer EXCEPT ![r] = a]
                /\ order' = IF response.opened THEN [order EXCEPT ![r] = 0] ELSE order
          /\ pc' = [pc EXCEPT ![r] = "finish"]
          /\ UNCHANGED <<victim, shown, db>>
    /\ UNCHANGED <<age, mails, proc, listed, job, crashes>>

\* Both rows are saved and committed PENDING whatever the answer was; without
\* a URL the caller then gets an error.
FinishRequest(r) ==
    /\ pc[r] = "finish"
    /\ CommitRequest(r, "PENDING",
                     NewPayment("pending", answer[r] # "failed", answer[r] = "ok"))
    /\ Reply(r, IF answer[r] = "ok" THEN {r} ELSE {})
    /\ UNCHANGED Env

-----------------------------------------------------------------------------
(* PalmPay and time, outside the program *)

\* An order that is open may be reported pending, paid, failed or cancelled.
AdvanceOrder(r) ==
    /\ order[r] \in {0, 1}
    /\ \E c \in OrderCodes : c > order[r] /\ order' = [order EXCEPT ![r] = c]
    /\ UNCHANGED <<db, age, mails, reqs, proc, listed, job, crashes>>

\* The notifications PalmPay may deliver, late and out of order.
Notifications(r) == IF order[r] = NoOrder THEN {} ELSE {0, order[r]}

AgePayment(r) ==
    /\ Visible(r)
    /\ \/ age[r] = "young"  /\ age' = [age EXCEPT ![r] = "middle"]
       \/ age[r] = "middle" /\ age' = [age EXCEPT ![r] = "old"]
    /\ UNCHANGED <<db, order, mails, reqs, proc, listed, job, crashes>>

-----------------------------------------------------------------------------
(* repository.save(payment) *)

\* save reloads the row and writes the columns of the entity that differ: the
\* stale columns overwrite what others wrote, unless they wrote it after the
\* reload.  A non-null purchaseId of a deleted purchase is a foreign key error.
SaveOutcomes(cur, entity) ==
    {row \in {entity, [cur EXCEPT !.status = entity.status]} :
        row.linked => cur.linked}

SaveFails(cur, entity) == entity.linked /\ ~cur.linked

-----------------------------------------------------------------------------
(* The mobile-money webhook: PalmpayService.handleWebhook *)

\* Validation, look-up by providerTransactionId, and the status written into
\* the entity.  The transition table only logs.
ReceiveWebhook(d) ==
    /\ proc[d].pc = "idle"
    /\ \E q \in Requests : \E c \in Notifications(q) :
        \/ End(d)                      \* rejected by validation
        \/ /\ Visible(q) /\ payment[q].txn
           /\ proc' = [proc EXCEPT ![d] =
                 [pc |-> "save", order |-> q, code |-> c,
                  snap |-> [payment[q] EXCEPT !.status = mapPalmpayStatus(c)]]]
    /\ UNCHANGED <<db, order, age, mails, reqs, listed, job, crashes>>

\* save(Payment) inside the transaction: the row is locked until the commit.
SaveWebhookPayment(d) ==
    LET q == proc[d].order
    IN  /\ proc[d].pc = "save"
        /\ ~PaymentHeld(q)
        /\ \/ Step(d, "locked")
           \/ SaveFails(payment[q], proc[d].snap) /\ End(d)
        /\ UNCHANGED <<db, order, age, mails, reqs, listed, job, crashes>>

\* save(Purchase); on code 2 the escrow job is queued with setImmediate, before
\* the commit.
SaveWebhookPurchase(d) ==
    LET q == proc[d].order
        saves == proc[d].snap.linked /\ Settles(proc[d].code)
    IN  /\ proc[d].pc = "locked"
        /\ \/ ~saves /\ Step(d, "commit") /\ UNCHANGED job
           \/ /\ saves /\ ~PurchaseHeld(q) /\ purchase[q] # "none"
              /\ Step(d, "commit")
              /\ job' = IF proc[d].code = 2 THEN [job EXCEPT ![d] = "check"] ELSE job
           \/ /\ saves /\ purchase[q] = "none"  \* save inserts: NOT NULL error
              /\ End(d)
              /\ UNCHANGED job
        /\ UNCHANGED <<db, order, age, mails, reqs, listed, crashes>>

CommitWebhook(d) ==
    LET q == proc[d].order
        s == proc[d].snap
    IN  /\ proc[d].pc = "commit"
        /\ \E row \in SaveOutcomes(payment[q], s) : payment' = [payment EXCEPT ![q] = row]
        /\ purchase' = IF s.linked /\ Settles(proc[d].code)
                       THEN [purchase EXCEPT ![q] = SettledAs(proc[d].code)]
                       ELSE purchase
        /\ IF s.email /\ s.hook THEN End(d) ELSE Step(d, "notify")
        /\ UNCHANGED <<escrow, order, age, mails, reqs, listed, job, crashes>>

-----------------------------------------------------------------------------
(* Notifications of a handler or of the checker, from the entity in memory *)

MailKind(c) == IF c = 2 THEN "success" ELSE "failure"

\* The purchase is looked up and the buyer gets a mail, unless the flag is set
\* or the code needs none.  A mail that cannot be sent ends a handler and lets
\* the checker go on.
SendMail(p) ==
    LET s == proc[p].snap
        q == proc[p].order
        needed == ~s.email /\ proc[p].code \in {2, 3}
    IN  /\ proc[p].pc = "notify"
        /\ \/ /\ PurchaseOf(q, s.linked) = {}
              /\ End(p) /\ UNCHANGED mails
           \/ /\ PurchaseOf(q, s.linked) # {} /\ ~needed
              /\ Step(p, "hook") /\ UNCHANGED mails
           \/ /\ needed
              /\ \E to \in PurchaseOf(q, s.linked) :
                    mails' = mails \cup {[kind |-> MailKind(proc[p].code),
                                          about |-> q, to |-> to]}
              /\ Step(p, "mark")
           \/ /\ PurchaseOf(q, s.linked) # {} /\ needed
              /\ IF p \in Deliveries THEN End(p) ELSE Step(p, "hook")
              /\ UNCHANGED mails
        /\ UNCHANGED <<db, order, age, reqs, listed, job, crashes>>

MarkMailed(p) ==
    LET q == proc[p].order
    IN  /\ proc[p].pc = "mark"
        /\ ~PaymentHeld(q)
        /\ payment' = [payment EXCEPT ![q].email = TRUE]
        /\ Step(p, "hook")
        /\ UNCHANGED <<purchase, escrow, order, age, mails, reqs, listed, job, crashes>>

\* The admin webhook, three tries, then its flag.
SendAdminWebhook(p) ==
    LET q == proc[p].order
    IN  /\ proc[p].pc = "hook"
        /\ \/ UNCHANGED payment                 \* not needed, or all tries failed
           \/ /\ proc[p].code = 2 /\ ~proc[p].snap.hook
              /\ ~PaymentHeld(q)
              /\ payment' = [payment EXCEPT ![q].hook = TRUE]
        /\ End(p)
        /\ UNCHANGED <<purchase, escrow, order, age, mails, reqs, listed, job, crashes>>

-----------------------------------------------------------------------------
(* Escrow: EscrowService.createEscrowForPurchase *)

CanHold(q) == escrow[q] = 0 /\ purchase[q] = "COMPLETED"

CheckEscrow(p) ==
    /\ job[p] = "check"
    /\ job' = [job EXCEPT ![p] = IF CanHold(proc[p].order) THEN "insert" ELSE "none"]
    /\ UNCHANGED <<db, order, age, mails, reqs, proc, listed, crashes>>

\* A fault for TLC to find: the escrow table has no unique key.
AnyEscrow(q) == TRUE

UniqueEscrow(q) == escrow[q] = 0

\* INSERT escrow: waits for a DELETE of the purchase; the unique key and the
\* foreign key may refuse it.
InsertEscrow(p) ==
    LET q == proc[p].order
    IN  /\ job[p] = "insert"
        /\ ~DeleteLocks(q)
        /\ escrow' = IF UniqueEscrow(q) /\ purchase[q] # "none"
                     THEN [escrow EXCEPT ![q] = @ + 1] ELSE escrow
        /\ job' = [job EXCEPT ![p] = "none"]
        /\ UNCHANGED <<purchase, payment, order, age, mails, reqs, proc, listed, crashes>>

-----------------------------------------------------------------------------
(* The crons: PaymentStatusScheduler *)

Crons == {Checker, Cleaner}

\* Both list pending TIP_PURCHASE payments, the checker the young ones, the
\* cleaner the old ones, and keep the entities in memory.  A fault: the cleaner
\* wants a providerTransactionId too.
DueWithId(c) ==
    {q \in Requests : /\ payment[q].status = "pending" /\ payment[q].txn
                      /\ age[q] = IF c = Checker THEN "young" ELSE "old"}
Due(c) ==
    {q \in Requests : /\ payment[q].status = "pending"
                      /\ age[q] = IF c = Checker THEN "young" ELSE "old"}

ListPending(c) ==
    /\ proc[c].pc = "idle"
    /\ IF c = Checker THEN CheckEnabled ELSE CleanupEnabled
    /\ Due(c) # {}
    /\ listed' = [listed EXCEPT ![c] =
                    [q \in Requests |-> IF q \in Due(c) THEN payment[q] ELSE NoPayment]]
    /\ Step(c, "next")
    /\ UNCHANGED <<db, order, age, mails, reqs, job, crashes>>

Todo(c) == {q \in Requests : listed[c][q].status # "none"}

\* Take q off the list, to go on at step s with the entity listed.
Drop(c, q) == listed' = [listed EXCEPT ![c][q] = NoPayment]

Take(c, q, s, code) ==
    /\ Drop(c, q)
    /\ proc' = [proc EXCEPT ![c] = [pc |-> s, order |-> q, code |-> code,
                                    snap |-> listed[c][q]]]

EndRun(c) ==
    /\ proc[c].pc = "next"
    /\ Todo(c) = {}
    /\ proc' = [proc EXCEPT ![c] = Idle("idle", AnyRequest)]
    /\ UNCHANGED <<db, order, age, mails, reqs, listed, job, crashes>>

\* PalmPay, asked for the order of a listed payment, says what has become of it.
checkPaymentStatus(q, status) ==
    listed[Checker][q].txn /\ mapPalmpayStatus(order[q]) = status

\* checkAndUpdatePaymentStatus: ask PalmPay, then complete or fail the payment.
QueryStatus ==
    /\ proc[Checker].pc = "next"
    /\ \E q \in Todo(Checker) :
        \/ Drop(Checker, q) /\ UNCHANGED proc   \* no id, no answer, or pending
        \/ checkPaymentStatus(q, "completed") /\ Take(Checker, q, "refresh", 2)
        \/ /\ \E s \in {"failed", "cancelled"} : checkPaymentStatus(q, s)
           /\ Take(Checker, q, "failpay", order[q])
    /\ UNCHANGED <<db, order, age, mails, reqs, job, crashes>>

\* The cleaner fails what is too old without asking PalmPay.
ExpirePayment ==
    /\ proc[Cleaner].pc = "next"
    /\ \E q \in Todo(Cleaner) : Take(Cleaner, q, "failpay", 3)
    /\ UNCHANGED <<db, order, age, mails, reqs, job, crashes>>

\* markPaymentAsFailed, the payment: the stale entity of the list is saved.
FailPayment(c) ==
    LET q == proc[c].order
        s == [proc[c].snap EXCEPT !.status = "failed"]
    IN  /\ proc[c].pc = "failpay"
        /\ ~PaymentHeld(q)
        /\ \/ /\ \E row \in SaveOutcomes(payment[q], s) :
                    payment' = [payment EXCEPT ![q] = row]
              /\ IF s.linked THEN Step(c, "failbuy") ELSE End(c)
           \/ /\ SaveFails(payment[q], s)
              /\ End(c) /\ UNCHANGED payment
        /\ UNCHANGED <<purchase, escrow, order, age, mails, reqs, listed, job, crashes>>

\* markPaymentAsFailed, the purchase.
FailPurchase(c) ==
    LET q == proc[c].order
    IN  /\ proc[c].pc = "failbuy"
        /\ ~PurchaseHeld(q)
        /\ purchase' = IF purchase[q] = "none" THEN purchase
                       ELSE [purchase EXCEPT ![q] = "FAILED"]
        /\ End(c)
        /\ UNCHANGED <<payment, escrow, order, age, mails, reqs, listed, job, crashes>>

\* updatePaymentAndPurchaseOnCompletion: reload the payment ...
RefreshPayment ==
    LET row == payment[proc[Checker].order]
    IN  /\ proc[Checker].pc = "refresh"
        /\ IF row.status = "completed" /\ row.email /\ row.hook
           THEN End(Checker)
           ELSE proc' = [proc EXCEPT ![Checker].pc = "savepay", ![Checker].snap = row]
        /\ UNCHANGED <<db, order, age, mails, reqs, listed, job, crashes>>

\* ... save it completed, unless it was ...
CompletePayment ==
    LET q == proc[Checker].order
        s == proc[Checker].snap
        entity == [s EXCEPT !.status = "completed"]
        next == IF s.linked THEN "readbuy" ELSE "notify"
    IN  /\ proc[Checker].pc = "savepay"
        /\ \/ s.status = "completed" /\ Step(Checker, next) /\ UNCHANGED payment
           \/ /\ s.status # "completed"
              /\ ~PaymentHeld(q)
              /\ \/ /\ \E row \in SaveOutcomes(payment[q], entity) :
                          payment' = [payment EXCEPT ![q] = row]
                    /\ Step(Checker, next)
                 \/ /\ SaveFails(payment[q], entity)
                    /\ End(Checker) /\ UNCHANGED payment
        /\ UNCHANGED <<purchase, escrow, order, age, mails, reqs, listed, job, crashes>>

\* ... read its purchase ...
ReadPurchase ==
    LET q == proc[Checker].order
    IN  /\ proc[Checker].pc = "readbuy"
        /\ Step(Checker, IF purchase[q] \in {"none", "COMPLETED"} THEN "notify" ELSE "savebuy")
        /\ UNCHANGED <<db, order, age, mails, reqs, listed, job, crashes>>

\* ... save it COMPLETED, unless it was or has gone meanwhile (save inserts: NOT
\* NULL error), start the escrow ...
CompletePurchase ==
    LET q == proc[Checker].order
    IN  /\ proc[Checker].pc = "savebuy"
        /\ ~PurchaseHeld(q)
        /\ \/ purchase[q] = "none" /\ End(Checker) /\ UNCHANGED <<purchase, job>>
           \/ /\ purchase[q] # "none"
              /\ purchase' = [purchase EXCEPT ![q] = "COMPLETED"]
              /\ job' = [job EXCEPT ![Checker] = "check"]
              /\ Step(Checker, "escrow")
        /\ UNCHANGED <<payment, escrow, order, age, mails, reqs, listed, crashes>>

\* ... and wait for it before the notifications.
AwaitEscrow ==
    /\ proc[Checker].pc = "escrow"
    /\ job[Checker] = "none"
    /\ Step(Checker, "notify")
    /\ UNCHANGED <<db, order, age, mails, reqs, listed, job, crashes>>

-----------------------------------------------------------------------------
(* The process dies: open transactions roll back, memory is lost *)

Crash ==
    /\ crashes < MaxCrashes
    /\ crashes' = crashes + 1
    /\ pc' = [r \in Requests |-> IF pc[r] \in InTx THEN "lost" ELSE pc[r]]
    /\ victim' = [r \in Requests |-> {}]
    /\ answer' = [r \in Requests |-> "none"]
    /\ proc' = [p \in Procs |->
                 Idle(IF p \in Deliveries /\ proc[p].pc # "idle"
                      THEN "done" ELSE "idle", AnyRequest)]
    /\ listed' = [c \in Crons |-> [q \in Requests |-> NoPayment]]
    /\ job' = [p \in Procs |-> "none"]
    /\ UNCHANGED <<db, order, age, mails, shown>>

\* Nobody is in the middle of anything.
Quiet ==
    /\ \A r \in Requests : pc[r] \notin InTx
    /\ \A p \in Procs : proc[p].pc \in {"idle", "done"} /\ job[p] = "none"

\* The system may rest; a state in which a process is stuck is a deadlock.
Resting == Quiet /\ UNCHANGED vars

-----------------------------------------------------------------------------
Init ==
    /\ purchase = [r \in Requests |-> "none"]
    /\ payment = [r \in Requests |-> NoPayment]
    /\ escrow = [r \in Requests |-> 0]
    /\ order = [r \in Requests |-> NoOrder]
    /\ age = [r \in Requests |-> "young"]
    /\ mails = {}
    /\ pc = [r \in Requests |-> "idle"]
    /\ victim = [r \in Requests |-> {}]
    /\ answer = [r \in Requests |-> "none"]
    /\ shown = [r \in Requests |-> {}]
    /\ proc = [p \in Procs |-> Idle("idle", AnyRequest)]
    /\ listed = [c \in Crons |-> [q \in Requests |-> NoPayment]]
    /\ job = [p \in Procs |-> "none"]
    /\ crashes = 0

RequestStep(r) ==
    \/ DeleteFailed(r) \/ NullifyPayments(r) \/ CheckOrderNumber(r)
    \/ InsertPurchase(r) \/ InsertPayment(r) \/ CallGateway(r) \/ FinishRequest(r)

HandlerStep(d) ==
    \/ SaveWebhookPayment(d) \/ SaveWebhookPurchase(d) \/ CommitWebhook(d)

NotifyStep(p) == SendMail(p) \/ MarkMailed(p) \/ SendAdminWebhook(p)

CronStep(c) == EndRun(c) \/ FailPayment(c) \/ FailPurchase(c)

CheckerStep ==
    \/ QueryStatus \/ RefreshPayment \/ CompletePayment
    \/ ReadPurchase \/ CompletePurchase \/ AwaitEscrow

\* A handler or a cron run that has started goes on.
ProcStep(p) ==
    \/ p \in Deliveries /\ HandlerStep(p)
    \/ NotifyStep(p)
    \/ p \in Crons /\ CronStep(p)
    \/ p = Checker /\ CheckerStep
    \/ p = Cleaner /\ ExpirePayment

JobStep(p) == CheckEscrow(p) \/ InsertEscrow(p)

Next ==
    \/ \E r \in Requests : ReadExisting(r) \/ RequestStep(r)
    \/ \E r \in Requests, d \in Deliveries : ResolveDeadlock(r, d)
    \/ \E r \in Requests : AdvanceOrder(r) \/ AgePayment(r)
    \/ \E d \in Deliveries : ReceiveWebhook(d)
    \/ \E c \in Crons : ListPending(c)
    \/ \E p \in Procs : ProcStep(p) \/ JobStep(p)
    \/ Crash
    \/ Resting

Spec == Init /\ [][Next]_vars

\* The runtime schedules every request, handler, job and started cron run, the
\* gateway call and the locks end (HTTP timeout, deadlock detection).  Nothing
\* is assumed of buyers, of PalmPay or of its webhooks.
Scheduled ==
    /\ \A r \in Requests :
        WF_vars(RequestStep(r) \/ \E d \in Deliveries : ResolveDeadlock(r, d))
    /\ \A p \in Procs : WF_vars(ProcStep(p)) /\ WF_vars(JobStep(p))

\* @nestjs/schedule fires the daily clean-up again and again, and time passes.
CleanedUp ==
    /\ WF_vars(ListPending(Cleaner))
    /\ \A r \in Requests : WF_vars(AgePayment(r))

FairSpec == Spec /\ Scheduled /\ CleanedUp

-----------------------------------------------------------------------------
(* Properties *)

Entry == [pc : ProcSteps, order : Requests, code : OrderCodes, snap : Payment]

RowsOK ==
    /\ purchase \in [Requests -> PurchaseStatus \cup {"none"}]
    /\ payment \in [Requests -> Payment]
    /\ escrow \in [Requests -> Nat]

OutsideOK ==
    /\ order \in [Requests -> OrderCodes \cup {NoOrder}]
    /\ age \in [Requests -> {"young", "middle", "old"}]
    /\ mails \subseteq [kind : {"success", "failure"}, about : Requests, to : Requests]

RequestsOK ==
    /\ pc \in [Requests -> RequestSteps]
    /\ victim \in [Requests -> SUBSET Requests]
    /\ answer \in [Requests -> {"none", "ok", "nourl", "failed"}]
    /\ shown \in [Requests -> SUBSET Requests]

ProcsOK ==
    /\ proc \in [Procs -> Entry]
    /\ listed \in [Crons -> [Requests -> Payment]]
    /\ job \in [Procs -> {"none", "check", "insert"}]
    /\ crashes \in 0..MaxCrashes

\* Every variable holds a value of its type.
TypeOK == RowsOK /\ OutsideOK /\ RequestsOK /\ ProcsOK

Paid(q) == order[q] = 2

\* Nothing is treated as paid that PalmPay was not paid for, whatever stale
\* entity, late webhook, cron or crash intervenes: a completed payment, a
\* COMPLETED purchase, an escrow row and a success mail all have a paid order.
PaidBacked ==
    /\ \A q \in Requests :
        payment[q].status = "completed" \/ purchase[q] = "COMPLETED" \/ escrow[q] > 0
            => Paid(q)
    /\ \A m \in mails : m.kind = "success" => Paid(m.about)

\* One row per buyer and tip (uk_purchases_tip_buyer) through deletions and
\* retries, and no escrow twice for a purchase (uk_escrow_purchase), although
\* both are check-then-insert in the code.
OneSale ==
    /\ \A q, r \in Rows : Owner[q] = Owner[r] => q = r
    /\ \A q \in Requests : escrow[q] <= 1

\* Deleting a failed purchase never leaves an escrow row or a payment that
\* points to a purchase that is gone, whoever inserts or saves meanwhile.
NoOrphans ==
    \A q \in Requests : purchase[q] = "none" => escrow[q] = 0 /\ ~payment[q].linked

\* A checkout URL given to a buyer belongs to an order that PalmPay opened and
\* that the payments table knows, even if the process died; and requests with
\* one idempotency key are given one order.
ShownIsRecorded ==
    /\ \A r \in Requests : \A q \in shown[r] :
        order[q] # NoOrder /\ Visible(q) /\ payment[q].txn
    /\ \A r, s \in Requests : \A q \in shown[r], t \in shown[s] :
        Ref[q] = Ref[t] => q = t

\* While the process does not die, an idempotency key opens one order at most,
\* and every order that PalmPay has is in the payments table in the end.
OneOrderPerKey ==
    crashes = 0 =>
        /\ \A r, s \in Requests :
            order[r] # NoOrder /\ order[s] # NoOrder /\ Ref[r] = Ref[s] => r = s
        /\ \A r \in Requests :
            order[r] # NoOrder /\ pc[r] # "finish" => Visible(r)

\* Every request gets its answer, every handler and every escrow job ends,
\* although requests wait for each other's keys and for the handlers' rows
\* (calls are finitely many, so "all of them over, again and again" says so).
EveryoneFinishes ==
    []<>(/\ \A r \in Requests : pc[r] \notin InTx
         /\ \A d \in Deliveries : proc[d].pc \in {"idle", "done"}
         /\ \A p \in Procs : job[p] = "none")

\* With the clean-up on, no purchase and no payment stays pending for ever,
\* unless the process dies in between.
EventuallySettled ==
    \A q \in Requests :
        /\ payment[q].status = "pending" ~> payment[q].status # "pending"
        /\ purchase[q] = "PENDING" ~> (purchase[q] # "PENDING" \/ crashes > 0)

-----------------------------------------------------------------------------
(* What comments of the code claim *)

\* "Allow retry for failed purchases - delete the failed purchase record":
\* only a FAILED purchase is ever deleted.
DeletesOnlyFailed ==
    [][\A q \in Requests :
        purchase[q] # "none" /\ purchase'[q] = "none" => purchase[q] = "FAILED"]_vars

\* "Create escrow for completed purchase ... after the transaction commits":
\* when nothing is in progress and nothing crashed, a COMPLETED purchase has
\* its escrow.
CompletedHasEscrow ==
    Quiet /\ crashes = 0 =>
        \A q \in Requests : purchase[q] = "COMPLETED" => escrow[q] = 1

\* "Invalid status transition: cannot change payment status": a payment that is
\* completed, failed or cancelled keeps its status.
FinalStatusStays ==
    [][\A q \in Requests :
        payment[q].status \in {"completed", "failed", "cancelled"}
            => payment'[q].status = payment[q].status]_vars

\* "If payment fails, update payment and purchase status to FAILED": a checkout
\* whose gateway call failed is not left pending.
FailedCallIsFailed ==
    [][\A r \in Requests :
        answer[r] = "failed" /\ pc'[r] = "answered" => purchase'[r] = "FAILED"]_vars

\* "Mark payment as failed and update corresponding purchase status": when
\* nothing is in progress, the purchase of a failed payment is not PENDING.
FailedTogether ==
    Quiet => \A q \in Requests :
        payment[q].status = "failed" /\ payment[q].linked => purchase[q] # "PENDING"

\* "Purchase not found for payment": the notification of a payment is made from
\* its own purchase, or not at all.
NotifiesOwnPurchase == \A m \in mails : m.to = m.about
=============================================================================
