-------------------------- MODULE TipPurchaseProofs --------------------------
(***************************************************************************)
(* TipPurchase for every set of requests, deliveries and buyers, every      *)
(* assignment of keys and every number of crashes: the types are kept, and  *)
(* nothing is treated as paid that PalmPay was not paid for.                *)
(***************************************************************************)
EXTENDS TipPurchase, TLAPS

\* Some request exists, so the idle entry of a process is well formed.
LEMMA IdleType ==
    /\ AnyRequest \in Requests
    /\ NoPayment \in Payment
    /\ \A s \in ProcSteps, q \in Requests : Idle(s, q) \in Entry
<1>1. AnyRequest \in Requests
  BY RequestsAssumption DEF AnyRequest
<1>2. NoPayment \in Payment
  BY DEF NoPayment, Payment, PaymentStatus
<1> QED
  BY <1>1, <1>2 DEF Idle, Entry, OrderCodes

\* A save writes a well-formed row whose status is the entity's.
LEMMA SaveOutcomesType ==
    ASSUME NEW cur \in Payment, NEW entity \in Payment,
           NEW row \in SaveOutcomes(cur, entity)
    PROVE  row \in Payment /\ row.status = entity.status
BY DEF SaveOutcomes, Payment

\* The status PalmPay's code is mapped to is one the column allows, and only
\* code 2 is mapped to "completed".
LEMMA MapType ==
    ASSUME NEW c
    PROVE  /\ mapPalmpayStatus(c) \in PaymentStatus
           /\ mapPalmpayStatus(c) = "completed" => c = 2
BY DEF mapPalmpayStatus, PaymentStatus

\* The initial state is well typed.
LEMMA InitTypeOK == Init => TypeOK
<1> SUFFICES ASSUME Init PROVE TypeOK
  OBVIOUS
<1> USE DEF Init
<1>1. RowsOK
  BY IdleType DEF RowsOK
<1>2. OutsideOK
  BY DEF OutsideOK
<1>3. RequestsOK
  BY DEF RequestsOK, RequestSteps
<1>4. proc \in [Procs -> Entry]
  BY IdleType DEF ProcSteps
<1>5. ProcsOK
  BY <1>4, IdleType, SwitchesAssumption DEF ProcsOK
<1> QED
  BY <1>1, <1>2, <1>3, <1>5 DEF TypeOK

\* A reply and a jump keep the types of a request.
LEMMA ReplyType ==
    ASSUME RequestsOK, NEW r \in Requests, NEW u \in SUBSET Requests, Reply(r, u)
    PROVE  RequestsOK'
BY DEF RequestsOK, Reply, RequestSteps

LEMMA GotoType ==
    ASSUME RequestsOK, NEW r \in Requests, NEW s \in RequestSteps, Goto(r, s),
           victim' \in [Requests -> SUBSET Requests]
    PROVE  RequestsOK'
BY DEF RequestsOK, Goto

\* The URL of an existing payment is that payment's or nothing.
LEMMA ExistingType == \A q \in Requests : Existing(q) \in SUBSET Requests
BY DEF Existing

LEMMA NewPaymentType ==
    \A s \in PaymentStatus, t, u \in BOOLEAN : NewPayment(s, t, u) \in Payment
BY DEF NewPayment, Payment

\* The commit of a request keeps the types of the tables.
LEMMA CommitType ==
    ASSUME RowsOK, NEW r \in Requests, NEW s \in PurchaseStatus, NEW row \in Payment,
           CommitRequest(r, s, row)
    PROVE  RowsOK'
<1>1. purchase' \in [Requests -> PurchaseStatus \cup {"none"}] /\ escrow' = escrow
  BY DEF RowsOK, CommitRequest
<1>2. payment' \in [Requests -> Payment]
  <2>1. \A q \in Requests : [payment[q] EXCEPT !.linked = FALSE] \in Payment
    BY DEF RowsOK, Payment
  <2> QED
    BY <2>1 DEF RowsOK, CommitRequest
<1> QED
  BY <1>1, <1>2 DEF RowsOK

\* A step, the end of the work on a payment and a new entry keep the types of
\* the processes.
LEMMA StepType ==
    ASSUME proc \in [Procs -> Entry], NEW p \in Procs, NEW s \in ProcSteps, Step(p, s)
    PROVE  proc' \in [Procs -> Entry]
BY DEF Step, Entry

LEMMA EndType ==
    ASSUME proc \in [Procs -> Entry], NEW p \in Procs, End(p)
    PROVE  proc' \in [Procs -> Entry]
<1>1. proc[p].order \in Requests
  BY DEF Entry
<1>2. Idle(IF p \in Deliveries THEN "done" ELSE "next", proc[p].order) \in Entry
  BY <1>1, IdleType DEF ProcSteps
<1> QED
  BY <1>2 DEF End

LEMMA TakeType ==
    ASSUME proc \in [Procs -> Entry], listed \in [Crons -> [Requests -> Payment]],
           NEW c \in Crons, NEW q \in Requests, NEW s \in ProcSteps,
           NEW k \in OrderCodes, Take(c, q, s, k)
    PROVE  /\ proc' \in [Procs -> Entry]
           /\ listed' \in [Crons -> [Requests -> Payment]]
<1>1. [pc |-> s, order |-> q, code |-> k, snap |-> listed[c][q]] \in Entry
  BY DEF Entry
<1>2. listed' \in [Crons -> [Requests -> Payment]]
  BY IdleType DEF Take, Drop
<1> QED
  BY <1>1, <1>2 DEF Take

\* Overwriting one payments row by an outcome of save keeps the types.
LEMMA SaveType ==
    ASSUME RowsOK, NEW q \in Requests, NEW entity \in Payment,
           NEW row \in SaveOutcomes(payment[q], entity),
           payment' = [payment EXCEPT ![q] = row]
    PROVE  payment' \in [Requests -> Payment]
BY SaveOutcomesType DEF RowsOK

\* Each kind of step keeps the types.
LEMMA NextTypeOK == TypeOK /\ [Next]_vars => TypeOK'
<1> SUFFICES ASSUME TypeOK, [Next]_vars PROVE TypeOK'
  OBVIOUS
<1> USE DEF TypeOK
<1>a. ASSUME UNCHANGED <<purchase, payment, escrow>> PROVE RowsOK'
  BY <1>a DEF RowsOK
<1>b. ASSUME UNCHANGED <<order, age, mails>> PROVE OutsideOK'
  BY <1>b DEF OutsideOK
<1>c. ASSUME UNCHANGED <<pc, victim, answer, shown>> PROVE RequestsOK'
  BY <1>c DEF RequestsOK
<1>d. ASSUME UNCHANGED <<proc, listed, job, crashes>> PROVE ProcsOK'
  BY <1>d DEF ProcsOK
<1>e. ASSUME UNCHANGED <<purchase, escrow>>, payment' \in [Requests -> Payment] PROVE RowsOK'
  BY <1>e DEF RowsOK
<1>f. ASSUME UNCHANGED <<listed, job, crashes>>, proc' \in [Procs -> Entry] PROVE ProcsOK'
  BY <1>f DEF ProcsOK
<1>g. /\ \A p \in Procs : /\ proc[p] \in Entry /\ proc[p].order \in Requests
                          /\ proc[p].code \in OrderCodes /\ proc[p].snap \in Payment
      /\ \A q \in Requests : payment[q] \in Payment
      /\ proc \in [Procs -> Entry] /\ payment \in [Requests -> Payment]
      /\ Deliveries \subseteq Procs /\ Crons \subseteq Procs
      /\ Checker \in Crons /\ Cleaner \in Crons
  BY DEF ProcsOK, RowsOK, Entry, Procs, Crons
<1>s. InTx \cup {"idle", "answered", "lost"} = RequestSteps /\ Deleted \subseteq InTx
  BY DEF RequestSteps, InTx
<1>1. ASSUME NEW r \in Requests, ReadExisting(r) PROVE TypeOK'
  <2>1. RowsOK' /\ OutsideOK' /\ ProcsOK'
    BY <1>1, <1>a, <1>b, <1>d DEF ReadExisting, db, Env
  <2>2. RequestsOK'
    <3>1. CASE Reply(r, {})
      BY <3>1, ReplyType
    <3>2. ASSUME NEW q \in Rows, Reply(r, IF purchase[q] = "PENDING" /\ payment[q].linked
                            THEN Existing(q) ELSE {})
          PROVE  RequestsOK'
      BY <3>2, ReplyType, ExistingType DEF Rows
    <3>3. ASSUME NEW q \in Rows, Goto(r, "delete"), victim' = [victim EXCEPT ![r] = {q}]
          PROVE  RequestsOK'
      BY <3>3, GotoType DEF RequestSteps, InTx, Rows, RequestsOK
    <3>4. CASE Goto(r, "check") /\ UNCHANGED victim
      BY <3>4, GotoType DEF RequestSteps, InTx, Deleted, RequestsOK
    <3> QED
      BY <1>1, <3>1, <3>2, <3>3, <3>4 DEF ReadExisting
  <2> QED
    BY <2>1, <2>2
<1>2. ASSUME NEW r \in Requests, DeleteFailed(r) PROVE TypeOK'
  <2>1. RowsOK' /\ OutsideOK' /\ ProcsOK'
    BY <1>2, <1>a, <1>b, <1>d DEF DeleteFailed, db, Env
  <2>2. RequestsOK'
    BY <1>2, <1>s, ReplyType, GotoType DEF DeleteFailed, RequestsOK, Deleted
  <2> QED
    BY <2>1, <2>2
<1>3. ASSUME NEW r \in Requests, NullifyPayments(r) PROVE TypeOK'
  <2>1. RowsOK' /\ OutsideOK' /\ ProcsOK'
    BY <1>3, <1>a, <1>b, <1>d DEF NullifyPayments, db, Env
  <2>2. RequestsOK'
    BY <1>3, <1>s, GotoType DEF NullifyPayments, RequestsOK, Deleted
  <2> QED
    BY <2>1, <2>2
<1>4. ASSUME NEW r \in Requests, CheckOrderNumber(r) PROVE TypeOK'
  <2>1. RowsOK' /\ OutsideOK' /\ ProcsOK'
    BY <1>4, <1>a, <1>b, <1>d DEF CheckOrderNumber, db, Env
  <2>2. RequestsOK'
    <3>1. ASSUME NEW q \in SameOrder(r), Reply(r, Existing(q)) PROVE RequestsOK'
      BY <3>1, ReplyType, ExistingType DEF SameOrder
    <3>2. CASE Reply(r, {})
      BY <3>2, ReplyType
    <3>3. CASE Goto(r, "insert") /\ UNCHANGED victim
      BY <3>3, <1>s, GotoType DEF RequestsOK, Deleted
    <3> QED
      BY <1>4, <3>1, <3>2, <3>3 DEF CheckOrderNumber
  <2> QED
    BY <2>1, <2>2
<1>5. ASSUME NEW r \in Requests, InsertPurchase(r) PROVE TypeOK'
  <2>1. RowsOK' /\ OutsideOK' /\ ProcsOK'
    BY <1>5, <1>a, <1>b, <1>d DEF InsertPurchase, db, Env
  <2>2. RequestsOK'
    BY <1>5, <1>s, ReplyType, GotoType
       DEF InsertPurchase, FailOnConflict, RequestsOK, Deleted
  <2> QED
    BY <2>1, <2>2
<1>6. ASSUME NEW r \in Requests, InsertPayment(r) PROVE TypeOK'
  <2>1. OutsideOK' /\ ProcsOK'
    BY <1>6, <1>b, <1>d DEF InsertPayment, Env
  <2>2. CASE Reply(r, {}) /\ CommitRequest(r, "FAILED", NoPayment)
    BY <2>1, <2>2, IdleType, ReplyType, CommitType DEF PurchaseStatus
  <2>3. ASSUME NEW q \in SameOrder(r), Reply(r, Existing(q)), UNCHANGED db PROVE TypeOK'
    BY <2>1, <2>3, <1>a, ReplyType, ExistingType DEF SameOrder, db
  <2>4. CASE Goto(r, "gateway") /\ UNCHANGED victim /\ UNCHANGED db
    <3>1. RequestsOK'
      BY <2>4, <1>s, GotoType DEF RequestsOK, Deleted
    <3> QED
      BY <2>1, <2>4, <3>1, <1>a DEF db
  <2> QED
    BY <1>6, <2>2, <2>3, <2>4 DEF InsertPayment
<1>7. ASSUME NEW r \in Requests, CallGateway(r) PROVE TypeOK'
  <2>1. ProcsOK'
    BY <1>7, <1>d DEF CallGateway
  <2>2. CASE /\ Reply(r, {}) /\ UNCHANGED order
             /\ CommitRequest(r, "FAILED", NewPayment("failed", FALSE, FALSE))
    <3>1. RowsOK' /\ RequestsOK'
      BY <2>2, NewPaymentType, ReplyType, CommitType DEF PurchaseStatus, PaymentStatus
    <3> QED
      BY <1>7, <2>1, <2>2, <3>1, <1>b DEF CallGateway
  <2>3. ASSUME NEW a \in {"ok", "nourl", "failed"}, answer' = [answer EXCEPT ![r] = a],
               order' = [order EXCEPT ![r] = 0] \/ UNCHANGED order,
               pc' = [pc EXCEPT ![r] = "finish"], UNCHANGED <<victim, shown, db>>
        PROVE  TypeOK'
    <3>1. RowsOK' /\ RequestsOK'
      BY <2>3, <1>a, <1>s DEF db, RequestsOK, Deleted
    <3>2. OutsideOK'
      BY <1>7, <2>3 DEF OutsideOK, CallGateway, OrderCodes
    <3> QED
      BY <2>1, <3>1, <3>2
  <2> QED
    BY <1>7, <2>2, <2>3 DEF CallGateway, makeApiRequest, initiateMobileMoneyPayment
<1>8. ASSUME NEW r \in Requests, FinishRequest(r) PROVE TypeOK'
  <2>1. OutsideOK' /\ ProcsOK'
    BY <1>8, <1>b, <1>d DEF FinishRequest, Env
  <2>2. RowsOK'
    BY <1>8, NewPaymentType, CommitType DEF FinishRequest, PurchaseStatus, PaymentStatus
  <2>3. RequestsOK'
    BY <1>8, ReplyType DEF FinishRequest
  <2> QED
    BY <2>1, <2>2, <2>3
<1>9. ASSUME NEW r \in Requests, NEW d \in Deliveries, ResolveDeadlock(r, d) PROVE TypeOK'
  <2>1. RowsOK' /\ OutsideOK'
    BY <1>9, <1>a, <1>b DEF ResolveDeadlock, db
  <2>2. RequestsOK'
    BY <1>9, <1>c, ReplyType DEF ResolveDeadlock, reqs
  <2>3. ProcsOK'
    BY <1>9, <1>d, <1>f, <1>g, EndType DEF ResolveDeadlock
  <2> QED
    BY <2>1, <2>2, <2>3
<1>10. ASSUME NEW r \in Requests, AdvanceOrder(r) \/ AgePayment(r) PROVE TypeOK'
  <2>1. RowsOK' /\ RequestsOK' /\ ProcsOK'
    BY <1>10, <1>a, <1>c, <1>d DEF AdvanceOrder, AgePayment, db, reqs
  <2>2. OutsideOK'
    BY <1>10 DEF AdvanceOrder, AgePayment, OutsideOK
  <2> QED
    BY <2>1, <2>2
<1>11. ASSUME NEW d \in Deliveries, ReceiveWebhook(d) PROVE TypeOK'
  <2>1. RowsOK' /\ OutsideOK' /\ RequestsOK'
    BY <1>11, <1>a, <1>b, <1>c DEF ReceiveWebhook, db, reqs
  <2>2. ASSUME NEW q \in Requests, NEW c \in Notifications(q),
               proc' = [proc EXCEPT ![d] =
                 [pc |-> "save", order |-> q, code |-> c,
                  snap |-> [payment[q] EXCEPT !.status = mapPalmpayStatus(c)]]]
        PROVE  proc' \in [Procs -> Entry]
    <3>1. c \in OrderCodes
      BY <2>2 DEF Notifications, OutsideOK, OrderCodes
    <3>2. [payment[q] EXCEPT !.status = mapPalmpayStatus(c)] \in Payment
      BY <1>g, MapType DEF Payment
    <3> QED
      BY <2>2, <3>1, <3>2, <1>g DEF Entry, ProcSteps
  <2>3. proc' \in [Procs -> Entry]
    BY <1>11, <2>2, <1>g, EndType DEF ReceiveWebhook
  <2> QED
    BY <1>11, <2>1, <2>3, <1>f DEF ReceiveWebhook
<1>12. ASSUME NEW d \in Deliveries, HandlerStep(d) PROVE TypeOK'
  <2>1. OutsideOK' /\ RequestsOK'
    BY <1>12, <1>b, <1>c
       DEF HandlerStep, SaveWebhookPayment, SaveWebhookPurchase, CommitWebhook, db, reqs
  <2>2. CASE SaveWebhookPayment(d)
    <3>1. proc' \in [Procs -> Entry]
      BY <2>2, <1>g, StepType, EndType DEF SaveWebhookPayment, ProcSteps
    <3> QED
      BY <2>1, <2>2, <3>1, <1>a, <1>f DEF SaveWebhookPayment, db
  <2>3. CASE SaveWebhookPurchase(d)
    <3>1. proc' \in [Procs -> Entry]
      BY <2>3, <1>g, StepType, EndType DEF SaveWebhookPurchase, ProcSteps
    <3>2. ProcsOK'
      BY <2>3, <3>1, <1>g DEF SaveWebhookPurchase, ProcsOK
    <3> QED
      BY <2>1, <2>3, <3>2, <1>a DEF SaveWebhookPurchase, db
  <2>4. CASE CommitWebhook(d)
    <3>1. proc' \in [Procs -> Entry]
      BY <2>4, <1>g, StepType, EndType DEF CommitWebhook, ProcSteps
    <3>2. payment' \in [Requests -> Payment]
      BY <2>4, <1>g, SaveType DEF CommitWebhook
    <3>3. purchase' \in [Requests -> PurchaseStatus \cup {"none"}]
      BY <2>4 DEF CommitWebhook, RowsOK, SettledAs, PurchaseStatus
    <3> QED
      BY <2>1, <2>4, <3>1, <3>2, <3>3, <1>f DEF CommitWebhook, RowsOK
  <2> QED
    BY <1>12, <2>2, <2>3, <2>4 DEF HandlerStep
<1>13. ASSUME NEW p \in Procs, NotifyStep(p) PROVE TypeOK'
  <2>1. RequestsOK'
    BY <1>13, <1>c DEF NotifyStep, SendMail, MarkMailed, SendAdminWebhook, reqs
  <2>2. proc' \in [Procs -> Entry]
    BY <1>13, <1>g, StepType, EndType
       DEF NotifyStep, SendMail, MarkMailed, SendAdminWebhook, ProcSteps
  <2>3. ProcsOK'
    BY <1>13, <2>2, <1>f DEF NotifyStep, SendMail, MarkMailed, SendAdminWebhook
  <2>4. CASE SendMail(p)
    <3>1. OutsideOK'
      BY <2>4, <1>g DEF SendMail, OutsideOK, MailKind, PurchaseOf, Rows
    <3> QED
      BY <2>1, <2>3, <2>4, <3>1, <1>a DEF SendMail, db
  <2>5. CASE MarkMailed(p) \/ SendAdminWebhook(p)
    <3>1. \A row \in Payment : /\ [row EXCEPT !.email = TRUE] \in Payment
                               /\ [row EXCEPT !.hook = TRUE] \in Payment
      BY DEF Payment
    <3>2. payment' \in [Requests -> Payment]
      BY <2>5, <3>1, <1>g DEF MarkMailed, SendAdminWebhook
    <3> QED
      BY <2>1, <2>3, <2>5, <3>2, <1>b, <1>e DEF MarkMailed, SendAdminWebhook
  <2> QED
    BY <1>13, <2>4, <2>5 DEF NotifyStep
<1>14. ASSUME NEW p \in Procs, JobStep(p) PROVE TypeOK'
  <2>1. OutsideOK' /\ RequestsOK'
    BY <1>14, <1>b, <1>c DEF JobStep, CheckEscrow, InsertEscrow, db, reqs
  <2>2. ProcsOK'
    BY <1>14 DEF JobStep, CheckEscrow, InsertEscrow, ProcsOK
  <2>3. RowsOK'
    BY <1>14 DEF JobStep, CheckEscrow, InsertEscrow, RowsOK, db
  <2> QED
    BY <2>1, <2>2, <2>3
<1>15. ASSUME NEW c \in Crons, ListPending(c) PROVE TypeOK'
  <2>1. RowsOK' /\ OutsideOK' /\ RequestsOK'
    BY <1>15, <1>a, <1>b, <1>c DEF ListPending, db, reqs
  <2>2. proc' \in [Procs -> Entry]
    BY <1>15, <1>g, StepType DEF ListPending, ProcSteps
  <2>3. listed' \in [Crons -> [Requests -> Payment]]
    BY <1>15, <1>g, IdleType DEF ListPending, ProcsOK
  <2> QED
    BY <1>15, <2>1, <2>2, <2>3 DEF ListPending, ProcsOK
<1>16. ASSUME NEW c \in Crons, CronStep(c) PROVE TypeOK'
  <2>1. OutsideOK' /\ RequestsOK'
    BY <1>16, <1>b, <1>c DEF CronStep, EndRun, FailPayment, FailPurchase, db, reqs
  <2>2. CASE EndRun(c)
    <3>1. proc' \in [Procs -> Entry]
      BY <2>2, <1>g, IdleType DEF EndRun, ProcSteps
    <3> QED
      BY <2>1, <2>2, <3>1, <1>a, <1>f DEF EndRun, db
  <2>3. CASE FailPayment(c)
    <3>1. proc' \in [Procs -> Entry]
      BY <2>3, <1>g, StepType, EndType DEF FailPayment, ProcSteps
    <3>2. [proc[c].snap EXCEPT !.status = "failed"] \in Payment
      BY <1>g DEF Payment, PaymentStatus
    <3>3. payment' \in [Requests -> Payment]
      BY <2>3, <3>2, <1>g, SaveType DEF FailPayment
    <3> QED
      BY <2>1, <2>3, <3>1, <3>3, <1>e, <1>f DEF FailPayment
  <2>4. CASE FailPurchase(c)
    <3>1. proc' \in [Procs -> Entry]
      BY <2>4, <1>g, EndType DEF FailPurchase
    <3>2. RowsOK'
      BY <2>4 DEF FailPurchase, RowsOK, PurchaseStatus
    <3> QED
      BY <2>1, <2>4, <3>1, <3>2, <1>f DEF FailPurchase
  <2> QED
    BY <1>16, <2>2, <2>3, <2>4 DEF CronStep
<1>17. ASSUME CheckerStep PROVE TypeOK'
  <2>1. OutsideOK' /\ RequestsOK'
    BY <1>17, <1>b, <1>c DEF CheckerStep, QueryStatus, RefreshPayment, CompletePayment,
       ReadPurchase, CompletePurchase, AwaitEscrow, db, reqs
  <2>2. CASE QueryStatus
    <3>1. RowsOK'
      BY <2>2, <1>a DEF QueryStatus, db
    <3>2. ASSUME NEW q \in Requests, Drop(Checker, q)
          PROVE  listed' \in [Crons -> [Requests -> Payment]]
      BY <3>2, IdleType DEF Drop, ProcsOK
    <3>3. \A q \in Requests :
            mapPalmpayStatus(order[q]) \in {"failed", "cancelled"} => order[q] \in OrderCodes
      BY DEF mapPalmpayStatus, OrderCodes
    <3>4. /\ proc' \in [Procs -> Entry]
          /\ listed' \in [Crons -> [Requests -> Payment]]
      BY <2>2, <3>2, <3>3, <1>g, TakeType
         DEF QueryStatus, checkPaymentStatus, Todo, ProcsOK, ProcSteps, OrderCodes
    <3> QED
      BY <2>1, <2>2, <3>1, <3>4 DEF QueryStatus, ProcsOK
  <2>3. CASE RefreshPayment
    <3>1. proc' \in [Procs -> Entry]
      BY <2>3, <1>g, EndType DEF RefreshPayment, Entry, ProcSteps
    <3> QED
      BY <2>1, <2>3, <3>1, <1>a, <1>f DEF RefreshPayment, db
  <2>4. CASE CompletePayment
    <3>1. proc' \in [Procs -> Entry]
      BY <2>4, <1>g, StepType, EndType DEF CompletePayment, ProcSteps
    <3>2. [proc[Checker].snap EXCEPT !.status = "completed"] \in Payment
      BY <1>g DEF Payment, PaymentStatus
    <3>3. payment' \in [Requests -> Payment]
      BY <2>4, <3>2, <1>g, SaveType DEF CompletePayment
    <3> QED
      BY <2>1, <2>4, <3>1, <3>3, <1>e, <1>f DEF CompletePayment
  <2>5. CASE CompletePurchase
    <3>1. proc' \in [Procs -> Entry]
      BY <2>5, <1>g, StepType, EndType DEF CompletePurchase, ProcSteps
    <3>2. RowsOK'
      BY <2>5 DEF CompletePurchase, RowsOK, PurchaseStatus
    <3>3. ProcsOK'
      BY <2>5, <3>1 DEF CompletePurchase, ProcsOK
    <3> QED
      BY <2>1, <3>2, <3>3
  <2>6. CASE AwaitEscrow
    <3>1. proc' \in [Procs -> Entry]
      BY <2>6, <1>g, StepType DEF AwaitEscrow, ProcSteps
    <3> QED
      BY <2>1, <2>6, <3>1, <1>a, <1>f DEF AwaitEscrow, db
  <2>7. CASE ReadPurchase
    <3>1. proc' \in [Procs -> Entry]
      BY <2>7, <1>g, StepType DEF ReadPurchase, ProcSteps
    <3> QED
      BY <2>1, <2>7, <3>1, <1>a, <1>f DEF ReadPurchase, db
  <2> QED
    BY <1>17, <2>2, <2>3, <2>4, <2>5, <2>6, <2>7 DEF CheckerStep
<1>18. ASSUME ExpirePayment PROVE TypeOK'
  <2>1. RowsOK' /\ OutsideOK' /\ RequestsOK'
    BY <1>18, <1>a, <1>b, <1>c DEF ExpirePayment, db, reqs
  <2>2. /\ proc' \in [Procs -> Entry]
        /\ listed' \in [Crons -> [Requests -> Payment]]
    BY <1>18, <1>g, TakeType DEF ExpirePayment, Todo, ProcsOK, ProcSteps, OrderCodes
  <2> QED
    BY <1>18, <2>1, <2>2 DEF ExpirePayment, ProcsOK
<1>19. ASSUME Crash PROVE TypeOK'
  <2>1. RowsOK' /\ OutsideOK'
    BY <1>19, <1>a, <1>b DEF Crash, db
  <2>2. RequestsOK'
    BY <1>19 DEF Crash, RequestsOK, RequestSteps
  <2>3. proc' \in [Procs -> Entry]
    BY <1>19, IdleType DEF Crash, ProcSteps
  <2>4. ProcsOK'
    BY <1>19, <2>3, IdleType, SwitchesAssumption DEF Crash, ProcsOK
  <2> QED
    BY <2>1, <2>2, <2>4
<1>20. ASSUME UNCHANGED vars PROVE TypeOK'
  BY <1>20, <1>a, <1>b, <1>c, <1>d DEF vars
<1>21. ASSUME NEW p \in Procs, ProcStep(p) PROVE TypeOK'
  BY <1>21, <1>12, <1>13, <1>16, <1>17, <1>18 DEF ProcStep
<1> QED
  BY <1>1, <1>2, <1>3, <1>4, <1>5, <1>6, <1>7, <1>8, <1>9, <1>10, <1>11, <1>14, <1>15,
     <1>19, <1>20, <1>21 DEF Next, RequestStep, Resting

\* Every reachable state is well typed.
THEOREM TypeCorrect == Spec => []TypeOK
BY InitTypeOK, NextTypeOK, PTL DEF Spec

-----------------------------------------------------------------------------
(* PaidBacked.  It is not inductive: a handler or a cron carries the code and *)
(* the entity it has read across its next steps, and an escrow job the fact  *)
(* that the purchase was COMPLETED.                                          *)

\* An entry of a process is backed by PalmPay's order: the code, the entity, and
\* the steps that complete a payment.
Backed(e) ==
    /\ e.code = 2 => Paid(e.order)
    /\ e.snap.status = "completed" => Paid(e.order)
    /\ e.pc \in {"refresh", "savepay", "readbuy", "savebuy"} => e.code = 2

\* What a process carries is backed, and so is an escrow about to be inserted.
ProcsBacked ==
    \A p \in Procs : /\ Backed(proc[p])
                     /\ job[p] = "insert" => Paid(proc[p].order)

ListsBacked ==
    \A c \in Crons, q \in Requests : listed[c][q].status = "completed" => Paid(q)

\* A job works for a process that does not change its order meanwhile.
Owns(p, s) ==
    \/ p \in Deliveries /\ s \in {"commit", "notify", "mark", "hook", "done"}
    \/ p = Checker /\ s = "escrow"

JobsOwned == \A p \in Procs : job[p] # "none" => Owns(p, proc[p].pc)

\* No order is open before the gateway is called.
NotYetOrdered ==
    \A r \in Requests :
        pc[r] \in {"idle", "delete", "nullify", "check", "insert", "charge", "gateway"}
            => order[r] = NoOrder

PaidInv == TypeOK /\ PaidBacked /\ ProcsBacked /\ ListsBacked /\ JobsOwned /\ NotYetOrdered

\* PalmPay's orders change only when the gateway is called or PalmPay moves on.
LEMMA OrderSteps ==
    [Next]_vars => \/ UNCHANGED order
                   \/ \E r \in Requests : AdvanceOrder(r) \/ CallGateway(r)
<1> SUFFICES ASSUME [Next]_vars, ~UNCHANGED order
             PROVE  \E r \in Requests : AdvanceOrder(r) \/ CallGateway(r)
  OBVIOUS
<1>1. ASSUME NEW r \in Requests, ReadExisting(r) \/ RequestStep(r) PROVE CallGateway(r)
  BY <1>1 DEF ReadExisting, RequestStep, DeleteFailed, NullifyPayments, CheckOrderNumber,
     InsertPurchase, InsertPayment, FinishRequest, Env
<1>2. ASSUME NEW r \in Requests, NEW d \in Deliveries, ResolveDeadlock(r, d) PROVE FALSE
  BY <1>2 DEF ResolveDeadlock
<1>3. ASSUME NEW r \in Requests, AgePayment(r) PROVE FALSE
  BY <1>3 DEF AgePayment
<1>4. ASSUME NEW d \in Deliveries, ReceiveWebhook(d) \/ HandlerStep(d) PROVE FALSE
  BY <1>4 DEF ReceiveWebhook, HandlerStep, SaveWebhookPayment, SaveWebhookPurchase,
     CommitWebhook
<1>5. ASSUME NEW p \in Procs, NotifyStep(p) \/ JobStep(p) PROVE FALSE
  BY <1>5 DEF NotifyStep, SendMail, MarkMailed, SendAdminWebhook, JobStep, CheckEscrow,
     InsertEscrow
<1>6. ASSUME NEW c \in Crons, ListPending(c) \/ CronStep(c) PROVE FALSE
  BY <1>6 DEF ListPending, CronStep, EndRun, FailPayment, FailPurchase
<1>7. ASSUME CheckerStep \/ ExpirePayment \/ Crash \/ Resting \/ UNCHANGED vars PROVE FALSE
  BY <1>7 DEF CheckerStep, QueryStatus, RefreshPayment, CompletePayment, ReadPurchase,
     CompletePurchase, AwaitEscrow, ExpirePayment, Crash, Resting, vars
<1>8. ASSUME NEW p \in Procs, ProcStep(p) PROVE FALSE
  BY <1>8, <1>4, <1>5, <1>6, <1>7 DEF ProcStep
<1> QED
  BY <1>1, <1>2, <1>3, <1>4, <1>5, <1>6, <1>7, <1>8 DEF Next

\* A paid order stays paid.
LEMMA PaidStable ==
    ASSUME TypeOK, NotYetOrdered, [Next]_vars, NEW q \in Requests, Paid(q)
    PROVE  Paid(q)'
<1>1. ASSUME NEW r \in Requests, AdvanceOrder(r) PROVE Paid(q)'
  BY <1>1 DEF AdvanceOrder, Paid, TypeOK, OutsideOK
<1>2. ASSUME NEW r \in Requests, CallGateway(r) PROVE Paid(q)'
  <2>1. q # r
    BY <1>2 DEF CallGateway, Paid, NotYetOrdered, NoOrder
  <2>2. order'[q] = order[q]
    BY <1>2, <2>1 DEF CallGateway, TypeOK, OutsideOK
  <2> QED
    BY <2>2 DEF Paid
<1> QED
  BY <1>1, <1>2, OrderSteps DEF Paid

\* The initial state satisfies the invariant.
LEMMA InitPaidInv == Init => PaidInv
<1> SUFFICES ASSUME Init PROVE PaidInv
  OBVIOUS
<1>1. TypeOK
  BY InitTypeOK
<1>2. \A p \in Procs : proc[p] = Idle("idle", AnyRequest) /\ job[p] = "none"
  BY DEF Init
<1>3. ProcsBacked /\ ListsBacked /\ JobsOwned
  BY <1>2 DEF Init, ProcsBacked, Backed, ListsBacked, JobsOwned, Idle, NoPayment
<1>4. PaidBacked /\ NotYetOrdered
  BY DEF Init, PaidBacked, NotYetOrdered, NoPayment
<1> QED
  BY <1>1, <1>3, <1>4 DEF PaidInv

\* The commit of a request pays nothing.
LEMMA CommitPaid ==
    ASSUME TypeOK, PaidBacked, NEW r \in Requests, NEW s \in {"PENDING", "FAILED"},
           NEW row \in Payment, row.status # "completed", CommitRequest(r, s, row),
           UNCHANGED mails, \A q \in Requests : Paid(q) => Paid(q)'
    PROVE  PaidBacked'
<1>1. ASSUME NEW q \in Requests
      PROVE  payment'[q].status = "completed" => payment[q].status = "completed"
  <2>1. payment[q] \in Payment
    BY DEF TypeOK, RowsOK
  <2>2. payment'[q] \in {row, payment[q], [payment[q] EXCEPT !.linked = FALSE]}
    BY DEF CommitRequest
  <2>3. [payment[q] EXCEPT !.linked = FALSE].status = payment[q].status
    BY <2>1 DEF Payment
  <2> QED
    BY <2>2, <2>3
<1>2. ASSUME NEW q \in Requests
      PROVE  /\ purchase'[q] = "COMPLETED" => purchase[q] = "COMPLETED"
             /\ escrow'[q] = escrow[q]
  BY DEF CommitRequest
<1>3. \A m \in mails : m.about \in Requests
  BY DEF TypeOK, OutsideOK
<1> QED
  BY <1>1, <1>2, <1>3 DEF PaidBacked

\* Overwriting one payments row pays nothing, if the entity's status is backed.
LEMMA SavePaid ==
    ASSUME TypeOK, PaidBacked, NEW q \in Requests, NEW entity \in Payment,
           NEW row \in SaveOutcomes(payment[q], entity),
           payment' = [payment EXCEPT ![q] = row],
           entity.status = "completed" => Paid(q),
           \A r \in Requests : Paid(r) => Paid(r)'
    PROVE  \A r \in Requests : payment'[r].status = "completed" => Paid(r)'
BY SaveOutcomesType DEF TypeOK, RowsOK, PaidBacked

\* A process takes a new entry, perhaps starts a job: it goes on, and its entry
\* is backed.
LEMMA PutEntry ==
    ASSUME proc \in [Procs -> Entry], ProcsBacked, JobsOwned,
           \A q \in Requests : Paid(q) => Paid(q)',
           NEW p \in Procs, NEW e \in Entry, proc' = [proc EXCEPT ![p] = e],
           \A x \in Procs : job'[x] = job[x] \/ (x = p /\ job'[x] = "check"),
           Backed(e),
           job'[p] # "none" => Owns(p, e.pc) /\ e.order = proc[p].order
    PROVE  ProcsBacked' /\ JobsOwned'
<1>1. ASSUME NEW x \in Procs PROVE proc'[x] = IF x = p THEN e ELSE proc[x]
  OBVIOUS
<1>2. ASSUME NEW x \in Procs PROVE x # p => job'[x] = job[x]
  OBVIOUS
<1>3. ASSUME NEW f \in Entry, Backed(f)
      PROVE  /\ f.code = 2 => Paid(f.order)'
             /\ f.snap.status = "completed" => Paid(f.order)'
             /\ f.pc \in {"refresh", "savepay", "readbuy", "savebuy"} => f.code = 2
  BY <1>3 DEF Backed, Entry
<1>4. ASSUME NEW x \in Procs PROVE Backed(proc[x])'
  <2>1. CASE x = p
    BY <1>1, <1>3, <2>1 DEF Backed
  <2>2. CASE x # p
    BY <1>1, <1>3, <2>2 DEF Backed, ProcsBacked
  <2> QED
    BY <2>1, <2>2
<1>5. ASSUME NEW x \in Procs, job'[x] = "insert" PROVE Paid(proc[x].order)'
  <2>1. job[x] = "insert" /\ Paid(proc[x].order)
    BY <1>5 DEF ProcsBacked
  <2>2. proc[x].order \in Requests
    BY DEF Entry
  <2>3. proc'[x].order = proc[x].order
    BY <1>1, <1>5
  <2> QED
    BY <2>1, <2>2, <2>3
<1>6. ASSUME NEW x \in Procs, job'[x] # "none" PROVE Owns(x, proc'[x].pc)
  BY <1>1, <1>2, <1>6 DEF JobsOwned
<1> QED
  BY <1>4, <1>5, <1>6 DEF ProcsBacked, JobsOwned, Backed, Owns

\* It goes on with what it carries, perhaps starting a job ...
LEMMA GoOn ==
    ASSUME proc \in [Procs -> Entry], ProcsBacked, JobsOwned,
           \A q \in Requests : Paid(q) => Paid(q)',
           NEW p \in Procs, NEW s \in ProcSteps, Step(p, s),
           \A x \in Procs : job'[x] = job[x] \/ (x = p /\ job'[x] = "check"),
           s \in {"refresh", "savepay", "readbuy", "savebuy"} => proc[p].code = 2,
           job'[p] # "none" => Owns(p, s)
    PROVE  ProcsBacked' /\ JobsOwned'
<1> DEFINE e == [proc[p] EXCEPT !.pc = s]
<1>1. /\ e \in Entry /\ e.code = proc[p].code /\ e.order = proc[p].order
      /\ e.snap = proc[p].snap /\ e.pc = s
  BY DEF Entry
<1>2. proc' = [proc EXCEPT ![p] = e]
  BY DEF Step, Entry
<1> HIDE DEF e
<1>3. Backed(e)
  BY <1>1 DEF ProcsBacked, Backed
<1> QED
  BY <1>1, <1>2, <1>3, PutEntry

\* ... or is done with its payment.
LEMMA Ends ==
    ASSUME proc \in [Procs -> Entry], ProcsBacked, JobsOwned,
           \A q \in Requests : Paid(q) => Paid(q)',
           NEW p \in Procs, End(p), UNCHANGED job, job[p] # "none" => p \in Deliveries
    PROVE  ProcsBacked' /\ JobsOwned'
<1> DEFINE e == Idle(IF p \in Deliveries THEN "done" ELSE "next", proc[p].order)
<1>1. proc[p].order \in Requests
  BY DEF Entry
<1>2. /\ e \in Entry /\ e.code = 0 /\ e.order = proc[p].order
      /\ e.snap.status = "none" /\ e.pc = IF p \in Deliveries THEN "done" ELSE "next"
  BY <1>1, IdleType DEF Idle, NoPayment, ProcSteps
<1>3. proc' = [proc EXCEPT ![p] = e]
  BY DEF End
<1> HIDE DEF e
<1>4. Backed(e)
  BY <1>2 DEF Backed
<1>5. job'[p] # "none" => Owns(p, e.pc) /\ e.order = proc[p].order
  BY <1>2 DEF Owns
<1> QED
  BY <1>2, <1>3, <1>4, <1>5, PutEntry

\* A cron takes a payment off its list.
LEMMA Takes ==
    ASSUME proc \in [Procs -> Entry], listed \in [Crons -> [Requests -> Payment]],
           ProcsBacked, ListsBacked, JobsOwned,
           \A q \in Requests : Paid(q) => Paid(q)',
           NEW c \in Crons, NEW q \in Requests, NEW s \in ProcSteps, NEW k \in OrderCodes,
           Take(c, q, s, k), UNCHANGED job, job[c] = "none", k = 2 => Paid(q),
           s \in {"refresh", "savepay", "readbuy", "savebuy"} => k = 2
    PROVE  ProcsBacked' /\ JobsOwned'
<1> DEFINE e == [pc |-> s, order |-> q, code |-> k, snap |-> listed[c][q]]
<1>1. /\ e.pc = s /\ e.order = q /\ e.code = k /\ e.snap = listed[c][q] /\ e \in Entry
  BY DEF Entry
<1>2. proc' = [proc EXCEPT ![c] = e] /\ c \in Procs
  BY DEF Take, Crons, Procs
<1> HIDE DEF e
<1>3. Backed(e)
  BY <1>1 DEF Backed, ListsBacked
<1> QED
  BY <1>1, <1>2, <1>3, PutEntry

\* Dropping a listed payment keeps the lists backed.
LEMMA Drops ==
    ASSUME listed \in [Crons -> [Requests -> Payment]], ListsBacked,
           \A q \in Requests : Paid(q) => Paid(q)',
           NEW c \in Crons, NEW q \in Requests, Drop(c, q)
    PROVE  ListsBacked'
<1>1. ASSUME NEW k \in Crons, NEW r \in Requests
      PROVE  listed'[k][r] \in {listed[k][r], NoPayment}
  BY DEF Drop
<1> QED
  BY <1>1 DEF ListsBacked, NoPayment

\* Each kind of step keeps the invariant.
LEMMA NextPaidInv == PaidInv /\ [Next]_vars => PaidInv'
<1> SUFFICES ASSUME PaidInv, [Next]_vars PROVE PaidInv'
  OBVIOUS
<1> USE DEF PaidInv
<1>t. TypeOK'
  BY NextTypeOK
<1>s. \A q \in Requests : Paid(q) => Paid(q)'
  BY PaidStable
<1>y. /\ proc \in [Procs -> Entry] /\ job \in [Procs -> {"none", "check", "insert"}]
      /\ listed \in [Crons -> [Requests -> Payment]]
      /\ payment \in [Requests -> Payment]
      /\ purchase \in [Requests -> PurchaseStatus \cup {"none"}]
      /\ escrow \in [Requests -> Nat]
  BY DEF TypeOK, ProcsOK, RowsOK
<1>m. \A m \in mails : m.about \in Requests
  BY DEF TypeOK, OutsideOK
<1>x. \A p \in Procs : proc[p].order \in Requests /\ proc[p].snap \in Payment
  BY <1>y DEF Entry
<1>z. /\ \A d \in Deliveries : d \in Procs /\ d \notin Crons
      /\ \A c \in Crons : c \in Procs /\ c \notin Deliveries
      /\ Checker \in Crons /\ Cleaner \in Crons /\ Cleaner # Checker
  BY ProcsAssumption DEF Procs, Crons
<1>a. ASSUME UNCHANGED <<purchase, payment, escrow, mails>> PROVE PaidBacked'
  BY <1>a, <1>s, <1>m DEF PaidBacked
<1>b. ASSUME UNCHANGED proc, UNCHANGED job PROVE ProcsBacked' /\ JobsOwned'
  BY <1>b, <1>s, <1>x DEF ProcsBacked, Backed, JobsOwned, Owns
<1>u. ASSUME UNCHANGED listed PROVE ListsBacked'
  BY <1>u, <1>s DEF ListsBacked
<1>c. ASSUME UNCHANGED <<pc, order>> PROVE NotYetOrdered'
  BY <1>c DEF NotYetOrdered
<1>e. ASSUME NEW p \in Procs, NEW s \in ProcSteps, Step(p, s), UNCHANGED job,
             s \in {"refresh", "savepay", "readbuy", "savebuy"} => proc[p].code = 2,
             job[p] # "none" => Owns(p, s)
      PROVE  ProcsBacked' /\ JobsOwned'
  BY <1>e, <1>s, <1>y, GoOn
<1>f. ASSUME NEW p \in Procs, End(p), UNCHANGED job, job[p] # "none" => p \in Deliveries
      PROVE  ProcsBacked' /\ JobsOwned'
  BY <1>f, <1>s, <1>y, Ends
<1>j. ASSUME NEW p \in Procs, job[p] # "none" PROVE Owns(p, proc[p].pc)
  BY <1>j DEF JobsOwned
<1>1. ASSUME NEW r \in Requests,
             \/ ReadExisting(r) \/ DeleteFailed(r) \/ NullifyPayments(r)
             \/ CheckOrderNumber(r) \/ InsertPurchase(r)
      PROVE  PaidInv'
  <2>1. /\ UNCHANGED <<purchase, payment, escrow, mails, order>>
        /\ UNCHANGED proc /\ UNCHANGED job /\ UNCHANGED listed
    BY <1>1 DEF ReadExisting, DeleteFailed, NullifyPayments, CheckOrderNumber,
       InsertPurchase, db, Env
  <2>2. pc[r] \in {"idle", "delete", "nullify", "check", "insert"}
    BY <1>1 DEF ReadExisting, DeleteFailed, NullifyPayments, CheckOrderNumber, InsertPurchase
  <2>3. \E step \in RequestSteps : pc' = [pc EXCEPT ![r] = step]
    BY <1>1 DEF ReadExisting, DeleteFailed, NullifyPayments, CheckOrderNumber,
       InsertPurchase, FailOnConflict, Reply, Goto, RequestSteps, InTx, Deleted
  <2>4. \A q \in Requests \ {r} : pc'[q] = pc[q]
    BY <2>3 DEF TypeOK, RequestsOK
  <2>5. NotYetOrdered'
    BY <2>1, <2>2, <2>4 DEF NotYetOrdered
  <2> QED
    BY <2>1, <2>5, <1>a, <1>b, <1>u, <1>t
<1>2. ASSUME NEW r \in Requests, InsertPayment(r) PROVE PaidInv'
  <2>1. UNCHANGED <<order, mails>> /\ UNCHANGED proc /\ UNCHANGED job /\ UNCHANGED listed
    BY <1>2 DEF InsertPayment, Env
  <2>2. ASSUME CommitRequest(r, "FAILED", NoPayment) PROVE PaidBacked'
    <3>1. NoPayment \in Payment /\ NoPayment.status # "completed"
      BY IdleType DEF NoPayment
    <3> QED
      BY <2>1, <2>2, <3>1, <1>s, CommitPaid
  <2>3. ASSUME UNCHANGED db PROVE PaidBacked'
    BY <2>1, <2>3, <1>a DEF db
  <2>4. pc[r] = "charge" /\ \A q \in Requests \ {r} : pc'[q] = pc[q]
    BY <1>2 DEF InsertPayment, Reply, Goto, TypeOK, RequestsOK
  <2>5. NotYetOrdered'
    BY <2>1, <2>4 DEF NotYetOrdered
  <2> QED
    BY <1>2, <2>1, <2>2, <2>3, <2>5, <1>b, <1>u, <1>t DEF InsertPayment
<1>3. ASSUME NEW r \in Requests, CallGateway(r) PROVE PaidInv'
  <2>1. UNCHANGED mails /\ UNCHANGED proc /\ UNCHANGED job /\ UNCHANGED listed
    BY <1>3 DEF CallGateway
  <2>2. ASSUME CommitRequest(r, "FAILED", NewPayment("failed", FALSE, FALSE)) PROVE PaidBacked'
    <3>1. /\ NewPayment("failed", FALSE, FALSE) \in Payment
          /\ NewPayment("failed", FALSE, FALSE).status # "completed"
      BY NewPaymentType DEF PaymentStatus, NewPayment
    <3> QED
      BY <2>1, <2>2, <3>1, <1>s, CommitPaid
  <2>3. ASSUME UNCHANGED db PROVE PaidBacked'
    BY <2>1, <2>3, <1>a DEF db
  <2>4. /\ pc'[r] \in {"answered", "finish"}
        /\ \A q \in Requests \ {r} : pc'[q] = pc[q] /\ order'[q] = order[q]
    BY <1>3 DEF CallGateway, Reply, TypeOK, RequestsOK, OutsideOK
  <2>5. NotYetOrdered'
    BY <2>4 DEF NotYetOrdered
  <2> QED
    BY <1>3, <2>1, <2>2, <2>3, <2>5, <1>b, <1>u, <1>t DEF CallGateway
<1>4. ASSUME NEW r \in Requests, FinishRequest(r) PROVE PaidInv'
  <2>1. UNCHANGED <<order, mails>> /\ UNCHANGED proc /\ UNCHANGED job /\ UNCHANGED listed
    BY <1>4 DEF FinishRequest, Env
  <2>2. PaidBacked'
    <3> DEFINE row == NewPayment("pending", answer[r] # "failed", answer[r] = "ok")
    <3>1. row \in Payment
      BY NewPaymentType DEF PaymentStatus
    <3>2. row.status = "pending"
      BY DEF NewPayment
    <3>3. CommitRequest(r, "PENDING", row)
      BY <1>4 DEF FinishRequest
    <3> HIDE DEF row
    <3> QED
      BY <2>1, <3>1, <3>2, <3>3, <1>s, CommitPaid
  <2>3. pc'[r] = "answered" /\ \A q \in Requests \ {r} : pc'[q] = pc[q]
    BY <1>4 DEF FinishRequest, Reply, TypeOK, RequestsOK
  <2>4. NotYetOrdered'
    BY <2>1, <2>3 DEF NotYetOrdered
  <2> QED
    BY <2>1, <2>2, <2>4, <1>b, <1>u, <1>t
<1>5. ASSUME NEW r \in Requests, NEW d \in Deliveries, ResolveDeadlock(r, d) PROVE PaidInv'
  <2>1. /\ UNCHANGED <<purchase, payment, escrow, mails, order>>
        /\ UNCHANGED job /\ UNCHANGED listed
    BY <1>5 DEF ResolveDeadlock, db
  <2>2. UNCHANGED proc \/ End(d)
    BY <1>5 DEF ResolveDeadlock
  <2>3. \A q \in Requests : pc'[q] = pc[q] \/ pc'[q] = "answered"
    BY <1>5 DEF ResolveDeadlock, Reply, reqs, TypeOK, RequestsOK
  <2>4. NotYetOrdered'
    BY <2>1, <2>3 DEF NotYetOrdered
  <2> QED
    BY <2>1, <2>2, <2>4, <1>a, <1>b, <1>f, <1>u, <1>t, <1>z
<1>6. ASSUME NEW r \in Requests, AdvanceOrder(r) \/ AgePayment(r) PROVE PaidInv'
  <2>1. /\ UNCHANGED <<purchase, payment, escrow, mails>>
        /\ UNCHANGED proc /\ UNCHANGED job /\ UNCHANGED listed
    BY <1>6 DEF AdvanceOrder, AgePayment, db
  <2>2. NotYetOrdered'
    BY <1>6 DEF AdvanceOrder, AgePayment, reqs, NotYetOrdered, NoOrder, TypeOK, OutsideOK
  <2> QED
    BY <2>1, <2>2, <1>a, <1>b, <1>u, <1>t
<1>7. ASSUME NEW d \in Deliveries, ReceiveWebhook(d) PROVE PaidInv'
  <2>1. /\ UNCHANGED <<purchase, payment, escrow, mails, order, pc>>
        /\ UNCHANGED job /\ UNCHANGED listed
    BY <1>7 DEF ReceiveWebhook, db, reqs
  <2>2. job[d] = "none"
    BY <1>7, <1>j, <1>z DEF ReceiveWebhook, Owns
  <2>3. ASSUME NEW q \in Requests, NEW c \in Notifications(q),
               proc' = [proc EXCEPT ![d] =
                 [pc |-> "save", order |-> q, code |-> c,
                  snap |-> [payment[q] EXCEPT !.status = mapPalmpayStatus(c)]]]
        PROVE  ProcsBacked' /\ JobsOwned'
    <3> DEFINE s == [payment[q] EXCEPT !.status = mapPalmpayStatus(c)]
               e == [pc |-> "save", order |-> q, code |-> c, snap |-> s]
    <3>1. c \in OrderCodes /\ (c = 2 => Paid(q))
      BY <2>3 DEF Notifications, TypeOK, OutsideOK, OrderCodes, Paid
    <3>2. s \in Payment /\ s.status = mapPalmpayStatus(c)
      BY <1>y, MapType DEF Payment
    <3>3. e.pc = "save" /\ e.code = c /\ e.order = q /\ e.snap = s
      OBVIOUS
    <3>4. e \in Entry
      BY <3>1, <3>2 DEF Entry, ProcSteps
    <3>5. Backed(e)
      BY <3>1, <3>2, <3>3, MapType DEF Backed
    <3> HIDE DEF e
    <3>6. proc' = [proc EXCEPT ![d] = e]
      BY <2>3 DEF e
    <3> QED
      BY <2>1, <2>2, <3>4, <3>5, <3>6, <1>s, <1>y, <1>z, PutEntry
  <2>4. ASSUME End(d)
        PROVE  ProcsBacked' /\ JobsOwned'
    BY <2>1, <2>2, <2>4, <1>f, <1>z
  <2> QED
    BY <1>7, <2>1, <2>3, <2>4, <1>a, <1>c, <1>u, <1>t DEF ReceiveWebhook
<1>8. ASSUME NEW d \in Deliveries, SaveWebhookPayment(d) PROVE PaidInv'
  <2>1. /\ UNCHANGED <<purchase, payment, escrow, mails, order, pc>>
        /\ UNCHANGED job /\ UNCHANGED listed
    BY <1>8 DEF SaveWebhookPayment, db, reqs
  <2>2. job[d] = "none"
    BY <1>8, <1>j, <1>z DEF SaveWebhookPayment, Owns
  <2>3. Step(d, "locked") \/ End(d)
    BY <1>8 DEF SaveWebhookPayment
  <2>4. ProcsBacked' /\ JobsOwned'
    BY <2>1, <2>2, <2>3, <1>e, <1>f, <1>z DEF ProcSteps
  <2> QED
    BY <2>1, <2>4, <1>a, <1>c, <1>u, <1>t
<1>9. ASSUME NEW d \in Deliveries, SaveWebhookPurchase(d) PROVE PaidInv'
  <2>1. UNCHANGED <<purchase, payment, escrow, mails, order, pc>> /\ UNCHANGED listed
    BY <1>9 DEF SaveWebhookPurchase, db, reqs
  <2>2. job[d] = "none"
    BY <1>9, <1>j, <1>z DEF SaveWebhookPurchase, Owns
  <2>3. \/ Step(d, "commit") /\ (UNCHANGED job \/ job' = [job EXCEPT ![d] = "check"])
        \/ End(d) /\ UNCHANGED job
    BY <1>9 DEF SaveWebhookPurchase
  <2>4. ASSUME Step(d, "commit") /\ (UNCHANGED job \/ job' = [job EXCEPT ![d] = "check"])
        PROVE  ProcsBacked' /\ JobsOwned'
    <3>1. \A x \in Procs : job'[x] = job[x] \/ (x = d /\ job'[x] = "check")
      BY <2>4, <1>y
    <3>2. "commit" \in ProcSteps /\ Owns(d, "commit")
      BY DEF ProcSteps, Owns
    <3> QED
      BY <2>4, <3>1, <3>2, <1>s, <1>y, <1>z, GoOn
  <2>5. ASSUME End(d) /\ UNCHANGED job
        PROVE  ProcsBacked' /\ JobsOwned'
    BY <2>2, <2>5, <1>f, <1>z
  <2> QED
    BY <2>1, <2>3, <2>4, <2>5, <1>a, <1>c, <1>u, <1>t
<1>10. ASSUME NEW d \in Deliveries, CommitWebhook(d) PROVE PaidInv'
  <2>1. UNCHANGED <<escrow, mails, order, pc>> /\ UNCHANGED job /\ UNCHANGED listed
    BY <1>10 DEF CommitWebhook, reqs
  <2>2. End(d) \/ Step(d, "notify")
    BY <1>10 DEF CommitWebhook
  <2>3. ProcsBacked' /\ JobsOwned'
    BY <2>1, <2>2, <1>e, <1>f, <1>z DEF ProcSteps, Owns
  <2>4. /\ proc[d].code = 2 => Paid(proc[d].order)
        /\ proc[d].snap.status = "completed" => Paid(proc[d].order)
    BY <1>z DEF ProcsBacked, Backed
  <2>5. \A q \in Requests : payment'[q].status = "completed" => Paid(q)'
    <3>1. PICK row \in SaveOutcomes(payment[proc[d].order], proc[d].snap) :
              payment' = [payment EXCEPT ![proc[d].order] = row]
      BY <1>10 DEF CommitWebhook
    <3> QED
      BY <2>4, <3>1, <1>s, <1>x, <1>z, SavePaid
  <2>6. \A q \in Requests : purchase'[q] = "COMPLETED" =>
              purchase[q] = "COMPLETED" \/ (q = proc[d].order /\ proc[d].code = 2)
    BY <1>10, <1>y DEF CommitWebhook, SettledAs, Settles
  <2>7. PaidBacked'
    BY <2>1, <2>4, <2>5, <2>6, <1>s, <1>m DEF PaidBacked
  <2> QED
    BY <2>1, <2>3, <2>7, <1>c, <1>u, <1>t
<1>11. ASSUME NEW p \in Procs, NotifyStep(p) PROVE PaidInv'
  <2>1. UNCHANGED <<purchase, escrow, order, pc>> /\ UNCHANGED job /\ UNCHANGED listed
    BY <1>11 DEF NotifyStep, SendMail, MarkMailed, SendAdminWebhook, db, reqs
  <2>2. job[p] # "none" => p \in Deliveries
    BY <1>11, <1>j DEF Owns, NotifyStep, SendMail, MarkMailed, SendAdminWebhook
  <2>3. End(p) \/ Step(p, "hook") \/ Step(p, "mark")
    BY <1>11 DEF NotifyStep, SendMail, MarkMailed, SendAdminWebhook
  <2>4. ProcsBacked' /\ JobsOwned'
    BY <2>1, <2>2, <2>3, <1>e, <1>f DEF ProcSteps, Owns
  <2>5. \A q \in Requests : payment'[q].status = payment[q].status
    <3>1. CASE SendMail(p)
      BY <3>1 DEF SendMail, db
    <3>2. CASE MarkMailed(p)
      BY <3>2, <1>x, <1>y DEF MarkMailed, Payment
    <3>3. CASE SendAdminWebhook(p)
      <4>1. \/ UNCHANGED payment
            \/ payment' = [payment EXCEPT ![proc[p].order].hook = TRUE]
        BY <3>3 DEF SendAdminWebhook
      <4> QED
        BY <4>1, <1>x, <1>y DEF Payment
    <3> QED
      BY <1>11, <3>1, <3>2, <3>3 DEF NotifyStep
  <2>6. \A m \in mails' : m \in mails \/
            (m.about = proc[p].order /\ (m.kind = "success" => proc[p].code = 2))
    BY <1>11 DEF NotifyStep, SendMail, MarkMailed, SendAdminWebhook, MailKind
  <2>7. proc[p].code = 2 => Paid(proc[p].order)
    BY DEF ProcsBacked, Backed
  <2>8. PaidBacked'
    BY <2>1, <2>5, <2>6, <2>7, <1>s, <1>m, <1>x DEF PaidBacked
  <2> QED
    BY <2>1, <2>4, <2>8, <1>c, <1>u, <1>t
<1>12. ASSUME NEW p \in Procs, CheckEscrow(p) PROVE PaidInv'
  <2>1. /\ UNCHANGED <<purchase, payment, escrow, mails, order, pc>>
        /\ UNCHANGED proc /\ UNCHANGED listed
    BY <1>12 DEF CheckEscrow, db, reqs
  <2>2. /\ job[p] = "check"
        /\ \A x \in Procs \ {p} : job'[x] = job[x]
        /\ job'[p] = "insert" => purchase[proc[p].order] = "COMPLETED"
    BY <1>12, <1>y DEF CheckEscrow, CanHold
  <2>3. job'[p] = "insert" => Paid(proc[p].order)
    BY <2>2, <1>x DEF PaidBacked
  <2>4. ProcsBacked'
    BY <2>1, <2>2, <2>3, <1>s, <1>x DEF ProcsBacked, Backed
  <2>5. JobsOwned'
    BY <2>1, <2>2 DEF JobsOwned, Owns
  <2> QED
    BY <2>1, <2>4, <2>5, <1>a, <1>c, <1>u, <1>t
<1>13. ASSUME NEW p \in Procs, InsertEscrow(p) PROVE PaidInv'
  <2>1. /\ UNCHANGED <<purchase, payment, mails, order, pc>>
        /\ UNCHANGED proc /\ UNCHANGED listed
    BY <1>13 DEF InsertEscrow, reqs
  <2>2. job[p] = "insert" /\ \A x \in Procs : job'[x] = job[x] \/ job'[x] = "none"
    BY <1>13, <1>y DEF InsertEscrow
  <2>3. ProcsBacked' /\ JobsOwned'
    BY <2>1, <2>2, <1>s, <1>x DEF ProcsBacked, Backed, JobsOwned, Owns
  <2>4. \A q \in Requests : escrow'[q] > 0 => escrow[q] > 0 \/ q = proc[p].order
    BY <1>13, <1>y DEF InsertEscrow
  <2>5. Paid(proc[p].order)
    BY <2>2 DEF ProcsBacked
  <2>6. PaidBacked'
    BY <2>1, <2>4, <2>5, <1>s, <1>m DEF PaidBacked
  <2> QED
    BY <2>1, <2>3, <2>6, <1>c, <1>u, <1>t
<1>14. ASSUME NEW c \in Crons, ListPending(c) PROVE PaidInv'
  <2>1. UNCHANGED <<purchase, payment, escrow, mails, order, pc>> /\ UNCHANGED job
    BY <1>14 DEF ListPending, db, reqs
  <2>2. ASSUME NEW k \in Crons, NEW q \in Requests
        PROVE  \/ listed'[k][q] = listed[k][q]
               \/ listed'[k][q].status = "none"
               \/ listed'[k][q].status = "pending"
    BY <1>14, <1>y DEF ListPending, Due, NoPayment
  <2>3. ListsBacked'
    BY <2>2, <1>s DEF ListsBacked
  <2>4. job[c] = "none"
    BY <1>14, <1>j, <1>z DEF ListPending, Owns
  <2>5. Step(c, "next")
    BY <1>14 DEF ListPending
  <2>6. ProcsBacked' /\ JobsOwned'
    BY <2>1, <2>4, <2>5, <1>e, <1>z DEF ProcSteps
  <2> QED
    BY <2>1, <2>3, <2>6, <1>a, <1>c, <1>t
<1>15. ASSUME NEW c \in Crons, EndRun(c) PROVE PaidInv'
  <2>1. /\ UNCHANGED <<purchase, payment, escrow, mails, order, pc>>
        /\ UNCHANGED job /\ UNCHANGED listed
    BY <1>15 DEF EndRun, db, reqs
  <2>2. job[c] = "none"
    BY <1>15, <1>j, <1>z DEF EndRun, Owns
  <2> DEFINE e == Idle("idle", AnyRequest)
  <2>3. e \in Entry /\ e.code = 0 /\ e.snap.status = "none" /\ e.pc = "idle"
    BY IdleType DEF Idle, NoPayment, ProcSteps
  <2>4. proc' = [proc EXCEPT ![c] = e]
    BY <1>15 DEF EndRun
  <2> HIDE DEF e
  <2>5. Backed(e)
    BY <2>3 DEF Backed
  <2>6. ProcsBacked' /\ JobsOwned'
    BY <2>1, <2>2, <2>3, <2>4, <2>5, <1>s, <1>y, <1>z, PutEntry
  <2> QED
    BY <2>1, <2>6, <1>a, <1>c, <1>u, <1>t
<1>16. ASSUME NEW c \in Crons, FailPayment(c) PROVE PaidInv'
  <2>1. /\ UNCHANGED <<purchase, escrow, mails, order, pc>>
        /\ UNCHANGED job /\ UNCHANGED listed
    BY <1>16 DEF FailPayment, reqs
  <2>2. job[c] = "none"
    BY <1>16, <1>j, <1>z DEF FailPayment, Owns
  <2>3. Step(c, "failbuy") \/ End(c)
    BY <1>16 DEF FailPayment
  <2>4. ProcsBacked' /\ JobsOwned'
    BY <2>1, <2>2, <2>3, <1>e, <1>f, <1>z DEF ProcSteps
  <2> DEFINE s == [proc[c].snap EXCEPT !.status = "failed"]
  <2>5. s \in Payment /\ s.status = "failed"
    BY <1>x, <1>z DEF Payment, PaymentStatus
  <2>6. \/ UNCHANGED payment
        \/ \E row \in SaveOutcomes(payment[proc[c].order], s) :
              payment' = [payment EXCEPT ![proc[c].order] = row]
    BY <1>16 DEF FailPayment
  <2> HIDE DEF s
  <2>7. \A q \in Requests : payment'[q].status = "completed" => Paid(q)'
    <3>1. CASE UNCHANGED payment
      BY <3>1, <1>s DEF PaidBacked
    <3>2. ASSUME NEW row \in SaveOutcomes(payment[proc[c].order], s),
                 payment' = [payment EXCEPT ![proc[c].order] = row]
          PROVE  \A q \in Requests : payment'[q].status = "completed" => Paid(q)'
      BY <2>5, <3>2, <1>s, <1>x, <1>z, SavePaid
    <3> QED
      BY <2>6, <3>1, <3>2
  <2>8. PaidBacked'
    BY <2>1, <2>7, <1>s, <1>m DEF PaidBacked
  <2> QED
    BY <2>1, <2>4, <2>8, <1>c, <1>u, <1>t
<1>17. ASSUME NEW c \in Crons, FailPurchase(c) PROVE PaidInv'
  <2>1. /\ UNCHANGED <<payment, escrow, mails, order, pc>>
        /\ UNCHANGED job /\ UNCHANGED listed
    BY <1>17 DEF FailPurchase, reqs
  <2>2. job[c] = "none" /\ End(c)
    BY <1>17, <1>j, <1>z DEF FailPurchase, Owns
  <2>3. \A q \in Requests : purchase'[q] = "COMPLETED" => purchase[q] = "COMPLETED"
    BY <1>17, <1>y DEF FailPurchase
  <2>4. PaidBacked'
    BY <2>1, <2>3, <1>s, <1>m DEF PaidBacked
  <2> QED
    BY <2>1, <2>2, <2>4, <1>c, <1>f, <1>u, <1>t, <1>z
<1>18. ASSUME QueryStatus PROVE PaidInv'
  <2>1. UNCHANGED <<purchase, payment, escrow, mails, order, pc>> /\ UNCHANGED job
    BY <1>18 DEF QueryStatus, db, reqs
  <2>2. job[Checker] = "none"
    BY <1>18, <1>j, <1>z DEF QueryStatus, Owns
  <2>3. ASSUME NEW q \in Requests, Drop(Checker, q)
        PROVE  ListsBacked'
    BY <2>3, <1>s, <1>y, <1>z, Drops
  <2>4. ASSUME NEW q \in Requests, UNCHANGED proc PROVE ProcsBacked' /\ JobsOwned'
    BY <2>1, <2>4, <1>b
  <2>5. ASSUME NEW q \in Requests, mapPalmpayStatus(order[q]) = "completed",
               Take(Checker, q, "refresh", 2)
        PROVE  ProcsBacked' /\ JobsOwned'
    <3>1. Paid(q)
      BY <2>5, MapType DEF Paid
    <3> QED
      BY <2>1, <2>2, <2>5, <3>1, <1>s, <1>y, <1>z, Takes DEF ProcSteps, OrderCodes
  <2>6. ASSUME NEW q \in Requests, mapPalmpayStatus(order[q]) \in {"failed", "cancelled"},
               Take(Checker, q, "failpay", order[q])
        PROVE  ProcsBacked' /\ JobsOwned'
    <3>1. order[q] \in OrderCodes
      BY <2>6 DEF mapPalmpayStatus, OrderCodes
    <3> QED
      BY <2>1, <2>2, <2>6, <3>1, <1>s, <1>y, <1>z, Takes DEF Paid, ProcSteps
  <2>7. ListsBacked' /\ ProcsBacked' /\ JobsOwned'
    BY <1>18, <2>3, <2>4, <2>5, <2>6 DEF QueryStatus, checkPaymentStatus, Todo, Take
  <2> QED
    BY <2>1, <2>7, <1>a, <1>c, <1>t
<1>19. ASSUME RefreshPayment PROVE PaidInv'
  <2>1. /\ UNCHANGED <<purchase, payment, escrow, mails, order, pc>>
        /\ UNCHANGED job /\ UNCHANGED listed
    BY <1>19 DEF RefreshPayment, db, reqs
  <2>2. job[Checker] = "none"
    BY <1>19, <1>j, <1>z DEF RefreshPayment, Owns
  <2>3. proc[Checker].code = 2 /\ Paid(proc[Checker].order)
    BY <1>19, <1>z DEF RefreshPayment, ProcsBacked, Backed
  <2> DEFINE row == payment[proc[Checker].order]
             e == [proc[Checker] EXCEPT !.pc = "savepay", !.snap = row]
  <2>4. proc[Checker] \in Entry /\ row \in Payment
    BY <1>x, <1>y, <1>z
  <2>5. e \in Entry /\ e.code = 2 /\ e.order = proc[Checker].order /\ Backed(e)
    BY <2>3, <2>4 DEF Entry, ProcSteps, Backed
  <2>6. ASSUME proc' = [proc EXCEPT ![Checker].pc = "savepay", ![Checker].snap = row]
        PROVE  proc' = [proc EXCEPT ![Checker] = e]
    BY <2>6, <1>y, <1>z DEF Entry
  <2>7. End(Checker) \/ proc' = [proc EXCEPT ![Checker] = e]
    BY <1>19, <2>6 DEF RefreshPayment
  <2> HIDE DEF e
  <2>8. ProcsBacked' /\ JobsOwned'
    BY <2>1, <2>2, <2>5, <2>7, <1>f, <1>s, <1>y, <1>z, PutEntry
  <2> QED
    BY <2>1, <2>8, <1>a, <1>c, <1>u, <1>t
<1>20. ASSUME CompletePayment PROVE PaidInv'
  <2>1. /\ UNCHANGED <<purchase, escrow, mails, order, pc>>
        /\ UNCHANGED job /\ UNCHANGED listed
    BY <1>20 DEF CompletePayment, reqs
  <2>2. job[Checker] = "none"
    BY <1>20, <1>j, <1>z DEF CompletePayment, Owns
  <2>3. proc[Checker].code = 2 /\ Paid(proc[Checker].order)
    BY <1>20, <1>z DEF CompletePayment, ProcsBacked, Backed
  <2>4. Step(Checker, "readbuy") \/ Step(Checker, "notify") \/ End(Checker)
    BY <1>20 DEF CompletePayment
  <2>5. ProcsBacked' /\ JobsOwned'
    BY <2>1, <2>2, <2>3, <2>4, <1>e, <1>f, <1>z DEF ProcSteps
  <2> DEFINE s == [proc[Checker].snap EXCEPT !.status = "completed"]
  <2>6. s \in Payment
    BY <1>x, <1>z DEF Payment, PaymentStatus
  <2>7. \/ UNCHANGED payment
        \/ \E row \in SaveOutcomes(payment[proc[Checker].order], s) :
              payment' = [payment EXCEPT ![proc[Checker].order] = row]
    BY <1>20 DEF CompletePayment
  <2> HIDE DEF s
  <2>8. \A q \in Requests : payment'[q].status = "completed" => Paid(q)'
    <3>1. CASE UNCHANGED payment
      BY <3>1, <1>s DEF PaidBacked
    <3>2. ASSUME NEW row \in SaveOutcomes(payment[proc[Checker].order], s),
                 payment' = [payment EXCEPT ![proc[Checker].order] = row]
          PROVE  \A q \in Requests : payment'[q].status = "completed" => Paid(q)'
      BY <2>3, <2>6, <3>2, <1>s, <1>x, <1>z, SavePaid
    <3> QED
      BY <2>7, <3>1, <3>2
  <2>9. PaidBacked'
    BY <2>1, <2>8, <1>s, <1>m DEF PaidBacked
  <2> QED
    BY <2>1, <2>5, <2>9, <1>c, <1>u, <1>t
<1>21. ASSUME CompletePurchase PROVE PaidInv'
  <2>1. UNCHANGED <<payment, escrow, mails, order, pc>> /\ UNCHANGED listed
    BY <1>21 DEF CompletePurchase, reqs
  <2>2. job[Checker] = "none"
    BY <1>21, <1>j, <1>z DEF CompletePurchase, Owns
  <2>3. Paid(proc[Checker].order)
    BY <1>21, <1>z DEF CompletePurchase, ProcsBacked, Backed
  <2>4. \A q \in Requests :
          purchase'[q] = "COMPLETED" => purchase[q] = "COMPLETED" \/ q = proc[Checker].order
    BY <1>21, <1>y DEF CompletePurchase
  <2>5. PaidBacked'
    BY <2>1, <2>3, <2>4, <1>s, <1>m DEF PaidBacked
  <2>6. ASSUME UNCHANGED job, End(Checker)
        PROVE  ProcsBacked' /\ JobsOwned'
    BY <2>2, <2>6, <1>f, <1>z
  <2>7. ASSUME job' = [job EXCEPT ![Checker] = "check"] /\ Step(Checker, "escrow")
        PROVE  ProcsBacked' /\ JobsOwned'
    <3>1. \A x \in Procs : job'[x] = job[x] \/ (x = Checker /\ job'[x] = "check")
      BY <2>7, <1>y
    <3>2. "escrow" \in ProcSteps /\ Owns(Checker, "escrow")
      BY DEF ProcSteps, Owns
    <3> QED
      BY <2>7, <3>1, <3>2, <1>s, <1>y, <1>z, GoOn
  <2> QED
    BY <1>21, <2>1, <2>5, <2>6, <2>7, <1>c, <1>u, <1>t DEF CompletePurchase
<1>22. ASSUME AwaitEscrow PROVE PaidInv'
  <2>1. /\ UNCHANGED <<purchase, payment, escrow, mails, order, pc>>
        /\ UNCHANGED job /\ UNCHANGED listed
        /\ job[Checker] = "none" /\ Step(Checker, "notify")
    BY <1>22 DEF AwaitEscrow, db, reqs
  <2>2. ProcsBacked' /\ JobsOwned'
    BY <2>1, <1>e, <1>z DEF ProcSteps
  <2> QED
    BY <2>1, <2>2, <1>a, <1>c, <1>u, <1>t
<1>r. ASSUME ReadPurchase PROVE PaidInv'
  <2>1. /\ UNCHANGED <<purchase, payment, escrow, mails, order, pc>>
        /\ UNCHANGED job /\ UNCHANGED listed
    BY <1>r DEF ReadPurchase, db, reqs
  <2>2. job[Checker] = "none"
    BY <1>r, <1>j, <1>z DEF ReadPurchase, Owns
  <2>3. proc[Checker].code = 2
    BY <1>r, <1>z DEF ReadPurchase, ProcsBacked, Backed
  <2>4. Step(Checker, "notify") \/ Step(Checker, "savebuy")
    BY <1>r DEF ReadPurchase
  <2>5. ProcsBacked' /\ JobsOwned'
    BY <2>1, <2>2, <2>3, <2>4, <1>e, <1>z DEF ProcSteps
  <2> QED
    BY <2>1, <2>5, <1>a, <1>c, <1>u, <1>t
<1>23. ASSUME ExpirePayment PROVE PaidInv'
  <2>1. UNCHANGED <<purchase, payment, escrow, mails, order, pc>> /\ UNCHANGED job
    BY <1>23 DEF ExpirePayment, db, reqs
  <2>2. job[Cleaner] = "none"
    BY <1>23, <1>j, <1>z DEF ExpirePayment, Owns
  <2>3. PICK q \in Requests : Take(Cleaner, q, "failpay", 3)
    BY <1>23 DEF ExpirePayment, Todo
  <2>4. ProcsBacked' /\ JobsOwned'
    BY <2>1, <2>2, <2>3, <1>s, <1>y, <1>z, Takes DEF ProcSteps, OrderCodes
  <2>5. ListsBacked'
    BY <2>3, <1>s, <1>y, <1>z, Drops DEF Take
  <2> QED
    BY <2>1, <2>4, <2>5, <1>a, <1>c, <1>t
<1>24. ASSUME Crash PROVE PaidInv'
  <2>1. PaidBacked' /\ UNCHANGED order
    BY <1>24, <1>a DEF Crash, db
  <2>2. NotYetOrdered'
    BY <1>24 DEF Crash, NotYetOrdered
  <2>3. \A p \in Procs : /\ job'[p] = "none" /\ proc'[p].code = 0
                         /\ proc'[p].snap.status = "none"
                         /\ proc'[p].pc \in {"done", "idle"}
    BY <1>24 DEF Crash, Idle, NoPayment
  <2>4. \A c \in Crons, q \in Requests : listed'[c][q].status = "none"
    BY <1>24 DEF Crash, NoPayment
  <2>5. ProcsBacked' /\ JobsOwned'
    BY <2>3 DEF ProcsBacked, Backed, JobsOwned
  <2>6. ListsBacked'
    BY <2>4 DEF ListsBacked
  <2> QED
    BY <2>1, <2>2, <2>5, <2>6, <1>t
<1>25. ASSUME UNCHANGED vars PROVE PaidInv'
  BY <1>25, <1>a, <1>b, <1>c, <1>u, <1>t DEF vars
<1>26. ASSUME NEW p \in Procs, ProcStep(p) PROVE PaidInv'
  BY <1>26, <1>8, <1>9, <1>10, <1>11, <1>15, <1>16, <1>17, <1>18, <1>19, <1>20, <1>21,
     <1>22, <1>23, <1>r DEF ProcStep, HandlerStep, CronStep, CheckerStep
<1> QED
  BY <1>1, <1>2, <1>3, <1>4, <1>5, <1>6, <1>7, <1>12, <1>13, <1>14, <1>24, <1>25, <1>26
     DEF Next, RequestStep, JobStep, Resting

\* Nothing is ever treated as paid that PalmPay was not paid for.
THEOREM PaidAlwaysBacked == Spec => []PaidBacked
<1>1. PaidInv => PaidBacked
  BY DEF PaidInv
<1> QED
  BY <1>1, InitPaidInv, NextPaidInv, PTL DEF Spec
=============================================================================
