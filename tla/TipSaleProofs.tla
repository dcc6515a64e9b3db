---------------------------- MODULE TipSaleProofs ----------------------------
(***************************************************************************)
(* TipPurchase for every set of requests and deliveries, every assignment  *)
(* of buyers and idempotency keys and every number of crashes: a buyer has *)
(* one purchase of the tip and it one escrow, a deleted purchase leaves    *)
(* nothing behind, the checkout URLs given out are recorded, and a key     *)
(* opens one order.                                                        *)
(*                                                                         *)
(* None of the four is inductive.  What makes them so is what the open     *)
(* transactions hold (the unique keys they have inserted, the rows they    *)
(* delete) and what handlers, crons and lists carry of the rows they will  *)
(* overwrite.                                                              *)
(***************************************************************************)
EXTENDS TipPurchaseProofs

\* A process works on a payment.
Working(e) == e.pc \notin {"idle", "done", "next"}

\* An entity in memory is of a payment in the table, and has its transaction
\* id and its URL, which nothing changes.
Carried(s, q) ==
    /\ s.status # "none" /\ Visible(q)
    /\ s.txn = payment[q].txn /\ s.url = payment[q].url

ProcsCarry == \A p \in Procs : Working(proc[p]) => Carried(proc[p].snap, proc[p].order)
ListsCarry ==
    \A c \in Crons, q \in Requests :
        listed[c][q].status # "none" => Carried(listed[c][q], q)

\* A handler that has saved the purchase and not committed keeps it in the table.
Settling(e) == e.pc = "commit" /\ e.snap.linked /\ Settles(e.code)
Kept(q) == purchase[q] # "none" /\ ~DeleteLocks(q)
HandlersHold == \A d \in Deliveries : Settling(proc[d]) => Kept(proc[d].order)

\* A request deletes one purchase, of its own buyer, that no escrow refers to.
Victims ==
    \A r \in Requests :
        /\ victim[r] # {} => pc[r] \in InTx
        /\ \A q \in victim[r] : Owner[q] = Owner[r] /\ \A t \in victim[r] : t = q
        /\ pc[r] \in Deleted => \A q \in victim[r] : escrow[q] = 0

\* A request that has inserted its purchase holds the key (tip, buyer).
SlotsHeld ==
    \A r \in Requests : pc[r] \in Inserted =>
        /\ \A q \in Rows : Owner[q] = Owner[r] => q \in victim[r]
        /\ \A q \in Requests : pc[q] \in Inserted /\ Owner[q] = Owner[r] => q = r

\* Only an answered request has a payment in the table.
Uncommitted == \A r \in Requests : pc[r] # "answered" => ~Visible(r)

\* The order number is a unique key, held by those that have inserted it.
KeysUnique ==
    \A q, t \in Requests : Visible(q) /\ Visible(t) /\ Ref[q] = Ref[t] => q = t
KeysHeld ==
    \A r \in Requests : pc[r] \in Charged =>
        \A q \in Requests : Ref[q] = Ref[r] =>
            ~Visible(q) /\ (pc[q] \in Charged => q = r)

\* A payment with a transaction id, or about to get one, has an order.
Opened ==
    \A r \in Requests :
        /\ payment[r].url => payment[r].txn
        /\ payment[r].txn => order[r] # NoOrder
        /\ pc[r] = "finish" /\ answer[r] # "failed" => order[r] # NoOrder

\* Every URL given out belongs to a recorded payment with an order.
Recorded(u) == \A q \in u : order[q] # NoOrder /\ Visible(q) /\ payment[q].txn
UrlsRecorded == \A r \in Requests : Recorded(shown[r])

\* Until the process dies, an order is recorded or about to be.
OrdersKept ==
    crashes = 0 =>
        \A r \in Requests : order[r] # NoOrder => pc[r] = "finish" \/ Visible(r)

RowInv ==
    /\ OneSale /\ NoOrphans /\ Victims /\ SlotsHeld
    /\ Uncommitted /\ KeysUnique /\ KeysHeld /\ Opened /\ UrlsRecorded /\ OrdersKept

SaleInv == TypeOK /\ RowInv /\ ProcsCarry /\ ListsCarry /\ HandlersHold

-----------------------------------------------------------------------------
(* What follows from the invariant *)

LEMMA SaleInvShown == SaleInv => ShownIsRecorded
<1> SUFFICES ASSUME SaleInv PROVE ShownIsRecorded
  OBVIOUS
<1>1. \A r \in Requests : shown[r] \in SUBSET Requests
  BY DEF SaleInv, TypeOK, RequestsOK
<1> QED
  BY <1>1 DEF SaleInv, RowInv, UrlsRecorded, Recorded, KeysUnique, ShownIsRecorded

LEMMA SaleInvOneOrder == SaleInv => OneOrderPerKey
<1> SUFFICES ASSUME SaleInv, crashes = 0 PROVE OneOrderPerKey
  BY DEF OneOrderPerKey
<1>1. \A r \in Requests : order[r] # NoOrder => pc[r] = "finish" \/ Visible(r)
  BY DEF SaleInv, RowInv, OrdersKept
<1>2. ASSUME NEW r \in Requests, NEW s \in Requests, Ref[r] = Ref[s],
             order[r] # NoOrder, order[s] # NoOrder
      PROVE  r = s
  <2>1. CASE pc[r] = "finish"
    BY <1>1, <1>2, <2>1 DEF SaleInv, RowInv, KeysHeld, Charged
  <2>2. CASE pc[s] = "finish"
    BY <1>1, <1>2, <2>2 DEF SaleInv, RowInv, KeysHeld, Charged
  <2>3. CASE Visible(r) /\ Visible(s)
    BY <1>2, <2>3 DEF SaleInv, RowInv, KeysUnique
  <2> QED
    BY <1>1, <1>2, <2>1, <2>2, <2>3
<1> QED
  BY <1>1, <1>2 DEF OneOrderPerKey

\* The initial state satisfies the invariant.
LEMMA InitSaleInv == Init => SaleInv
<1> SUFFICES ASSUME Init PROVE SaleInv
  OBVIOUS
<1>1. TypeOK
  BY InitTypeOK
<1>2. \A p \in Procs : ~Working(proc[p]) /\ ~Settling(proc[p])
  BY DEF Init, Working, Settling, Idle
<1>3. ProcsCarry /\ HandlersHold
  BY <1>2 DEF ProcsCarry, HandlersHold, Procs
<1>4. ListsCarry
  BY DEF Init, ListsCarry, NoPayment
<1>5. Rows = {} /\ \A q \in Requests : ~Visible(q)
  BY DEF Init, Rows, Visible, NoPayment
<1>6. OneSale /\ NoOrphans /\ Victims /\ SlotsHeld
  BY <1>5 DEF Init, OneSale, NoOrphans, Victims, SlotsHeld, Deleted, Inserted, NoPayment
<1>7. Uncommitted /\ KeysUnique /\ KeysHeld
  BY <1>5 DEF Init, Uncommitted, KeysUnique, KeysHeld, Charged
<1>8. Opened /\ UrlsRecorded /\ OrdersKept
  BY DEF Init, Opened, UrlsRecorded, Recorded, OrdersKept, NoPayment
<1> QED
  BY <1>1, <1>3, <1>4, <1>6, <1>7, <1>8 DEF SaleInv, RowInv

-----------------------------------------------------------------------------
(* Steps of handlers, crons and jobs: no row appears or goes, the columns the *)
(* invariant is about are kept, and an escrow is inserted at most once.       *)

RowsMove ==
    \A q \in Requests :
        /\ purchase'[q] = "none" <=> purchase[q] = "none"
        /\ payment'[q].linked => payment[q].linked
        /\ payment'[q].status = "none" <=> payment[q].status = "none"
        /\ payment'[q].txn = payment[q].txn
        /\ payment'[q].url = payment[q].url
        /\ \/ escrow'[q] = escrow[q]
           \/ escrow[q] = 0 /\ escrow'[q] = 1 /\ Kept(q)

\* Whoever works after the step carries an entity of the table before it.
ProcsMove ==
    \A p \in Procs :
        /\ Working(proc'[p]) => Carried(proc'[p].snap, proc'[p].order)
        /\ p \in Deliveries /\ Settling(proc'[p]) => Kept(proc'[p].order)

ListsMove ==
    \A c \in Crons, q \in Requests :
        listed'[c][q].status # "none" => Carried(listed'[c][q], q)

LEMMA RowsMoveSafe ==
    ASSUME SaleInv, UNCHANGED <<pc, victim, answer, shown, order, crashes>>, RowsMove
    PROVE  RowInv'
<1> USE DEF SaleInv, RowInv
<1>1. OneSale'
  BY DEF OneSale, RowsMove, Rows, TypeOK, RowsOK
<1>2. NoOrphans'
  BY DEF NoOrphans, RowsMove, Kept
<1>3. Victims'
  BY DEF Victims, RowsMove, Kept, DeleteLocks, TypeOK, RequestsOK
<1>4. SlotsHeld'
  BY DEF SlotsHeld, RowsMove, Rows
<1>5. Uncommitted' /\ KeysUnique' /\ KeysHeld'
  BY DEF Uncommitted, KeysUnique, KeysHeld, RowsMove, Visible
<1>6. Opened'
  BY DEF Opened, RowsMove
<1>7. UrlsRecorded' /\ OrdersKept'
  BY DEF UrlsRecorded, Recorded, OrdersKept, RowsMove, Visible, TypeOK, RequestsOK
<1> QED
  BY <1>1, <1>2, <1>3, <1>4, <1>5, <1>6, <1>7

LEMMA MoveSafe ==
    ASSUME SaleInv, TypeOK', UNCHANGED <<pc, victim, answer, shown, order, crashes>>,
           RowsMove, ProcsMove, ListsMove
    PROVE  SaleInv'
<1>1. RowInv'
  BY RowsMoveSafe
<1>2. ASSUME NEW s, NEW q \in Requests, Carried(s, q)
      PROVE  /\ s.status # "none" /\ payment'[q].status # "none"
             /\ s.txn = payment'[q].txn /\ s.url = payment'[q].url
  BY <1>2 DEF Carried, Visible, RowsMove
<1>3. \A p \in Procs : proc'[p].order \in Requests
  BY DEF TypeOK, ProcsOK, Entry
<1>4. ProcsCarry'
  BY <1>2, <1>3 DEF ProcsCarry, ProcsMove, Carried, Working, Visible
<1>5. ListsCarry'
  BY <1>2 DEF ListsCarry, ListsMove, Carried, Visible
<1>6. HandlersHold'
  BY <1>3 DEF HandlersHold, ProcsMove, RowsMove, Kept, DeleteLocks, Settling, Procs
<1> QED
  BY <1>1, <1>4, <1>5, <1>6 DEF SaleInv

\* Tables and lists that do not change.
LEMMA RowsStay == UNCHANGED db => RowsMove
BY DEF db, RowsMove

LEMMA ListsStay == ListsCarry /\ UNCHANGED listed => ListsMove
BY DEF ListsCarry, ListsMove
LEMMA ProcsStay == SaleInv /\ UNCHANGED proc => ProcsMove
BY DEF SaleInv, ProcsCarry, HandlersHold, ProcsMove

\* A process that works on a payment goes on with it, or is done with it.
LEMMA StepMove ==
    ASSUME SaleInv, NEW p \in Procs, NEW s \in ProcSteps, Step(p, s), Working(proc[p]),
           s = "commit" /\ p \in Deliveries /\ proc[p].snap.linked /\ Settles(proc[p].code)
               => Kept(proc[p].order)
    PROVE  ProcsMove
<1>1. ASSUME NEW x \in Procs
      PROVE  proc'[x] = IF x = p THEN [proc[p] EXCEPT !.pc = s] ELSE proc[x]
  BY DEF Step, SaleInv, TypeOK, ProcsOK
<1>2. proc[p] \in Entry
  BY DEF SaleInv, TypeOK, ProcsOK
<1>3. /\ [proc[p] EXCEPT !.pc = s].pc = s
      /\ [proc[p] EXCEPT !.pc = s].order = proc[p].order
      /\ [proc[p] EXCEPT !.pc = s].code = proc[p].code
      /\ [proc[p] EXCEPT !.pc = s].snap = proc[p].snap
  BY <1>2 DEF Entry
<1> QED
  BY <1>1, <1>3 DEF SaleInv, ProcsCarry, HandlersHold, ProcsMove, Settling

LEMMA EndMove ==
    ASSUME SaleInv, NEW p \in Procs, End(p)
    PROVE  ProcsMove
<1>1. ASSUME NEW x \in Procs
      PROVE  \/ x # p /\ proc'[x] = proc[x]
             \/ ~Working(proc'[x]) /\ ~Settling(proc'[x])
  BY DEF End, Idle, Working, Settling, SaleInv, TypeOK, ProcsOK
<1> QED
  BY <1>1 DEF SaleInv, ProcsCarry, HandlersHold, ProcsMove

\* A process that is no handler takes up a payment.
LEMMA PutMove ==
    ASSUME SaleInv, NEW p \in Procs, NEW e, proc' = [proc EXCEPT ![p] = e],
           Working(e) => Carried(e.snap, e.order), e.pc # "commit"
    PROVE  ProcsMove
<1>1. ASSUME NEW x \in Procs PROVE proc'[x] = IF x = p THEN e ELSE proc[x]
  BY DEF SaleInv, TypeOK, ProcsOK
<1> QED
  BY <1>1 DEF SaleInv, ProcsCarry, HandlersHold, ProcsMove, Settling

\* A cron takes a listed payment.
LEMMA TakeMove ==
    ASSUME SaleInv, NEW c \in Crons, NEW q \in Todo(c), NEW s \in ProcSteps, s # "commit",
           NEW k, Take(c, q, s, k)
    PROVE  ProcsMove
<1>1. Carried(listed[c][q], q) /\ c \in Procs
  BY DEF SaleInv, ListsCarry, Todo, Crons, Procs
<1> DEFINE e == [pc |-> s, order |-> q, code |-> k, snap |-> listed[c][q]]
<1>2. proc' = [proc EXCEPT ![c] = e]
  BY DEF Take
<1>3. e.pc = s /\ e.order = q /\ e.snap = listed[c][q]
  OBVIOUS
<1> HIDE DEF e
<1> QED
  BY <1>1, <1>2, <1>3, PutMove

LEMMA DropMove ==
    ASSUME SaleInv, NEW c \in Crons, NEW q \in Requests, Drop(c, q)
    PROVE  ListsMove
<1>1. ASSUME NEW k \in Crons, NEW r \in Requests
      PROVE  listed'[k][r] \in {listed[k][r], NoPayment}
  BY DEF Drop, SaleInv, TypeOK, ProcsOK
<1> QED
  BY <1>1 DEF SaleInv, ListsCarry, ListsMove, NoPayment

\* save(payment) with an entity of the table.
LEMMA SaveMove ==
    ASSUME SaleInv, NEW q \in Requests, NEW entity \in Payment, Carried(entity, q),
           NEW row \in SaveOutcomes(payment[q], entity),
           payment' = [payment EXCEPT ![q] = row], UNCHANGED escrow,
           \A r \in Requests : purchase'[r] = "none" <=> purchase[r] = "none"
    PROVE  RowsMove
<1>1. /\ payment \in [Requests -> Payment] /\ payment[q] \in Payment
  BY DEF SaleInv, TypeOK, RowsOK
<1>2. /\ row.linked => payment[q].linked
      /\ row.status # "none" /\ payment[q].status # "none"
      /\ row.txn = payment[q].txn /\ row.url = payment[q].url
  BY <1>1 DEF SaveOutcomes, Carried, Visible, Payment
<1>3. ASSUME NEW r \in Requests PROVE payment'[r] = IF r = q THEN row ELSE payment[r]
  BY <1>1
<1> QED
  BY <1>2, <1>3 DEF RowsMove

\* A flag set in a payments row.
LEMMA FlagMove ==
    ASSUME SaleInv, NEW q \in Requests, UNCHANGED <<purchase, escrow>>,
           \/ payment' = [payment EXCEPT ![q].email = TRUE]
           \/ payment' = [payment EXCEPT ![q].hook = TRUE]
    PROVE  RowsMove
<1>1. payment \in [Requests -> Payment]
  BY DEF SaleInv, TypeOK, RowsOK
<1>2. ASSUME NEW r \in Requests
      PROVE  /\ payment'[r].linked = payment[r].linked
             /\ payment'[r].status = payment[r].status
             /\ payment'[r].txn = payment[r].txn
             /\ payment'[r].url = payment[r].url
  BY <1>1 DEF Payment
<1> QED
  BY <1>2 DEF RowsMove
-----------------------------------------------------------------------------
(* Handlers, notifications, jobs and crons *)

LEMMA HandlerSafe ==
    ASSUME SaleInv, TypeOK', NEW d \in Deliveries, ReceiveWebhook(d) \/ HandlerStep(d)
    PROVE  SaleInv'
<1>y. /\ d \in Procs /\ proc[d] \in Entry /\ proc[d].order \in Requests
      /\ proc[d].snap \in Payment
      /\ Working(proc[d]) => Carried(proc[d].snap, proc[d].order)
  BY DEF SaleInv, TypeOK, ProcsOK, Entry, Procs, ProcsCarry
<1>r. /\ payment \in [Requests -> Payment] /\ proc \in [Procs -> Entry]
      /\ purchase \in [Requests -> PurchaseStatus \cup {"none"}]
  BY DEF SaleInv, TypeOK, ProcsOK, RowsOK
<1>1. CASE ReceiveWebhook(d)
  <2>1. RowsMove /\ ListsMove /\ UNCHANGED <<pc, victim, answer, shown, order, crashes>>
    BY <1>1, RowsStay, ListsStay DEF ReceiveWebhook, SaleInv, reqs
  <2>2. ASSUME NEW q \in Requests, NEW c, Visible(q), payment[q].txn,
               proc' = [proc EXCEPT ![d] =
                 [pc |-> "save", order |-> q, code |-> c,
                  snap |-> [payment[q] EXCEPT !.status = mapPalmpayStatus(c)]]]
        PROVE  ProcsMove
    <3> DEFINE e == [pc |-> "save", order |-> q, code |-> c,
                     snap |-> [payment[q] EXCEPT !.status = mapPalmpayStatus(c)]]
    <3>1. payment[q] \in Payment /\ mapPalmpayStatus(c) # "none"
      BY <1>r, MapType DEF PaymentStatus
    <3>2. Carried([payment[q] EXCEPT !.status = mapPalmpayStatus(c)], q)
      BY <2>2, <3>1 DEF Carried, Payment
    <3>3. Carried(e.snap, e.order) /\ e.pc = "save"
      BY <3>2
    <3> HIDE DEF e
    <3> QED
      BY <1>y, <2>2, <3>3, PutMove DEF e
  <2>3. ProcsMove
    BY <1>1, <1>y, <2>2, EndMove DEF ReceiveWebhook
  <2> QED
    BY <2>1, <2>3, MoveSafe
<1>2. CASE SaveWebhookPayment(d)
  <2>1. RowsMove /\ ListsMove /\ UNCHANGED <<pc, victim, answer, shown, order, crashes>>
    BY <1>2, RowsStay, ListsStay DEF SaveWebhookPayment, SaleInv, reqs
  <2>2. ProcsMove
    BY <1>2, <1>y, StepMove, EndMove DEF SaveWebhookPayment, Working, ProcSteps
  <2> QED
    BY <2>1, <2>2, MoveSafe
<1>3. CASE SaveWebhookPurchase(d)
  <2>1. RowsMove /\ ListsMove /\ UNCHANGED <<pc, victim, answer, shown, order, crashes>>
    BY <1>3, RowsStay, ListsStay DEF SaveWebhookPurchase, SaleInv, reqs
  <2>2. \/ End(d)
        \/ /\ Step(d, "commit")
           /\ proc[d].snap.linked /\ Settles(proc[d].code) => Kept(proc[d].order)
    BY <1>3 DEF SaveWebhookPurchase, Kept, PurchaseHeld
  <2>3. ProcsMove
    BY <1>3, <1>y, <2>2, StepMove, EndMove DEF SaveWebhookPurchase, Working, ProcSteps
  <2> QED
    BY <2>1, <2>3, MoveSafe
<1>4. CASE CommitWebhook(d)
  <2>1. ListsMove /\ UNCHANGED <<pc, victim, answer, shown, order, crashes>>
    BY <1>4, ListsStay DEF CommitWebhook, SaleInv, reqs
  <2>2. Settling(proc[d]) => purchase[proc[d].order] # "none"
    BY DEF SaleInv, HandlersHold, Kept
  <2>3. \A r \in Requests : purchase'[r] = "none" <=> purchase[r] = "none"
    BY <1>4, <1>y, <1>r, <2>2 DEF CommitWebhook, Settling, SettledAs
  <2>4. RowsMove
    BY <1>4, <1>y, <2>3, SaveMove DEF CommitWebhook, Working
  <2>5. ProcsMove
    BY <1>4, <1>y, StepMove, EndMove DEF CommitWebhook, Working, ProcSteps
  <2> QED
    BY <2>1, <2>4, <2>5, MoveSafe
<1> QED
  BY <1>1, <1>2, <1>3, <1>4 DEF HandlerStep

LEMMA NotifySafe ==
    ASSUME SaleInv, TypeOK', NEW p \in Procs, NotifyStep(p)
    PROVE  SaleInv'
<1>1. ListsMove /\ UNCHANGED <<pc, victim, answer, shown, order, crashes>>
  BY ListsStay DEF NotifyStep, SendMail, MarkMailed, SendAdminWebhook, SaleInv, reqs
<1>2. ProcsMove
  BY StepMove, EndMove
     DEF NotifyStep, SendMail, MarkMailed, SendAdminWebhook, Working, ProcSteps
<1>3. proc[p].order \in Requests
  BY DEF SaleInv, TypeOK, ProcsOK, Entry
<1>4. RowsMove
  BY <1>3, RowsStay, FlagMove DEF NotifyStep, SendMail, MarkMailed, SendAdminWebhook, db
<1> QED
  BY <1>1, <1>2, <1>4, MoveSafe

LEMMA JobSafe ==
    ASSUME SaleInv, TypeOK', NEW p \in Procs, JobStep(p)
    PROVE  SaleInv'
<1>1. /\ ListsMove /\ ProcsMove
      /\ UNCHANGED <<pc, victim, answer, shown, order, crashes>>
  BY ListsStay, ProcsStay DEF JobStep, CheckEscrow, InsertEscrow, SaleInv, reqs
<1>2. CASE CheckEscrow(p)
  BY <1>1, <1>2, RowsStay, MoveSafe DEF CheckEscrow
<1>3. CASE InsertEscrow(p)
  <2>1. escrow \in [Requests -> Nat] /\ proc[p].order \in Requests
    BY DEF SaleInv, TypeOK, RowsOK, ProcsOK, Entry
  <2>2. ASSUME NEW q \in Requests
        PROVE  \/ escrow'[q] = escrow[q]
               \/ escrow[q] = 0 /\ escrow'[q] = 1 /\ Kept(q)
    BY <1>3, <2>1 DEF InsertEscrow, UniqueEscrow, Kept
  <2>3. RowsMove
    BY <1>3, <2>2 DEF InsertEscrow, RowsMove
  <2> QED
    BY <1>1, <2>3, MoveSafe
<1> QED
  BY <1>2, <1>3 DEF JobStep

LEMMA CronSafe ==
    ASSUME SaleInv, TypeOK', NEW c \in Crons, ListPending(c) \/ CronStep(c)
    PROVE  SaleInv'
<1>y. /\ c \in Procs /\ proc[c] \in Entry /\ proc[c].order \in Requests
      /\ proc[c].snap \in Payment
      /\ Working(proc[c]) => Carried(proc[c].snap, proc[c].order)
      /\ c \notin Deliveries
  BY ProcsAssumption DEF SaleInv, TypeOK, ProcsOK, Entry, Procs, Crons, ProcsCarry
<1>1. CASE ListPending(c)
  <2>1. RowsMove /\ UNCHANGED <<pc, victim, answer, shown, order, crashes>>
    BY <1>1, RowsStay DEF ListPending, reqs
  <2>2. ASSUME NEW k \in Crons, NEW q \in Requests
        PROVE  \/ listed'[k][q] = listed[k][q]
               \/ listed'[k][q].status = "none"
               \/ listed'[k][q] = payment[q]
    BY <1>1 DEF ListPending, NoPayment, SaleInv, TypeOK, ProcsOK
  <2>3. ListsMove
    BY <2>2 DEF SaleInv, ListsCarry, ListsMove, Carried, Visible
  <2> DEFINE e == [proc[c] EXCEPT !.pc = "next"]
  <2>4. e.pc = "next" /\ proc' = [proc EXCEPT ![c] = e]
    BY <1>1, <1>y DEF ListPending, Step, Entry, SaleInv, TypeOK, ProcsOK
  <2> HIDE DEF e
  <2>5. ProcsMove
    BY <1>y, <2>4, PutMove DEF Working
  <2> QED
    BY <2>1, <2>3, <2>5, MoveSafe
<1>2. CASE EndRun(c)
  <2>1. /\ RowsMove /\ ListsMove
        /\ UNCHANGED <<pc, victim, answer, shown, order, crashes>>
    BY <1>2, RowsStay, ListsStay DEF EndRun, SaleInv, reqs
  <2> DEFINE e == Idle("idle", AnyRequest)
  <2>2. e.pc = "idle" /\ proc' = [proc EXCEPT ![c] = e]
    BY <1>2 DEF EndRun, Idle
  <2> HIDE DEF e
  <2>3. ProcsMove
    BY <1>y, <2>2, PutMove DEF Working
  <2> QED
    BY <2>1, <2>3, MoveSafe
<1>3. CASE FailPayment(c)
  <2>1. ListsMove /\ UNCHANGED <<pc, victim, answer, shown, order, crashes>>
    BY <1>3, ListsStay DEF FailPayment, SaleInv, reqs
  <2>2. ProcsMove
    BY <1>3, <1>y, StepMove, EndMove DEF FailPayment, Working, ProcSteps
  <2> DEFINE s == [proc[c].snap EXCEPT !.status = "failed"]
  <2>3. Carried(s, proc[c].order) /\ s \in Payment
    BY <1>3, <1>y DEF FailPayment, Working, Carried, Payment, PaymentStatus
  <2>4. \/ UNCHANGED db
        \/ /\ UNCHANGED <<purchase, escrow>>
           /\ \E row \in SaveOutcomes(payment[proc[c].order], s) :
                  payment' = [payment EXCEPT ![proc[c].order] = row]
    BY <1>3 DEF FailPayment, db
  <2> HIDE DEF s
  <2>5. RowsMove
    BY <1>y, <2>3, <2>4, RowsStay, SaveMove
  <2> QED
    BY <2>1, <2>2, <2>5, MoveSafe
<1>4. CASE FailPurchase(c)
  <2>1. ListsMove /\ UNCHANGED <<pc, victim, answer, shown, order, crashes>>
    BY <1>4, ListsStay DEF FailPurchase, SaleInv, reqs
  <2>2. ProcsMove
    BY <1>4, <1>y, EndMove DEF FailPurchase
  <2>3. RowsMove
    BY <1>4, <1>y DEF FailPurchase, RowsMove, SaleInv, TypeOK, RowsOK
  <2> QED
    BY <2>1, <2>2, <2>3, MoveSafe
<1> QED
  BY <1>1, <1>2, <1>3, <1>4 DEF CronStep

LEMMA CheckerSafe ==
    ASSUME SaleInv, TypeOK', CheckerStep \/ ExpirePayment
    PROVE  SaleInv'
<1>y. /\ Checker \in Procs /\ Checker \in Crons /\ Cleaner \in Crons
      /\ Checker \notin Deliveries
      /\ proc[Checker] \in Entry /\ proc[Checker].order \in Requests
      /\ proc[Checker].snap \in Payment
      /\ Working(proc[Checker]) => Carried(proc[Checker].snap, proc[Checker].order)
  BY ProcsAssumption DEF SaleInv, TypeOK, ProcsOK, Entry, Procs, Crons, ProcsCarry
<1>0. UNCHANGED <<pc, victim, answer, shown, order, crashes>>
  BY DEF CheckerStep, QueryStatus, RefreshPayment, CompletePayment, ReadPurchase,
     CompletePurchase, AwaitEscrow, ExpirePayment, reqs
<1>1. CASE QueryStatus
  <2>1. RowsMove
    BY <1>1, RowsStay DEF QueryStatus
  <2>2. PICK q \in Todo(Checker) :
          /\ Drop(Checker, q)
          /\ \/ UNCHANGED proc
             \/ Take(Checker, q, "refresh", 2)
             \/ Take(Checker, q, "failpay", order[q])
    BY <1>1 DEF QueryStatus, Take
  <2>3. ListsMove
    BY <1>y, <2>2, DropMove DEF Todo
  <2>4. ProcsMove
    <3>1. CASE UNCHANGED proc
      BY <3>1, ProcsStay
    <3>2. CASE Take(Checker, q, "refresh", 2)
      BY <1>y, <2>2, <3>2, TakeMove DEF ProcSteps
    <3>3. CASE Take(Checker, q, "failpay", order[q])
      <4> DEFINE k == order[q]
      <4>1. Take(Checker, q, "failpay", k)
        BY <3>3
      <4> HIDE DEF k
      <4> QED
        BY <1>y, <2>2, <4>1, TakeMove DEF ProcSteps
    <3> QED
      BY <2>2, <3>1, <3>2, <3>3
  <2> QED
    BY <1>0, <2>1, <2>3, <2>4, MoveSafe
<1>2. CASE RefreshPayment
  <2>1. RowsMove /\ ListsMove
    BY <1>2, RowsStay, ListsStay DEF RefreshPayment, SaleInv
  <2> DEFINE row == payment[proc[Checker].order]
             e == [proc[Checker] EXCEPT !.pc = "savepay", !.snap = row]
  <2>2. /\ e.pc = "savepay" /\ e.snap = payment[proc[Checker].order]
        /\ e.order = proc[Checker].order
    BY <1>y DEF Entry
  <2>3. Visible(proc[Checker].order)
    BY <1>2, <1>y DEF RefreshPayment, Working, Carried
  <2>4. End(Checker) \/ proc' = [proc EXCEPT ![Checker] = e]
    BY <1>2, <1>y DEF RefreshPayment, Entry, SaleInv, TypeOK, ProcsOK
  <2> HIDE DEF e
  <2>5. Carried(e.snap, e.order)
    BY <2>2, <2>3 DEF Carried, Visible
  <2>6. ProcsMove
    BY <1>y, <2>2, <2>4, <2>5, EndMove, PutMove
  <2> QED
    BY <1>0, <2>1, <2>6, MoveSafe
<1>3. CASE CompletePayment
  <2>1. ListsMove
    BY <1>3, ListsStay DEF CompletePayment, SaleInv
  <2>2. ProcsMove
    BY <1>3, <1>y, StepMove, EndMove DEF CompletePayment, Working, ProcSteps
  <2> DEFINE s == [proc[Checker].snap EXCEPT !.status = "completed"]
  <2>3. Carried(s, proc[Checker].order) /\ s \in Payment
    BY <1>3, <1>y DEF CompletePayment, Working, Carried, Payment, PaymentStatus
  <2>4. \/ UNCHANGED db
        \/ /\ UNCHANGED <<purchase, escrow>>
           /\ \E row \in SaveOutcomes(payment[proc[Checker].order], s) :
                  payment' = [payment EXCEPT ![proc[Checker].order] = row]
    BY <1>3 DEF CompletePayment, db
  <2> HIDE DEF s
  <2>5. RowsMove
    BY <1>y, <2>3, <2>4, RowsStay, SaveMove
  <2> QED
    BY <1>0, <2>1, <2>2, <2>5, MoveSafe
<1>4. CASE ReadPurchase \/ AwaitEscrow
  <2>1. RowsMove /\ ListsMove
    BY <1>4, RowsStay, ListsStay DEF ReadPurchase, AwaitEscrow, SaleInv
  <2>2. ProcsMove
    BY <1>4, <1>y, StepMove DEF ReadPurchase, AwaitEscrow, Working, ProcSteps
  <2> QED
    BY <1>0, <2>1, <2>2, MoveSafe
<1>5. CASE CompletePurchase
  <2>1. ListsMove
    BY <1>5, ListsStay DEF CompletePurchase, SaleInv
  <2>2. ProcsMove
    BY <1>5, <1>y, StepMove, EndMove DEF CompletePurchase, Working, ProcSteps
  <2>3. RowsMove
    BY <1>5, <1>y DEF CompletePurchase, RowsMove, SaleInv, TypeOK, RowsOK
  <2> QED
    BY <1>0, <2>1, <2>2, <2>3, MoveSafe
<1>6. CASE ExpirePayment
  <2>1. RowsMove
    BY <1>6, RowsStay DEF ExpirePayment
  <2>2. PICK q \in Todo(Cleaner) : Take(Cleaner, q, "failpay", 3)
    BY <1>6 DEF ExpirePayment
  <2>3. ListsMove
    BY <1>y, <2>2, DropMove DEF Todo, Take
  <2>4. ProcsMove
    BY <1>y, <2>2, TakeMove DEF ProcSteps
  <2> QED
    BY <1>0, <2>1, <2>3, <2>4, MoveSafe
<1> QED
  BY <1>1, <1>2, <1>3, <1>4, <1>5, <1>6 DEF CheckerStep
-----------------------------------------------------------------------------
(* Requests: steps that write nothing, the gateway call, and commits *)

\* The tables, the processes and the lists do not change, and no request is
\* newly in the middle of a deletion: what the processes carry is unaffected.
LEMMA ProcsKept ==
    ASSUME SaleInv, UNCHANGED <<db, proc, listed>>,
           \A d \in Deliveries, r \in Requests : Settling(proc[d]) =>
               ~(proc[d].order \in victim'[r] /\ pc'[r] \in Deleted)
    PROVE  ProcsCarry' /\ ListsCarry' /\ HandlersHold'
<1>1. ProcsCarry' /\ ListsCarry'
  BY DEF SaleInv, ProcsCarry, ListsCarry, Carried, Visible, db
<1>2. HandlersHold'
  BY DEF SaleInv, HandlersHold, Kept, DeleteLocks, db
<1> QED
  BY <1>1, <1>2

\* A reply without a commit.
LEMMA ReplySafe ==
    ASSUME SaleInv, TypeOK', NEW r \in Requests, NEW u \in SUBSET Requests, Recorded(u),
           Reply(r, u), UNCHANGED <<db, order, proc, listed, crashes>>, pc[r] # "finish"
    PROVE  SaleInv'
<1>y. /\ pc \in [Requests -> RequestSteps] /\ victim \in [Requests -> SUBSET Requests]
      /\ answer \in [Requests -> {"none", "ok", "nourl", "failed"}]
      /\ shown \in [Requests -> SUBSET Requests]
  BY DEF SaleInv, TypeOK, RequestsOK
<1>1. ASSUME NEW q \in Requests
      PROVE  /\ pc'[q] = IF q = r THEN "answered" ELSE pc[q]
             /\ victim'[q] = IF q = r THEN {} ELSE victim[q]
             /\ answer'[q] = IF q = r THEN "none" ELSE answer[q]
             /\ shown'[q] = IF q = r THEN u ELSE shown[q]
  BY <1>y DEF Reply
<1>2. UNCHANGED <<purchase, payment, escrow, order, crashes>>
  BY DEF db
<1> USE DEF SaleInv, RowInv
<1>3. OneSale' /\ NoOrphans' /\ KeysUnique'
  BY <1>2 DEF OneSale, NoOrphans, KeysUnique, Rows, Visible
<1>4. Victims'
  BY <1>1, <1>2 DEF Victims, Deleted
<1>5. SlotsHeld' /\ KeysHeld'
  BY <1>1, <1>2 DEF SlotsHeld, KeysHeld, Rows, Visible, Inserted, Charged
<1>6. Uncommitted' /\ Opened' /\ OrdersKept'
  BY <1>1, <1>2 DEF Uncommitted, Opened, OrdersKept, Visible
<1>7. UrlsRecorded'
  BY <1>1, <1>2 DEF UrlsRecorded, Recorded, Visible
<1>8. ProcsCarry' /\ ListsCarry' /\ HandlersHold'
  BY <1>1, ProcsKept DEF HandlersHold, Kept, DeleteLocks
<1> QED
  BY <1>3, <1>4, <1>5, <1>6, <1>7, <1>8

\* A step inside the transaction: what it may delete, and the keys it holds.
LEMMA GotoSafe ==
    ASSUME SaleInv, TypeOK', NEW r \in Requests, NEW s \in InTx \ {"finish"}, Goto(r, s),
           UNCHANGED <<db, order, proc, listed, crashes>>,
           pc[r] \notin {"answered", "finish"},
           NEW v \in SUBSET Requests, victim' = [victim EXCEPT ![r] = v],
           \A q \in v : Owner[q] = Owner[r] /\ \A t \in v : t = q,
           s \in Deleted => \A q \in v :
               /\ escrow[q] = 0
               /\ \A d \in Deliveries : Settling(proc[d]) => proc[d].order # q,
           s \in Inserted =>
               /\ \A q \in Rows : Owner[q] = Owner[r] => q \in v
               /\ \A q \in Requests \ {r} : Owner[q] = Owner[r] => pc[q] \notin Inserted,
           s \in Charged => \A q \in Requests : Ref[q] = Ref[r] =>
               ~Visible(q) /\ (q # r => pc[q] \notin Charged)
    PROVE  SaleInv'
<1>y. /\ pc \in [Requests -> RequestSteps] /\ victim \in [Requests -> SUBSET Requests]
  BY DEF SaleInv, TypeOK, RequestsOK
<1>1. ASSUME NEW q \in Requests
      PROVE  /\ pc'[q] = IF q = r THEN s ELSE pc[q]
             /\ victim'[q] = IF q = r THEN v ELSE victim[q]
  BY <1>y DEF Goto
<1>2. UNCHANGED <<purchase, payment, escrow, order, crashes, answer, shown>>
  BY DEF db, Goto
<1> USE DEF SaleInv, RowInv
<1>3. OneSale' /\ NoOrphans' /\ KeysUnique' /\ UrlsRecorded'
  BY <1>2 DEF OneSale, NoOrphans, KeysUnique, Rows, Visible, UrlsRecorded, Recorded
<1>4. Victims'
  BY <1>1, <1>2 DEF Victims
<1>5. SlotsHeld'
  BY <1>1, <1>2 DEF SlotsHeld, Rows
<1>6. KeysHeld'
  BY <1>1, <1>2 DEF KeysHeld, Visible
<1>7. Uncommitted' /\ Opened' /\ OrdersKept'
  BY <1>1, <1>2 DEF Uncommitted, Opened, OrdersKept, Visible, InTx, Deleted
<1>8. ProcsCarry' /\ ListsCarry' /\ HandlersHold'
  BY <1>1, ProcsKept DEF HandlersHold, Kept, DeleteLocks
<1> QED
  BY <1>3, <1>4, <1>5, <1>6, <1>7, <1>8

\* The commit of a request: its own rows appear, its victim goes.
LEMMA CommitSafe ==
    ASSUME SaleInv, TypeOK', NEW r \in Requests, pc[r] \in Inserted,
           NEW s \in PurchaseStatus, NEW row \in Payment, CommitRequest(r, s, row),
           row.status # "none" => pc[r] \in Charged,
           pc[r] = "finish" => row.status # "none",
           row.url => row.txn, row.txn => order[r] # NoOrder,
           NEW u \in SUBSET Requests, u # {} => u = {r} /\ row.txn /\ row.status # "none",
           Reply(r, u), UNCHANGED <<order, proc, listed, crashes>>
    PROVE  SaleInv'
<1>y. /\ pc \in [Requests -> RequestSteps] /\ victim \in [Requests -> SUBSET Requests]
      /\ answer \in [Requests -> {"none", "ok", "nourl", "failed"}]
      /\ shown \in [Requests -> SUBSET Requests]
      /\ payment \in [Requests -> Payment]
  BY DEF SaleInv, TypeOK, RequestsOK, RowsOK
<1> DEFINE gone == victim[r] \ {r}
<1>0. /\ pc[r] \in Deleted /\ pc[r] # "answered"
      /\ "none" \notin PurchaseStatus
  BY DEF Inserted, Deleted, PurchaseStatus
<1>1. ASSUME NEW q \in Requests
      PROVE  /\ pc'[q] = IF q = r THEN "answered" ELSE pc[q]
             /\ victim'[q] = IF q = r THEN {} ELSE victim[q]
             /\ answer'[q] = IF q = r THEN "none" ELSE answer[q]
             /\ shown'[q] = IF q = r THEN u ELSE shown[q]
  BY <1>y DEF Reply
<1>2. ASSUME NEW q \in Requests
      PROVE  /\ purchase'[q] = IF q = r THEN s ELSE IF q \in gone THEN "none" ELSE purchase[q]
             /\ escrow'[q] = escrow[q]
  BY DEF CommitRequest
<1>3. ASSUME NEW q \in Requests, q # r
      PROVE  /\ payment'[q].status = payment[q].status
             /\ payment'[q].txn = payment[q].txn
             /\ payment'[q].url = payment[q].url
             /\ payment'[q].linked => payment[q].linked /\ q \notin gone
  BY <1>3, <1>y DEF CommitRequest, Payment
<1>4. payment'[r] = row /\ ~Visible(r)
  BY <1>0 DEF CommitRequest, SaleInv, RowInv, Uncommitted
<1>5. order' = order /\ crashes' = crashes /\ proc' = proc /\ listed' = listed
  OBVIOUS
<1> HIDE DEF gone
<1> USE DEF SaleInv, RowInv
<1>6. \A q \in gone : q # r /\ q \in victim[r] /\ escrow[q] = 0
  BY <1>0 DEF gone, Victims
<1>7. OneSale'
  <2>1. \A q \in Rows' : q # r => q \in Rows /\ q \notin victim[r]
    BY <1>0, <1>2 DEF Rows, gone
  <2>2. ASSUME NEW q \in Rows', q # r PROVE Owner[q] # Owner[r]
    BY <2>1, <2>2 DEF SlotsHeld
  <2>3. \A q \in Rows' : q \in Requests
    BY DEF Rows
  <2> QED
    BY <1>2, <2>1, <2>2, <2>3 DEF OneSale
<1>8. NoOrphans'
  BY <1>0, <1>2, <1>3, <1>6 DEF NoOrphans
<1>9. Victims'
  BY <1>y, <1>1, <1>2 DEF Victims, Deleted
<1>10. SlotsHeld'
  <2>1. ASSUME NEW q \in Requests, pc'[q] \in Inserted
        PROVE  q # r /\ pc[q] \in Inserted /\ victim'[q] = victim[q] /\ Owner[q] # Owner[r]
    BY <1>1, <2>1 DEF SlotsHeld, Inserted
  <2>2. \A q \in Rows' : q = r \/ q \in Rows
    BY <1>0, <1>2 DEF Rows
  <2>3. \A q \in Rows' : q \in Requests
    BY DEF Rows
  <2> QED
    BY <2>1, <2>2, <2>3 DEF SlotsHeld
<1>11. \A q \in Requests : Visible(q)' <=> (Visible(q) \/ (q = r /\ row.status # "none"))
  BY <1>3, <1>4 DEF Visible
<1>12. Uncommitted'
  BY <1>1, <1>11 DEF Uncommitted
<1>13. KeysUnique' /\ KeysHeld'
  BY <1>1, <1>11 DEF KeysUnique, KeysHeld, Charged
<1>14. Opened'
  BY <1>1, <1>3, <1>4, <1>5 DEF Opened
<1>15. UrlsRecorded'
  BY <1>y, <1>1, <1>3, <1>4, <1>5, <1>11 DEF UrlsRecorded, Recorded
<1>16. OrdersKept'
  BY <1>1, <1>4, <1>5, <1>11 DEF OrdersKept
<1>17. ASSUME NEW e, NEW q \in Requests, Carried(e, q)
       PROVE  /\ e.status # "none" /\ Visible(q)'
              /\ e.txn = payment'[q].txn /\ e.url = payment'[q].url
  BY <1>3, <1>4, <1>11, <1>17 DEF Carried
<1>18. \A p \in Procs : proc[p].order \in Requests
  BY DEF TypeOK, ProcsOK, Entry
<1>19. ProcsCarry' /\ ListsCarry'
  BY <1>5, <1>17, <1>18 DEF ProcsCarry, ListsCarry, Carried
<1>20. HandlersHold'
  <2>1. ASSUME NEW d \in Deliveries, Settling(proc[d]) PROVE Kept(proc[d].order)'
    <3>1. proc[d].order \in Requests /\ Kept(proc[d].order)
      BY <1>18, <2>1 DEF HandlersHold, Procs
    <3>2. proc[d].order \notin gone
      BY <1>0, <1>6, <3>1 DEF Kept, DeleteLocks
    <3> QED
      BY <1>0, <1>1, <1>2, <1>5, <3>1, <3>2 DEF Kept, DeleteLocks
  <2> QED
    BY <1>5, <2>1 DEF HandlersHold
<1> QED
  BY <1>7, <1>8, <1>9, <1>10, <1>12, <1>13, <1>14, <1>15, <1>16, <1>19, <1>20
\* A request in the middle of a deletion keeps escrows and handlers out.
LEMMA DeletionHolds ==
    ASSUME SaleInv, NEW r \in Requests, pc[r] \in Deleted, NEW q \in victim[r]
    PROVE  /\ escrow[q] = 0
           /\ \A d \in Deliveries : Settling(proc[d]) => proc[d].order # q
BY DEF SaleInv, RowInv, Victims, HandlersHold, Kept, DeleteLocks

\* The URL of an existing payment is a recorded one.
LEMMA ExistingRecorded ==
    ASSUME SaleInv, NEW q \in Requests
    PROVE  Existing(q) \in SUBSET Requests /\ Recorded(Existing(q))
BY DEF SaleInv, RowInv, Opened, Existing, Recorded, Visible

\* A step of a request that keeps its victim.
LEMMA VictimStays ==
    ASSUME SaleInv, NEW r \in Requests, UNCHANGED victim
    PROVE  /\ victim' = [victim EXCEPT ![r] = victim[r]]
           /\ victim[r] \in SUBSET Requests
           /\ \A q \in victim[r] : Owner[q] = Owner[r] /\ \A t \in victim[r] : t = q
BY DEF SaleInv, TypeOK, RequestsOK, RowInv, Victims

LEMMA RequestSafe ==
    ASSUME SaleInv, TypeOK', NEW r \in Requests, ReadExisting(r) \/ RequestStep(r)
    PROVE  SaleInv'
<1>y. /\ pc \in [Requests -> RequestSteps] /\ victim \in [Requests -> SUBSET Requests]
      /\ victim[r] \in SUBSET Requests
  BY DEF SaleInv, TypeOK, RequestsOK
<1>n. {} \in SUBSET Requests /\ Recorded({})
  BY DEF Recorded
<1>1. CASE ReadExisting(r)
  <2>1. pc[r] = "idle" /\ UNCHANGED <<db, order, proc, listed, crashes>>
    BY <1>1 DEF ReadExisting, Env
  <2>2. victim[r] = {}
    BY <2>1 DEF SaleInv, RowInv, Victims, InTx, Deleted
  <2>3. ASSUME NEW u \in SUBSET Requests, Recorded(u), Reply(r, u) PROVE SaleInv'
    BY <2>1, <2>3, ReplySafe
  <2>4. ASSUME NEW q \in Rows, Owner[q] = Owner[r], Goto(r, "delete"),
               victim' = [victim EXCEPT ![r] = {q}]
        PROVE  SaleInv'
    <3> DEFINE v == {q}
    <3>1. /\ v \in SUBSET Requests /\ victim' = [victim EXCEPT ![r] = v]
          /\ \A x \in v : Owner[x] = Owner[r] /\ \A t \in v : t = x
      BY <2>4 DEF Rows
    <3>2. /\ "delete" \in InTx \ {"finish"} /\ "delete" \notin Deleted
          /\ "delete" \notin Inserted /\ "delete" \notin Charged
      BY DEF InTx, Deleted, Inserted, Charged
    <3> HIDE DEF v
    <3> QED
      BY <2>1, <2>4, <3>1, <3>2, GotoSafe
  <2>5. CASE Goto(r, "check") /\ UNCHANGED victim
    BY <2>1, <2>2, <2>5, VictimStays, GotoSafe DEF InTx, Deleted, Inserted, Charged
  <2>6. \A q \in Rows : Existing(q) \in SUBSET Requests /\ Recorded(Existing(q))
    BY ExistingRecorded DEF Rows
  <2> QED
    BY <1>1, <1>n, <2>3, <2>4, <2>5, <2>6 DEF ReadExisting
<1>2. CASE DeleteFailed(r)
  <2>1. pc[r] = "delete" /\ UNCHANGED <<db, order, proc, listed, crashes>>
    BY <1>2 DEF DeleteFailed, Env
  <2>2. CASE /\ Goto(r, "nullify") /\ UNCHANGED victim
             /\ \E q \in victim[r] : purchase[q] # "none" /\ ~Referenced(q)
    <3>1. ASSUME NEW q \in victim[r]
          PROVE  /\ escrow[q] = 0
                 /\ \A d \in Deliveries : Settling(proc[d]) => proc[d].order # q
      <4>1. ~PurchaseHeld(q)
        BY <1>2 DEF DeleteFailed
      <4>2. ~Referenced(q)
        BY <2>2, VictimStays
      <4>3. escrow[q] \in Nat
        BY <1>y DEF SaleInv, TypeOK, RowsOK
      <4> QED
        BY <4>1, <4>2, <4>3 DEF PurchaseHeld, Referenced, Settling
    <3> QED
      BY <2>1, <2>2, <3>1, VictimStays, GotoSafe DEF InTx, Deleted, Inserted, Charged
  <2>3. CASE Reply(r, {})
    BY <1>n, <2>1, <2>3, ReplySafe
  <2>4. CASE Goto(r, "check") /\ victim' = [victim EXCEPT ![r] = {}]
    <3> DEFINE v == {}
    <3>1. /\ v \in SUBSET Requests /\ victim' = [victim EXCEPT ![r] = v]
          /\ \A x \in v : FALSE
      BY <2>4
    <3>2. /\ "check" \in InTx \ {"finish"}
          /\ "check" \notin Inserted /\ "check" \notin Charged
      BY DEF InTx, Deleted, Inserted, Charged
    <3> HIDE DEF v
    <3> QED
      BY <2>1, <2>4, <3>1, <3>2, GotoSafe
  <2> QED
    BY <1>2, <2>2, <2>3, <2>4 DEF DeleteFailed
<1>3. CASE NullifyPayments(r)
  <2>1. /\ pc[r] = "nullify" /\ UNCHANGED <<db, order, proc, listed, crashes>>
        /\ Goto(r, "check") /\ UNCHANGED victim
    BY <1>3 DEF NullifyPayments, Env
  <2> QED
    BY <2>1, DeletionHolds, VictimStays, GotoSafe DEF InTx, Deleted, Inserted, Charged
<1>4. CASE CheckOrderNumber(r)
  <2>1. pc[r] = "check" /\ UNCHANGED <<db, order, proc, listed, crashes>>
    BY <1>4 DEF CheckOrderNumber, Env
  <2>2. ASSUME NEW u \in SUBSET Requests, Recorded(u), Reply(r, u) PROVE SaleInv'
    BY <2>1, <2>2, ReplySafe
  <2>3. CASE Goto(r, "insert") /\ UNCHANGED victim
    BY <2>1, <2>3, DeletionHolds, VictimStays, GotoSafe DEF InTx, Deleted, Inserted, Charged
  <2>4. \A q \in SameOrder(r) : Existing(q) \in SUBSET Requests /\ Recorded(Existing(q))
    BY ExistingRecorded DEF SameOrder
  <2> QED
    BY <1>4, <1>n, <2>2, <2>3, <2>4 DEF CheckOrderNumber
<1>5. CASE InsertPurchase(r)
  <2>1. /\ pc[r] = "insert" /\ SlotRivals(r) = {}
        /\ UNCHANGED <<db, order, proc, listed, crashes>>
    BY <1>5 DEF InsertPurchase, Env
  <2>2. CASE FailOnConflict(r)
    BY <1>n, <2>1, <2>2, ReplySafe DEF FailOnConflict
  <2>3. CASE SlotRows(r) = {} /\ Goto(r, "charge") /\ UNCHANGED victim
    <3>1. /\ \A q \in Rows : Owner[q] = Owner[r] => q \in victim[r]
          /\ \A q \in Requests \ {r} : Owner[q] = Owner[r] => pc[q] \notin Inserted
      BY <2>1, <2>3 DEF SlotRows, SlotRivals
    <3> QED
      BY <2>1, <2>3, <3>1, DeletionHolds, VictimStays, GotoSafe
         DEF InTx, Deleted, Inserted, Charged
  <2> QED
    BY <1>5, <2>2, <2>3 DEF InsertPurchase
<1>6. CASE InsertPayment(r)
  <2>1. pc[r] = "charge" /\ UNCHANGED <<order, proc, listed, crashes>>
    BY <1>6 DEF InsertPayment, Env
  <2>2. CASE Reply(r, {}) /\ CommitRequest(r, "FAILED", NoPayment)
    <3>1. /\ NoPayment.status = "none" /\ ~NoPayment.url /\ ~NoPayment.txn
          /\ NoPayment \in Payment /\ "FAILED" \in PurchaseStatus /\ pc[r] \in Inserted
      BY <2>1, IdleType DEF NoPayment, PurchaseStatus, Inserted
    <3> QED
      BY <1>n, <2>1, <2>2, <3>1, CommitSafe
  <2>3. ASSUME NEW q \in SameOrder(r), Reply(r, Existing(q)), UNCHANGED db PROVE SaleInv'
    <3>1. Existing(q) \in SUBSET Requests /\ Recorded(Existing(q))
      BY ExistingRecorded DEF SameOrder
    <3> QED
      BY <2>1, <2>3, <3>1, ReplySafe
  <2>4. CASE /\ KeyRivals(r) = {} /\ SameOrder(r) = {}
             /\ Goto(r, "gateway") /\ UNCHANGED victim /\ UNCHANGED db
    <3>1. \A q \in Requests : Ref[q] = Ref[r] =>
              ~Visible(q) /\ (q # r => pc[q] \notin Charged)
      BY <2>4 DEF KeyRivals, SameOrder
    <3>2. /\ \A q \in Rows : Owner[q] = Owner[r] => q \in victim[r]
          /\ \A q \in Requests \ {r} : Owner[q] = Owner[r] => pc[q] \notin Inserted
      BY <2>1 DEF SaleInv, RowInv, SlotsHeld, Inserted
    <3> QED
      BY <2>1, <2>4, <3>1, <3>2, DeletionHolds, VictimStays, GotoSafe
         DEF InTx, Deleted, Inserted, Charged
  <2> QED
    BY <1>6, <2>2, <2>3, <2>4 DEF InsertPayment
<1>7. CASE CallGateway(r)
  <2>1. pc[r] = "gateway" /\ UNCHANGED <<proc, listed, crashes>>
    BY <1>7 DEF CallGateway
  <2>2. CASE /\ Reply(r, {}) /\ UNCHANGED order
             /\ CommitRequest(r, "FAILED", NewPayment("failed", FALSE, FALSE))
    <3> DEFINE row == NewPayment("failed", FALSE, FALSE)
    <3>1. /\ row.status = "failed" /\ ~row.url /\ ~row.txn
          /\ row \in Payment /\ "FAILED" \in PurchaseStatus
          /\ pc[r] \in Inserted /\ pc[r] \in Charged
      BY <2>1, NewPaymentType
         DEF NewPayment, PaymentStatus, PurchaseStatus, Inserted, Charged
    <3> HIDE DEF row
    <3>2. CommitRequest(r, "FAILED", row)
      BY <2>2 DEF row
    <3> QED
      BY <1>n, <2>1, <2>2, <3>1, <3>2, CommitSafe
  <2>3. ASSUME NEW a \in {"ok", "nourl", "failed"}, answer' = [answer EXCEPT ![r] = a],
               order' = [order EXCEPT ![r] = 0] \/ (UNCHANGED order /\ a = "failed"),
               pc' = [pc EXCEPT ![r] = "finish"], UNCHANGED <<victim, shown, db>>
        PROVE  SaleInv'
    <3>1. ASSUME NEW q \in Requests
          PROVE  /\ pc'[q] = IF q = r THEN "finish" ELSE pc[q]
                 /\ answer'[q] = IF q = r THEN a ELSE answer[q]
                 /\ order[q] # NoOrder => order'[q] # NoOrder
                 /\ q # r => order'[q] = order[q]
                 /\ a # "failed" => order'[r] # NoOrder
      BY <1>y, <2>3 DEF SaleInv, TypeOK, RequestsOK, OutsideOK, NoOrder
    <3>2. UNCHANGED <<purchase, payment, escrow, crashes, victim, shown, proc, listed>>
      BY <2>1, <2>3 DEF db
    <3> USE DEF SaleInv, RowInv
    <3>3. OneSale' /\ NoOrphans' /\ KeysUnique'
      BY <3>2 DEF OneSale, NoOrphans, KeysUnique, Rows, Visible
    <3>4. UrlsRecorded'
      BY <3>1, <3>2 DEF UrlsRecorded, Recorded, Visible, TypeOK, RequestsOK
    <3>5. Victims'
      BY <2>1, <3>1, <3>2 DEF Victims, InTx, Deleted
    <3>6. SlotsHeld' /\ KeysHeld'
      BY <2>1, <3>1, <3>2 DEF SlotsHeld, KeysHeld, Rows, Visible, Inserted, Charged
    <3>7. Uncommitted' /\ Opened' /\ OrdersKept'
      BY <2>1, <3>1, <3>2 DEF Uncommitted, Opened, OrdersKept, Visible
    <3>8. ProcsCarry' /\ ListsCarry' /\ HandlersHold'
      BY <2>1, <2>3, <3>1, <3>2, ProcsKept DEF HandlersHold, Kept, DeleteLocks, Deleted
    <3> QED
      BY <3>3, <3>4, <3>5, <3>6, <3>7, <3>8
  <2>4. ASSUME NEW response \in makeApiRequest,
               NEW a \in initiateMobileMoneyPayment(response),
               answer' = [answer EXCEPT ![r] = a],
               order' = IF response.opened THEN [order EXCEPT ![r] = 0] ELSE order,
               pc' = [pc EXCEPT ![r] = "finish"], UNCHANGED <<victim, shown, db>>
        PROVE  SaleInv'
    <3>1. /\ a \in {"ok", "nourl", "failed"}
          /\ response.opened \/ a = "failed"
      BY DEF makeApiRequest, initiateMobileMoneyPayment
    <3>2. order' = [order EXCEPT ![r] = 0] \/ (UNCHANGED order /\ a = "failed")
      BY <2>4, <3>1
    <3> QED
      BY <2>3, <2>4, <3>1, <3>2
  <2> QED
    BY <1>7, <2>2, <2>4 DEF CallGateway
<1>8. CASE FinishRequest(r)
  <2>1. pc[r] = "finish" /\ UNCHANGED <<order, proc, listed, crashes>>
    BY <1>8 DEF FinishRequest, Env
  <2> DEFINE row == NewPayment("pending", answer[r] # "failed", answer[r] = "ok")
             u == IF answer[r] = "ok" THEN {r} ELSE {}
  <2>2. /\ row.status = "pending" /\ row \in Payment
        /\ row.txn <=> answer[r] # "failed"
        /\ row.url <=> answer[r] = "ok"
    BY NewPaymentType DEF NewPayment, PaymentStatus
  <2>3. CommitRequest(r, "PENDING", row) /\ Reply(r, u)
    BY <1>8 DEF FinishRequest
  <2>4. /\ row.url => row.txn
        /\ row.txn => order[r] # NoOrder
    BY <2>1, <2>2 DEF SaleInv, RowInv, Opened
  <2>5. /\ u \in SUBSET Requests
        /\ u # {} => u = {r} /\ row.txn
    BY <2>2
  <2>6. "PENDING" \in PurchaseStatus /\ pc[r] \in Inserted /\ pc[r] \in Charged
    BY <2>1 DEF PurchaseStatus, Inserted, Charged
  <2> HIDE DEF row, u
  <2> QED
    BY <2>1, <2>2, <2>3, <2>4, <2>5, <2>6, CommitSafe
<1> QED
  BY <1>1, <1>2, <1>3, <1>4, <1>5, <1>6, <1>7, <1>8 DEF RequestStep

-----------------------------------------------------------------------------
(* PalmPay and time, the end of the process, and the theorems *)

LEMMA OutsideSafe ==
    ASSUME SaleInv, TypeOK', NEW r \in Requests, AdvanceOrder(r) \/ AgePayment(r)
    PROVE  SaleInv'
<1>1. UNCHANGED <<purchase, payment, escrow, pc, victim, answer, shown, proc, listed, crashes>>
  BY DEF AdvanceOrder, AgePayment, db, reqs
<1>2. \A q \in Requests : order'[q] = NoOrder <=> order[q] = NoOrder
  BY DEF AdvanceOrder, AgePayment, NoOrder, OrderCodes, SaleInv, TypeOK, OutsideOK
<1> USE DEF SaleInv, RowInv
<1>3. OneSale' /\ NoOrphans' /\ KeysUnique' /\ Victims' /\ SlotsHeld'
  BY <1>1 DEF OneSale, NoOrphans, KeysUnique, Victims, SlotsHeld, Rows, Visible
<1>4. Uncommitted' /\ KeysHeld' /\ ProcsCarry' /\ ListsCarry' /\ HandlersHold'
  BY <1>1 DEF Uncommitted, KeysHeld, ProcsCarry, ListsCarry, HandlersHold, Carried, Kept,
     DeleteLocks, Visible
<1>5. Opened' /\ OrdersKept'
  BY <1>1, <1>2 DEF Opened, OrdersKept, Visible
<1>6. UrlsRecorded'
  BY <1>1, <1>2 DEF UrlsRecorded, Recorded, Visible, TypeOK, RequestsOK
<1> QED
  BY <1>3, <1>4, <1>5, <1>6

\* A crash rolls the open transactions back: nothing they held is committed.
LEMMA CrashSafe ==
    ASSUME SaleInv, TypeOK', Crash
    PROVE  SaleInv'
<1>1. ASSUME NEW r \in Requests
      PROVE  /\ pc'[r] = IF pc[r] \in InTx THEN "lost" ELSE pc[r]
             /\ pc'[r] \notin Deleted \cup Inserted \cup Charged /\ pc'[r] # "finish"
             /\ victim'[r] = {}
  BY DEF Crash, InTx, Deleted, Inserted, Charged
<1>2. UNCHANGED <<purchase, payment, escrow, order, shown>>
  BY DEF Crash, db
<1>3. crashes' # 0
  BY DEF Crash, SaleInv, TypeOK, ProcsOK
<1>4. \A p \in Procs : ~Working(proc'[p]) /\ ~Settling(proc'[p])
  BY DEF Crash, Idle, Working, Settling
<1> USE DEF SaleInv, RowInv
<1>5. OneSale' /\ NoOrphans' /\ KeysUnique' /\ UrlsRecorded'
  BY <1>2 DEF OneSale, NoOrphans, KeysUnique, UrlsRecorded, Recorded, Rows, Visible
<1>6. Victims' /\ SlotsHeld' /\ KeysHeld'
  BY <1>1 DEF Victims, SlotsHeld, KeysHeld
<1>7. Uncommitted' /\ Opened'
  BY <1>1, <1>2 DEF Uncommitted, Opened, Visible, InTx, Deleted
<1>8. OrdersKept'
  BY <1>3 DEF OrdersKept
<1>9. ProcsCarry' /\ HandlersHold'
  BY <1>4 DEF ProcsCarry, HandlersHold, Procs
<1>10. ListsCarry'
  BY DEF Crash, ListsCarry, NoPayment
<1> QED
  BY <1>5, <1>6, <1>7, <1>8, <1>9, <1>10

\* Each kind of step keeps the invariant.
LEMMA NextSaleInv == SaleInv /\ [Next]_vars => SaleInv'
<1> SUFFICES ASSUME SaleInv, [Next]_vars PROVE SaleInv'
  OBVIOUS
<1>t. TypeOK'
  BY NextTypeOK DEF SaleInv
<1>1. ASSUME NEW r \in Requests, NEW d \in Deliveries, ResolveDeadlock(r, d) PROVE SaleInv'
  <2>1. UNCHANGED <<db, order, listed, crashes>> /\ pc[r] = "nullify" /\ d \in Procs
    BY <1>1 DEF ResolveDeadlock, Procs
  <2>2. CASE Reply(r, {}) /\ UNCHANGED proc
    <3>1. {} \in SUBSET Requests /\ Recorded({})
      BY DEF Recorded
    <3> QED
      BY <1>t, <2>1, <2>2, <3>1, ReplySafe
  <2>3. CASE End(d) /\ UNCHANGED reqs
    <3>1. RowsMove /\ ProcsMove /\ ListsMove
      BY <2>1, <2>3, RowsStay, EndMove, ListsStay DEF SaleInv
    <3> QED
      BY <1>t, <2>1, <2>3, <3>1, MoveSafe DEF reqs
  <2> QED
    BY <1>1, <2>2, <2>3 DEF ResolveDeadlock
<1>2. CASE UNCHANGED vars
  <2>1. RowsMove /\ ProcsMove /\ ListsMove
    BY <1>2, RowsStay, ProcsStay, ListsStay DEF SaleInv, vars, db
  <2> QED
    BY <1>2, <1>t, <2>1, MoveSafe DEF vars
<1>3. ASSUME NEW p \in Procs, ProcStep(p) PROVE SaleInv'
  BY <1>3, <1>t, HandlerSafe, NotifySafe, CronSafe, CheckerSafe DEF ProcStep
<1> QED
  BY <1>1, <1>2, <1>3, <1>t, RequestSafe, OutsideSafe, HandlerSafe, CronSafe, JobSafe,
     CrashSafe DEF Next, Resting

LEMMA SaleInvariant == Spec => []SaleInv
BY InitSaleInv, NextSaleInv, PTL DEF Spec

\* A buyer never has two purchases of the tip, and a purchase never two escrows.
THEOREM SoldOnce == Spec => []OneSale
<1>1. SaleInv => OneSale
  BY DEF SaleInv, RowInv
<1> QED
  BY <1>1, SaleInvariant, PTL

\* A deleted purchase leaves neither an escrow row nor a payment that refers to it.
THEOREM NothingOrphaned == Spec => []NoOrphans
<1>1. SaleInv => NoOrphans
  BY DEF SaleInv, RowInv
<1> QED
  BY <1>1, SaleInvariant, PTL

\* A checkout URL given to a buyer belongs to an order the payments table knows.
THEOREM ShownAlwaysRecorded == Spec => []ShownIsRecorded
BY SaleInvShown, SaleInvariant, PTL

\* Until the process dies, an idempotency key opens one order, which is recorded.
THEOREM KeyOpensOneOrder == Spec => []OneOrderPerKey
BY SaleInvOneOrder, SaleInvariant, PTL
=============================================================================
