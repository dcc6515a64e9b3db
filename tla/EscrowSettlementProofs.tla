----------------------- MODULE EscrowSettlementProofs -----------------------
(***************************************************************************)
(* Proofs about EscrowSettlement for any number of escrows and runs, any   *)
(* amounts and rate, and any number of crashes and failed calls.           *)
(***************************************************************************)
EXTENDS EscrowSettlement, TLAPS

RunRecord == [pc : Open \cup {"idle", "next"},
              todo : SUBSET Escrows, draft : SUBSET Rows]

EscrowRecord ==
    [status : {"none", "HELD", "RELEASED", "REFUNDED"},
     type : ReleaseTypes \cup {"none"}, fee : Nat, earnings : Nat]

-----------------------------------------------------------------------------
(* What the operators return *)

LEMMA RoundCentsNat ==
    ASSUME NEW n \in Nat
    PROVE  RoundCents(n) \in Nat
BY DEF RoundCents

LEMMA ProductNat ==
    ASSUME NEW m \in Nat, NEW n \in Nat
    PROVE  m * n \in Nat
OBVIOUS

\* The branches of settleEscrow name one of the three release types.
LEMMA ReleaseType ==
    ASSUME NEW e \in Escrows, NEW outcome
    PROVE  Release(e, outcome) \in ReleaseTypes
BY DEF Release, ReleaseTypes

\* Fees and earnings are whole, non-negative cents.
LEMMA CentsNat ==
    ASSUME NEW e \in Escrows, NEW type
    PROVE  /\ Fee(e, type) \in Nat
           /\ Earnings(e, type) \in Nat
           /\ DueAmount(e, type) \in Nat
<1>1. Amount[e] \in Nat /\ Rate \in Nat /\ 10000 - Rate \in Nat
  BY EscrowsAssumption
<1>2. RoundCents(Amount[e] * Rate) \in Nat
  BY <1>1, ProductNat, RoundCentsNat
<1>3. RoundCents(Amount[e] * (10000 - Rate)) \in Nat
  BY <1>1, ProductNat, RoundCentsNat
<1>4. Fee(e, type) \in Nat
  BY <1>1, <1>2 DEF Fee
<1>5. Earnings(e, type) \in Nat
  BY <1>3 DEF Earnings
<1>6. DueAmount(e, type) \in Nat
  BY <1>1, <1>5 DEF DueAmount
<1>. QED  BY <1>4, <1>5, <1>6

\* The payment a refresh drafts is a payments row.
LEMMA PaymentRow ==
    ASSUME NEW e \in Escrows, NEW r \in Runs, NEW type \in ReleaseTypes
    PROVE  Payment(e, r, type) \in Rows
BY CentsNat DEF Payment, Rows

\* What a commit makes of an escrow row is an escrow row.
LEMMA SettledRow ==
    ASSUME NEW e \in Escrows, NEW type \in ReleaseTypes
    PROVE  Settled(e, type) \in EscrowRecord
BY CentsNat DEF Settled, EscrowRecord

-----------------------------------------------------------------------------
(* Type correctness *)

LEMMA InitType == Init => TypeOK
<1>. SUFFICES ASSUME Init PROVE TypeOK
  OBVIOUS
<1>1. run \in [Runs -> RunRecord]
  BY DEF Init, NoRun, RunRecord
<1>2. escrow \in [Escrows -> EscrowRecord]
  BY DEF Init, NoEscrow, EscrowRecord
<1>3. faults \in 0..MaxFaults
  BY SwitchesAssumption DEF Init
<1>4. tip \in [Tips -> Outcomes \cup {"pending"}]
  BY DEF Init
<1>5. purchase \in [Escrows -> {"COMPLETED", "FAILED"}]
  BY DEF Init
<1>6. payments = {} /\ orders = {}
  BY DEF Init
<1>. QED  BY <1>1, <1>2, <1>3, <1>4, <1>5, <1>6
          DEF TypeOK, RunRecord, EscrowRecord

\* A run that goes to another step, and one that ends a settlement.
LEMMA ToType ==
    ASSUME run \in [Runs -> RunRecord], NEW r \in Runs,
           NEW step \in Open \cup {"idle", "next"}, To(r, step)
    PROVE  run' \in [Runs -> RunRecord]
BY DEF To, RunRecord

LEMMA LeaveType ==
    ASSUME run \in [Runs -> RunRecord], NEW r \in Runs, Leave(r)
    PROVE  run' \in [Runs -> RunRecord]
BY DEF Leave, RunRecord

\* The row of an open settlement, with its transaction id set or not.
LEMMA DraftRow ==
    ASSUME run \in [Runs -> RunRecord], NEW r \in Runs, NEW p \in run[r].draft
    PROVE  /\ p \in Rows
           /\ [p EXCEPT !.txn = TRUE] \in Rows
           /\ p.escrow \in Escrows
           /\ p.type \in ReleaseTypes
<1>1. p \in Rows
  BY DEF RunRecord
<1>. QED  BY <1>1 DEF Rows

LEMMA StartType ==
    ASSUME TypeOK, NEW r \in Runs, Start(r)
    PROVE  TypeOK'
<1>1. {e \in Escrows : Ready(e)} \in SUBSET Escrows
  OBVIOUS
<1>2. run' \in [Runs -> RunRecord]
  BY <1>1 DEF Start, TypeOK, RunRecord
<1>. QED  BY <1>2 DEF Start, TypeOK, RunRecord

LEMMA RefreshType ==
    ASSUME TypeOK, NEW r \in Runs, Refresh(r)
    PROVE  TypeOK'
<1>1. PICK e \in run[r].todo :
        run' = [run EXCEPT
                   ![r].pc = "insert",
                   ![r].todo = @ \ {e},
                   ![r].draft = {Payment(e, r, Release(e, tip[TipOf[e]]))}]
  BY DEF Refresh
<1>2. e \in Escrows
  <2>1. run[r].todo \in SUBSET Escrows
    BY DEF TypeOK
  <2>. QED  BY <1>1, <2>1
<1>3. Payment(e, r, Release(e, tip[TipOf[e]])) \in Rows
  BY <1>2, ReleaseType, PaymentRow
<1>4. run' \in [Runs -> RunRecord]
  BY <1>1, <1>3 DEF TypeOK, RunRecord, Open
<1>. QED  BY <1>4 DEF Refresh, TypeOK, RunRecord

LEMMA SkipType ==
    ASSUME TypeOK, NEW r \in Runs, Skip(r)
    PROVE  TypeOK'
<1>1. run \in [Runs -> RunRecord]
  BY DEF TypeOK, RunRecord
<1>2. PICK e \in run[r].todo :
        run' = [run EXCEPT
                   ![r].pc = IF run[r].todo \ {e} = {} THEN "idle" ELSE "next",
                   ![r].todo = run[r].todo \ {e}]
  BY DEF Skip
<1>3. run[r].todo \ {e} \in SUBSET Escrows
  BY <1>1 DEF RunRecord
<1>4. run' \in [Runs -> RunRecord]
  <2>1. CASE run[r].todo \ {e} = {}
    <3>1. run' = [run EXCEPT ![r].pc = "idle", ![r].todo = run[r].todo \ {e}]
      BY <1>2, <2>1
    <3>. QED  BY <1>1, <1>3, <3>1 DEF RunRecord
  <2>2. CASE run[r].todo \ {e} # {}
    <3>1. run' = [run EXCEPT ![r].pc = "next", ![r].todo = run[r].todo \ {e}]
      BY <1>2, <2>2
    <3>. QED  BY <1>1, <1>3, <3>1 DEF RunRecord
  <2>. QED  BY <2>1, <2>2
<1>5. UNCHANGED <<tip, purchase, escrow, payments, orders, faults>>
  BY DEF Skip
<1>. QED  BY <1>4, <1>5 DEF TypeOK, RunRecord

LEMMA InsertType ==
    ASSUME TypeOK, NEW r \in Runs, Insert(r)
    PROVE  TypeOK'
<1>1. run \in [Runs -> RunRecord]
  BY DEF TypeOK, RunRecord
<1>2. run' \in [Runs -> RunRecord]
  BY <1>1, ToType, LeaveType DEF Insert, Open
<1>. QED  BY <1>2 DEF Insert, TypeOK, RunRecord

\* PalmPay accepts an order for the row of an open settlement.
LEMMA OrderType ==
    ASSUME TypeOK, NEW r \in Runs, NEW p \in run[r].draft
    PROVE  OrderOf(p) \in [id : ReleaseTypes \X {Reference[e] : e \in Escrows},
                           escrow : Escrows]
<1>1. run \in [Runs -> RunRecord]
  BY DEF TypeOK, RunRecord
<1>2. p.escrow \in Escrows /\ p.type \in ReleaseTypes
  BY <1>1, DraftRow
<1>. QED  BY <1>2 DEF OrderOf, PaymentReference

LEMMA AcceptedType ==
    ASSUME TypeOK, NEW r \in Runs, PayoutAccepted(r)
    PROVE  TypeOK'
<1>1. run \in [Runs -> RunRecord]
  BY DEF TypeOK, RunRecord
<1>2. PICK p \in run[r].draft :
        /\ orders' = orders \cup {OrderOf(p)}
        /\ run' = [run EXCEPT ![r].pc = "save",
                              ![r].draft = {[p EXCEPT !.txn = TRUE]}]
  BY DEF PayoutAccepted
<1>3. [p EXCEPT !.txn = TRUE] \in Rows
  BY <1>1, DraftRow
<1>4. run' \in [Runs -> RunRecord]
  BY <1>1, <1>2, <1>3 DEF RunRecord, Open
<1>5. orders' \subseteq [id : ReleaseTypes \X {Reference[e] : e \in Escrows},
                         escrow : Escrows]
  BY <1>2, OrderType DEF TypeOK
<1>. QED  BY <1>4, <1>5 DEF PayoutAccepted, TypeOK, RunRecord

LEMMA UnansweredType ==
    ASSUME TypeOK, NEW r \in Runs, PayoutUnanswered(r)
    PROVE  TypeOK'
<1>1. run \in [Runs -> RunRecord]
  BY DEF TypeOK, RunRecord
<1>2. PICK p \in run[r].draft : orders' = orders \cup {OrderOf(p)}
  BY DEF PayoutUnanswered
<1>3. run' \in [Runs -> RunRecord]
  BY <1>1, ToType DEF PayoutUnanswered, Open
<1>4. orders' \subseteq [id : ReleaseTypes \X {Reference[e] : e \in Escrows},
                         escrow : Escrows]
  BY <1>2, OrderType DEF TypeOK
<1>. QED  BY <1>3, <1>4 DEF PayoutUnanswered, TypeOK, RunRecord

LEMMA RefusedSaveType ==
    ASSUME TypeOK, NEW r \in Runs, PayoutRefused(r) \/ SaveEscrow(r)
    PROVE  TypeOK'
<1>1. run \in [Runs -> RunRecord]
  BY DEF TypeOK, RunRecord
<1>2. run' \in [Runs -> RunRecord]
  BY <1>1, ToType DEF PayoutRefused, SaveEscrow, Open
<1>. QED  BY <1>2 DEF PayoutRefused, SaveEscrow, TypeOK, RunRecord

LEMMA CommitType ==
    ASSUME TypeOK, NEW r \in Runs, Commit(r)
    PROVE  TypeOK'
<1>1. run \in [Runs -> RunRecord] /\ escrow \in [Escrows -> EscrowRecord]
  BY DEF TypeOK, RunRecord, EscrowRecord
<1>2. run' \in [Runs -> RunRecord]
  BY <1>1, LeaveType DEF Commit
<1>3. payments' \subseteq Rows
  BY <1>1 DEF Commit, TypeOK, RunRecord
<1>4. ASSUME NEW e \in Escrows, NEW p \in run[r].draft
      PROVE  Settled(e, (CHOOSE q \in run[r].draft : TRUE).type) \in EscrowRecord
  <2>1. (CHOOSE q \in run[r].draft : TRUE) \in run[r].draft
    OBVIOUS
  <2>2. (CHOOSE q \in run[r].draft : TRUE).type \in ReleaseTypes
    BY <1>1, <2>1, DraftRow
  <2>. QED  BY <2>2, SettledRow
<1>5. escrow' \in [Escrows -> EscrowRecord]
  BY <1>1, <1>4 DEF Commit
<1>. QED  BY <1>2, <1>3, <1>5 DEF Commit, TypeOK, RunRecord, EscrowRecord

LEMMA FaultType ==
    ASSUME TypeOK, Crash \/ \E r \in Runs : Abort(r)
    PROVE  TypeOK'
<1>1. run \in [Runs -> RunRecord]
  BY DEF TypeOK, RunRecord
<1>2. run' \in [Runs -> RunRecord]
  <2>1. CASE Crash
    BY <2>1 DEF Crash, NoRun, RunRecord
  <2>2. CASE \E r \in Runs : Abort(r)
    BY <2>2, <1>1, LeaveType DEF Abort
  <2>. QED  BY <2>1, <2>2
<1>3. faults' \in 0..MaxFaults
  BY SwitchesAssumption DEF Crash, Abort, TypeOK
<1>. QED  BY <1>2, <1>3 DEF Crash, Abort, TypeOK, RunRecord

LEMMA OutsideType ==
    ASSUME TypeOK,
           \/ \E e \in Escrows : CreateEscrow(e) \/ Renotify(e)
           \/ \E t \in Tips : Decide(t)
    PROVE  TypeOK'
<1>1. escrow' \in [Escrows -> EscrowRecord]
  BY DEF CreateEscrow, Renotify, Decide, Held, NoEscrow, TypeOK, EscrowRecord
<1>2. purchase' \in [Escrows -> {"COMPLETED", "FAILED"}]
  BY DEF CreateEscrow, Renotify, Decide, TypeOK
<1>3. tip' \in [Tips -> Outcomes \cup {"pending"}]
  BY DEF CreateEscrow, Renotify, Decide, TypeOK
<1>. QED  BY <1>1, <1>2, <1>3
          DEF CreateEscrow, Renotify, Decide, TypeOK, EscrowRecord

LEMMA NextType == TypeOK /\ [Next]_vars => TypeOK'
<1>. SUFFICES ASSUME TypeOK, [Next]_vars PROVE TypeOK'
  OBVIOUS
<1>1. ASSUME NEW r \in Runs, Advance(r) PROVE TypeOK'
  BY <1>1, StartType, RefreshType, SkipType, InsertType, AcceptedType,
     UnansweredType, RefusedSaveType, CommitType DEF Advance
<1>2. CASE UNCHANGED vars
  BY <1>2 DEF vars, TypeOK
<1>. QED  BY <1>1, <1>2, FaultType, OutsideType DEF Next

\* Every reachable state has the types the tables and the runs should have.
THEOREM TypeCorrect == Spec => []TypeOK
<1>. QED  BY InitType, NextType, PTL DEF Spec

-----------------------------------------------------------------------------
(* One transfer for one escrow *)

\* Two orders with one id are one order, every order and every open settlement
\* is what the decided outcome of its tip calls for.
TransferInv ==
    /\ TypeOK
    /\ \A o, q \in orders : o.id = q.id => o = q
    /\ \A o \in orders :
         /\ tip[TipOf[o.escrow]] # "pending"
         /\ o.id = <<Release(o.escrow, tip[TipOf[o.escrow]]), Reference[o.escrow]>>
    /\ \A r \in Runs : \A p \in run[r].draft :
         /\ tip[TipOf[p.escrow]] # "pending"
         /\ p.type = Release(p.escrow, tip[TipOf[p.escrow]])

\* A run keeps its draft, drops it, or takes another one with the same escrow
\* and type.
LEMMA SameDrafts ==
    ASSUME TypeOK, NEW r \in Runs,
           \/ Start(r) \/ Skip(r) \/ Insert(r)
           \/ PayoutAccepted(r) \/ PayoutUnanswered(r) \/ PayoutRefused(r)
           \/ SaveEscrow(r) \/ Commit(r) \/ Abort(r),
           NEW s \in Runs, NEW p \in run'[s].draft
    PROVE  \E q \in run[s].draft : q.escrow = p.escrow /\ q.type = p.type
<1>1. run \in [Runs -> RunRecord]
  BY DEF TypeOK, RunRecord
<1>2. CASE PayoutAccepted(r)
  <2>1. PICK q \in run[r].draft :
          run' = [run EXCEPT ![r].pc = "save",
                             ![r].draft = {[q EXCEPT !.txn = TRUE]}]
    BY <1>2 DEF PayoutAccepted
  <2>2. q \in Rows
    BY <1>1, DraftRow
  <2>3. [q EXCEPT !.txn = TRUE].escrow = q.escrow
        /\ [q EXCEPT !.txn = TRUE].type = q.type
    BY <2>2 DEF Rows
  <2>4. CASE s = r
    BY <1>1, <2>1, <2>3, <2>4 DEF RunRecord
  <2>5. CASE s # r
    BY <1>1, <2>1, <2>5 DEF RunRecord
  <2>. QED  BY <2>4, <2>5
<1>3. CASE Start(r) \/ Skip(r)
  BY <1>1, <1>3 DEF Start, Skip, RunRecord
<1>4. ASSUME NEW step, To(r, step)
      PROVE  run'[s].draft = run[s].draft
  BY <1>1, <1>4 DEF To, RunRecord
<1>5. ASSUME Leave(r)
      PROVE  run'[s].draft \subseteq run[s].draft
  BY <1>1, <1>5 DEF Leave, RunRecord
<1>6. CASE PayoutUnanswered(r) \/ PayoutRefused(r) \/ SaveEscrow(r)
  BY <1>4, <1>6 DEF PayoutUnanswered, PayoutRefused, SaveEscrow
<1>7. CASE Commit(r) \/ Abort(r)
  BY <1>5, <1>7 DEF Commit, Abort
<1>8. CASE Insert(r)
  BY <1>4, <1>5, <1>8 DEF Insert
<1>. QED  BY <1>2, <1>3, <1>6, <1>7, <1>8

LEMMA TransferInit == Init => TransferInv
<1>. SUFFICES ASSUME Init PROVE TransferInv
  OBVIOUS
<1>1. \A r \in Runs : run[r].draft = {}
  BY DEF Init, NoRun
<1>. QED  BY <1>1, InitType DEF Init, TransferInv

\* An order PalmPay accepts is the one its escrow is owed, and no other has its id.
LEMMA AcceptedOrder ==
    ASSUME TransferInv, NEW r \in Runs,
           PayoutAccepted(r) \/ PayoutUnanswered(r)
    PROVE  /\ \A o, q \in orders' : o.id = q.id => o = q
           /\ \A o \in orders' :
                /\ tip[TipOf[o.escrow]] # "pending"
                /\ o.id = <<Release(o.escrow, tip[TipOf[o.escrow]]),
                            Reference[o.escrow]>>
<1>1. PICK p \in run[r].draft : ~Taken(p) /\ orders' = orders \cup {OrderOf(p)}
  BY DEF PayoutAccepted, PayoutUnanswered
<1>2. /\ tip[TipOf[p.escrow]] # "pending"
      /\ p.type = Release(p.escrow, tip[TipOf[p.escrow]])
  BY DEF TransferInv
<1>3. /\ OrderOf(p).escrow = p.escrow
      /\ OrderOf(p).id = <<p.type, Reference[p.escrow]>>
  BY DEF OrderOf, PaymentReference
<1>4. \A o \in orders : o.id # OrderOf(p).id
  BY <1>1 DEF Taken
<1>5. \A o, q \in orders' : o.id = q.id => o = q
  BY <1>1, <1>4 DEF TransferInv
<1>6. ASSUME NEW o \in orders'
      PROVE  /\ tip[TipOf[o.escrow]] # "pending"
             /\ o.id = <<Release(o.escrow, tip[TipOf[o.escrow]]),
                         Reference[o.escrow]>>
  <2>1. CASE o \in orders
    BY <2>1 DEF TransferInv
  <2>2. CASE o = OrderOf(p)
    BY <2>2, <1>2, <1>3
  <2>. QED  BY <1>1, <2>1, <2>2
<1>. QED  BY <1>5, <1>6

\* A refresh drafts what the outcome it reads calls for.
LEMMA RefreshDrafts ==
    ASSUME TransferInv, NEW r \in Runs, Refresh(r),
           NEW s \in Runs, NEW p \in run'[s].draft
    PROVE  /\ tip[TipOf[p.escrow]] # "pending"
           /\ p.type = Release(p.escrow, tip[TipOf[p.escrow]])
<1>1. run \in [Runs -> RunRecord]
  BY DEF TransferInv, TypeOK, RunRecord
<1>2. PICK e \in run[r].todo :
        /\ tip[TipOf[e]] # "pending"
        /\ run' = [run EXCEPT
                      ![r].pc = "insert",
                      ![r].todo = @ \ {e},
                      ![r].draft = {Payment(e, r, Release(e, tip[TipOf[e]]))}]
  BY DEF Refresh
<1>3. CASE s = r
  <2>1. p = Payment(e, r, Release(e, tip[TipOf[e]]))
    BY <1>1, <1>2, <1>3 DEF RunRecord
  <2>2. p.escrow = e /\ p.type = Release(e, tip[TipOf[e]])
    BY <2>1 DEF Payment
  <2>. QED  BY <1>2, <2>2
<1>4. CASE s # r
  <2>1. p \in run[s].draft
    BY <1>1, <1>2, <1>4 DEF RunRecord
  <2>. QED  BY <2>1 DEF TransferInv
<1>. QED  BY <1>3, <1>4

\* A decision changes no tip that something is drafted or ordered for.
LEMMA DecideTransfer ==
    ASSUME TransferInv, NEW t \in Tips, Decide(t)
    PROVE  TransferInv'
<1>1. TypeOK'
  BY OutsideType DEF TransferInv
<1>2. \A u \in Tips : tip[u] # "pending" => tip'[u] = tip[u]
  BY DEF Decide, TransferInv, TypeOK
<1>3. ASSUME NEW o \in orders
      PROVE  tip'[TipOf[o.escrow]] = tip[TipOf[o.escrow]]
  <2>1. o.escrow \in Escrows
    BY DEF TransferInv, TypeOK
  <2>. QED  BY <1>2, <2>1, EscrowsAssumption DEF TransferInv
<1>4. ASSUME NEW r \in Runs, NEW p \in run[r].draft
      PROVE  tip'[TipOf[p.escrow]] = tip[TipOf[p.escrow]]
  <2>1. run \in [Runs -> RunRecord]
    BY DEF TransferInv, TypeOK, RunRecord
  <2>2. p.escrow \in Escrows
    BY <2>1, DraftRow
  <2>. QED  BY <1>2, <2>2, EscrowsAssumption DEF TransferInv
<1>5. UNCHANGED <<orders, run>>
  BY DEF Decide
<1>. QED  BY <1>1, <1>3, <1>4, <1>5 DEF TransferInv, Release

LEMMA TransferNext == TransferInv /\ [Next]_vars => TransferInv'
<1>. SUFFICES ASSUME TransferInv, [Next]_vars PROVE TransferInv'
  OBVIOUS
<1>1. TypeOK'
  BY NextType DEF TransferInv
<1>2. ASSUME NEW r \in Runs, PayoutAccepted(r) \/ PayoutUnanswered(r)
      PROVE  TransferInv'
  <2>1. tip' = tip
    BY <1>2 DEF PayoutAccepted, PayoutUnanswered
  <2>2. \A s \in Runs : \A p \in run'[s].draft :
          /\ tip[TipOf[p.escrow]] # "pending"
          /\ p.type = Release(p.escrow, tip[TipOf[p.escrow]])
    BY <1>2, SameDrafts DEF TransferInv
  <2>. QED  BY <1>1, <1>2, <2>1, <2>2, AcceptedOrder DEF TransferInv, Release
<1>3. ASSUME NEW r \in Runs,
             \/ Start(r) \/ Skip(r) \/ Insert(r)
             \/ PayoutRefused(r) \/ SaveEscrow(r) \/ Commit(r) \/ Abort(r)
      PROVE  TransferInv'
  <2>1. UNCHANGED <<tip, orders>>
    BY <1>3 DEF Start, Skip, Insert, PayoutRefused, SaveEscrow,
                Commit, Abort
  <2>2. \A s \in Runs : \A p \in run'[s].draft :
          /\ tip[TipOf[p.escrow]] # "pending"
          /\ p.type = Release(p.escrow, tip[TipOf[p.escrow]])
    BY <1>3, SameDrafts DEF TransferInv
  <2>. QED  BY <1>1, <2>1, <2>2 DEF TransferInv, Release
<1>4. ASSUME NEW r \in Runs, Refresh(r) PROVE TransferInv'
  <2>1. UNCHANGED <<tip, orders>>
    BY <1>4 DEF Refresh
  <2>. QED  BY <1>1, <1>4, <2>1, RefreshDrafts DEF TransferInv, Release
<1>5. CASE Crash
  <2>1. \A s \in Runs : run'[s].draft = {}
    BY <1>5 DEF Crash, NoRun
  <2>. QED  BY <1>1, <1>5, <2>1 DEF Crash, TransferInv, Release
<1>6. CASE \E e \in Escrows : CreateEscrow(e) \/ Renotify(e)
  BY <1>1, <1>6 DEF CreateEscrow, Renotify, TransferInv, Release
<1>7. CASE UNCHANGED vars
  BY <1>1, <1>7 DEF vars, TransferInv, Release
<1>. QED  BY <1>2, <1>3, <1>4, <1>5, <1>6, <1>7, DecideTransfer DEF Next, Advance

\* For any number of overlapping runs, crashes, failed calls and lost answers,
\* PalmPay is made to pay out one escrow at most once.
THEOREM TransferOnce == Spec => []OneTransfer
<1>1. TransferInv => OneTransfer
  BY DEF TransferInv, OneTransfer
<1>. QED  BY <1>1, TransferInit, TransferNext, PTL DEF Spec

-----------------------------------------------------------------------------
(* Nothing moves under the schema of the migrations *)

\* No settlement gets past the insert of its payments row.
SafeInv ==
    /\ TypeOK
    /\ FailsSafe
    /\ ColumnsRequired => \A r \in Runs : run[r].pc \in {"idle", "next", "insert"}

LEMMA SafeNext == SafeInv /\ [Next]_vars => SafeInv'
<1>. SUFFICES ASSUME SafeInv, ColumnsRequired, [Next]_vars PROVE SafeInv'
  <2>1. CASE ~ColumnsRequired
    BY <2>1, NextType DEF SafeInv, FailsSafe
  <2>. QED  BY <2>1
<1>1. TypeOK'
  BY NextType DEF SafeInv
<1>2. run \in [Runs -> RunRecord]
  BY DEF SafeInv, TypeOK, RunRecord
<1>3. ASSUME NEW r \in Runs, Advance(r) \/ Abort(r)
      PROVE  /\ UNCHANGED <<escrow, payments, orders>>
             /\ \A s \in Runs : run'[s].pc \in {"idle", "next", "insert"}
  <2>1. run[r].pc \in {"idle", "next", "insert"}
    BY DEF SafeInv
  <2>2. ASSUME Leave(r)
        PROVE  \A s \in Runs : run'[s].pc \in {"idle", "next", "insert"}
    BY <1>2, <2>2 DEF Leave, RunRecord, SafeInv
  <2>3. CASE Start(r) \/ Refresh(r) \/ Skip(r)
    <3>1. UNCHANGED <<escrow, payments, orders>>
      BY <2>3 DEF Start, Refresh, Skip
    <3>2. \A s \in Runs : s # r => run'[s] = run[s]
      BY <1>2, <2>3 DEF Start, Refresh, Skip
    <3>3. run'[r].pc \in {"idle", "next", "insert"}
      <4>1. ASSUME Start(r) PROVE run'[r].pc = "next"
        BY <1>2, <4>1 DEF Start, RunRecord
      <4>2. ASSUME Refresh(r) PROVE run'[r].pc = "insert"
        BY <1>2, <4>2 DEF Refresh, RunRecord
      <4>3. ASSUME Skip(r) PROVE run'[r].pc \in {"idle", "next"}
        BY <1>2, <4>3 DEF Skip, RunRecord
      <4>. QED  BY <2>3, <4>1, <4>2, <4>3
    <3>. QED  BY <3>1, <3>2, <3>3 DEF SafeInv
  <2>4. CASE Insert(r) \/ Abort(r)
    BY <2>2, <2>4 DEF Insert, Abort
  <2>. QED  BY <1>3, <2>1, <2>3, <2>4
            DEF Advance, PayoutAccepted, PayoutUnanswered,
                PayoutRefused, SaveEscrow, Commit
<1>4. CASE Crash
  BY <1>1, <1>4 DEF Crash, NoRun, SafeInv, FailsSafe
<1>5. CASE \E e \in Escrows : CreateEscrow(e) \/ Renotify(e)
  BY <1>1, <1>5 DEF CreateEscrow, Renotify, SafeInv, FailsSafe, TypeOK
<1>6. CASE \E t \in Tips : Decide(t)
  BY <1>1, <1>6 DEF Decide, SafeInv, FailsSafe
<1>7. CASE UNCHANGED vars
  BY <1>1, <1>7 DEF vars, SafeInv, FailsSafe
<1>8. CASE \E r \in Runs : Advance(r) \/ Abort(r)
  BY <1>1, <1>3, <1>8 DEF SafeInv, FailsSafe
<1>. QED  BY <1>4, <1>5, <1>6, <1>7, <1>8 DEF Next

\* Where the migrations' NOT NULL columns reject the payments row, no payout is
\* asked for and every escrow stays held.
THEOREM SchemaFailsSafe == Spec => []FailsSafe
<1>1. Init => SafeInv
  BY InitType DEF Init, NoRun, SafeInv, FailsSafe
<1>2. SafeInv => FailsSafe
  BY DEF SafeInv
<1>. QED  BY <1>1, <1>2, SafeNext, PTL DEF Spec

-----------------------------------------------------------------------------
(* One run at a time keeps the books and implements the ledger *)

OneRun == \A r, s \in Runs : r = s

SameRow == \A e \in Escrows : \A p, q \in RowsOf(e) : p = q

\* What a run has listed is held until it settles it itself.
BooksInv ==
    /\ TransferInv
    /\ BooksAgree
    /\ SameRow
    /\ \A e \in Escrows :
         \/ escrow[e] \in {NoEscrow, Held}
         \/ AlreadySettled(e)
    /\ \A r \in Runs :
         /\ \A e \in run[r].todo : escrow[e] = Held
         /\ \A p \in run[r].draft :
              /\ escrow[p.escrow] = Held
              /\ p.escrow \notin run[r].todo
              /\ p.by = r
              /\ p.amount = DueAmount(p.escrow, p.type)
         /\ \A p, q \in run[r].draft : p = q
         /\ run[r].pc \notin Open => run[r].draft = {}

\* The release types the code chooses are the ones its comments promise.
LEMMA ReleaseIsOwed ==
    ASSUME NEW e \in Escrows, NEW o
    PROVE  /\ Owed(e, o).type = Release(e, o)
           /\ Owed(e, o).amount = DueAmount(e, Release(e, o))
BY DEF Owed, Release, DueAmount

\* Settled rows are settled, the other two are not.
LEMMA StatusFacts ==
    ASSUME NEW e \in Escrows, NEW type \in ReleaseTypes
    PROVE  /\ Settled(e, type).status \in {"RELEASED", "REFUNDED"}
           /\ Settled(e, type).type = type
           /\ NoEscrow.status = "none"
           /\ Held.status = "HELD"
           /\ NoEscrow # Held
           /\ Settled(e, type) # Held
           /\ Settled(e, type) # NoEscrow
BY DEF Settled, Held, NoEscrow

LEMMA BooksInit == Init => BooksInv
<1>. SUFFICES ASSUME Init PROVE BooksInv
  OBVIOUS
<1>1. \A r \in Runs : run[r].todo = {} /\ run[r].draft = {}
  BY DEF Init, NoRun
<1>2. \A e \in Escrows : escrow[e] = NoEscrow /\ ~AlreadySettled(e)
  BY DEF Init, NoEscrow, AlreadySettled
<1>3. payments = {}
  BY DEF Init
<1>. QED  BY <1>1, <1>2, <1>3, TransferInit
          DEF BooksInv, BooksAgree, SameRow, RowsOf

\* The tables stay as they are, and the run lists and drafts nothing that is
\* not held.
LEMMA RunOnly ==
    ASSUME BooksInv, TransferInv', UNCHANGED <<tip, escrow, payments>>,
           \A r \in Runs :
             /\ \A e \in run'[r].todo : escrow[e] = Held
             /\ \A p \in run'[r].draft :
                  /\ escrow[p.escrow] = Held
                  /\ p.escrow \notin run'[r].todo
                  /\ p.by = r
                  /\ p.amount = DueAmount(p.escrow, p.type)
             /\ \A p, q \in run'[r].draft : p = q
             /\ run'[r].pc \notin Open => run'[r].draft = {}
    PROVE  BooksInv'
<1>1. \A e \in Escrows : AlreadySettled(e)' <=> AlreadySettled(e)
  BY DEF AlreadySettled
<1>2. \A e \in Escrows : RowsOf(e)' = RowsOf(e)
  BY DEF RowsOf
<1>3. BooksAgree' /\ SameRow'
  BY <1>1, <1>2 DEF BooksInv, BooksAgree, SameRow, Owed, Settled, Fee, Earnings
<1>. QED  BY <1>1, <1>3 DEF BooksInv, DueAmount, Earnings, Held, NoEscrow

\* A run that ends a settlement without a trace, or goes to another step.
LEMMA QuietBooks ==
    ASSUME BooksInv, TransferInv', NEW r \in Runs, UNCHANGED <<tip, escrow, payments>>,
           Leave(r) \/ \E step \in Open : To(r, step)
    PROVE  BooksInv'
<1>1. run \in [Runs -> RunRecord]
  BY DEF BooksInv, TransferInv, TypeOK, RunRecord
<1>2. \A s \in Runs : /\ run'[s].todo = run[s].todo
                      /\ run'[s].draft \subseteq run[s].draft
  BY <1>1 DEF Leave, To, RunRecord
<1>3. \A s \in Runs : run'[s].pc \notin Open => run'[s].draft = {}
  BY <1>1 DEF Leave, To, RunRecord, BooksInv
<1>. QED  BY <1>2, <1>3, RunOnly DEF BooksInv

LEMMA StartBooks ==
    ASSUME BooksInv, TransferInv', NEW r \in Runs, Start(r), OneRun
    PROVE  BooksInv'
<1>1. run \in [Runs -> RunRecord]
  BY DEF BooksInv, TransferInv, TypeOK, RunRecord
<1>2. \A s \in Runs : s = r
  BY DEF OneRun
<1>3. run[r].draft = {}
  BY DEF Start, Open, BooksInv
<1>4. run'[r].todo = {e \in Escrows : Ready(e)} /\ run'[r].draft = {}
  BY <1>1, <1>3 DEF Start, RunRecord
<1>5. \A e \in Escrows : Ready(e) => escrow[e] = Held
  BY DEF Ready, BooksInv, NoEscrow
<1>6. UNCHANGED <<tip, escrow, payments>>
  BY DEF Start
<1>. QED  BY <1>2, <1>4, <1>5, <1>6, RunOnly DEF BooksInv

\* Nothing a single run has listed can be settled already.
LEMMA NoSkip ==
    ASSUME BooksInv, NEW r \in Runs
    PROVE  ~Skip(r)
BY DEF BooksInv, Skip, AlreadySettled, Held, NoEscrow

LEMMA RefreshBooks ==
    ASSUME BooksInv, TransferInv', NEW r \in Runs, Refresh(r), OneRun
    PROVE  BooksInv'
<1>1. run \in [Runs -> RunRecord]
  BY DEF BooksInv, TransferInv, TypeOK, RunRecord
<1>2. \A s \in Runs : s = r
  BY DEF OneRun
<1>3. PICK e \in run[r].todo :
        run' = [run EXCEPT
                   ![r].pc = "insert",
                   ![r].todo = @ \ {e},
                   ![r].draft = {Payment(e, r, Release(e, tip[TipOf[e]]))}]
  BY DEF Refresh
<1>4. /\ run'[r].pc = "insert"
      /\ run'[r].todo = run[r].todo \ {e}
      /\ run'[r].draft = {Payment(e, r, Release(e, tip[TipOf[e]]))}
  BY <1>1, <1>3 DEF RunRecord
<1>5. ASSUME NEW p \in run'[r].draft
      PROVE  /\ p.escrow = e
             /\ p.by = r
             /\ p.amount = DueAmount(p.escrow, p.type)
  BY <1>4 DEF Payment
<1>6. \A x \in run[r].todo : escrow[x] = Held
  BY DEF BooksInv
<1>7. UNCHANGED <<tip, escrow, payments>>
  BY DEF Refresh
<1>8. \A s \in Runs :
        /\ \A x \in run'[s].todo : escrow[x] = Held
        /\ \A p \in run'[s].draft :
             /\ escrow[p.escrow] = Held
             /\ p.escrow \notin run'[s].todo
             /\ p.by = s
             /\ p.amount = DueAmount(p.escrow, p.type)
        /\ \A p, q \in run'[s].draft : p = q
        /\ run'[s].pc \notin Open => run'[s].draft = {}
  BY <1>2, <1>4, <1>5, <1>6 DEF Open
<1>. QED  BY <1>7, <1>8, RunOnly

LEMMA AcceptedBooks ==
    ASSUME BooksInv, TransferInv', NEW r \in Runs, PayoutAccepted(r), OneRun
    PROVE  BooksInv'
<1>1. run \in [Runs -> RunRecord]
  BY DEF BooksInv, TransferInv, TypeOK, RunRecord
<1>2. \A s \in Runs : s = r
  BY DEF OneRun
<1>3. PICK p \in run[r].draft :
        run' = [run EXCEPT ![r].pc = "save",
                           ![r].draft = {[p EXCEPT !.txn = TRUE]}]
  BY DEF PayoutAccepted
<1>4. /\ run'[r].pc = "save"
      /\ run'[r].todo = run[r].todo
      /\ run'[r].draft = {[p EXCEPT !.txn = TRUE]}
  BY <1>1, <1>3 DEF RunRecord
<1>5. LET q == [p EXCEPT !.txn = TRUE] IN
        q.escrow = p.escrow /\ q.by = p.by /\ q.type = p.type /\ q.amount = p.amount
  BY <1>1, DraftRow DEF Rows
<1>6. UNCHANGED <<tip, escrow, payments>>
  BY DEF PayoutAccepted
<1>7. /\ escrow[p.escrow] = Held
      /\ p.escrow \notin run[r].todo
      /\ p.by = r
      /\ p.amount = DueAmount(p.escrow, p.type)
      /\ \A x \in run[r].todo : escrow[x] = Held
  BY DEF BooksInv
<1>8. ASSUME NEW q \in run'[r].draft
      PROVE  /\ escrow[q.escrow] = Held
             /\ q.escrow \notin run'[r].todo
             /\ q.by = r
             /\ q.amount = DueAmount(q.escrow, q.type)
  <2>1. q = [p EXCEPT !.txn = TRUE]
    BY <1>4
  <2>2. q.escrow = p.escrow /\ q.by = p.by /\ q.type = p.type /\ q.amount = p.amount
    BY <1>5, <2>1
  <2>. QED  BY <1>4, <1>7, <2>2
<1>9. \A s \in Runs :
        /\ \A x \in run'[s].todo : escrow[x] = Held
        /\ \A q \in run'[s].draft :
             /\ escrow[q.escrow] = Held
             /\ q.escrow \notin run'[s].todo
             /\ q.by = s
             /\ q.amount = DueAmount(q.escrow, q.type)
        /\ \A q, x \in run'[s].draft : q = x
        /\ run'[s].pc \notin Open => run'[s].draft = {}
  <2>1. \A x \in run'[r].todo : escrow[x] = Held
    BY <1>4, <1>7
  <2>2. \A q, x \in run'[r].draft : q = x
    BY <1>4
  <2>3. run'[r].pc \in Open
    BY <1>4 DEF Open
  <2>. QED  BY <1>2, <1>8, <2>1, <2>2, <2>3
<1>. QED  BY <1>6, <1>9, RunOnly

\* A commit settles the one escrow the run drafted a payment for.
LEMMA CommitOne ==
    ASSUME BooksInv, NEW r \in Runs, Commit(r), NEW p \in run[r].draft
    PROVE  /\ p.escrow \in Escrows
           /\ p.type \in ReleaseTypes
           /\ escrow' = [escrow EXCEPT ![p.escrow] = Settled(p.escrow, p.type)]
           /\ payments' = payments \cup {p}
<1>1. run \in [Runs -> RunRecord] /\ escrow \in [Escrows -> EscrowRecord]
  BY DEF BooksInv, TransferInv, TypeOK, RunRecord, EscrowRecord
<1>2. p.escrow \in Escrows /\ p.type \in ReleaseTypes
  BY <1>1, DraftRow
<1>3. run[r].draft = {p}
  BY DEF BooksInv
<1>4. (CHOOSE q \in run[r].draft : TRUE) = p
  BY <1>3
<1>5. escrow' = [e \in Escrows |-> IF p.escrow = e THEN Settled(e, p.type)
                                                   ELSE escrow[e]]
  BY <1>3, <1>4 DEF Commit
<1>. QED  BY <1>1, <1>2, <1>3, <1>5 DEF Commit

LEMMA CommitBooks ==
    ASSUME BooksInv, TransferInv', NEW r \in Runs, Commit(r), OneRun
    PROVE  BooksInv'
<1>1. run \in [Runs -> RunRecord] /\ escrow \in [Escrows -> EscrowRecord]
  BY DEF BooksInv, TransferInv, TypeOK, RunRecord, EscrowRecord
<1>2. \A s \in Runs : s = r
  BY DEF OneRun
<1>3. CASE run[r].draft = {}
  <2>1. escrow' = escrow /\ payments' = payments
    BY <1>1, <1>3 DEF Commit
  <2>. QED  BY <2>1, QuietBooks DEF Commit
<1>4. ASSUME NEW p \in run[r].draft PROVE BooksInv'
  <2>1. /\ p.escrow \in Escrows
        /\ p.type \in ReleaseTypes
        /\ escrow' = [escrow EXCEPT ![p.escrow] = Settled(p.escrow, p.type)]
        /\ payments' = payments \cup {p}
    BY <1>4, CommitOne
  <2>2. /\ escrow'[p.escrow] = Settled(p.escrow, p.type)
        /\ \A e \in Escrows : e # p.escrow => escrow'[e] = escrow[e]
    BY <1>1, <2>1
  <2>3. /\ escrow[p.escrow] = Held
        /\ p.amount = DueAmount(p.escrow, p.type)
        /\ p.escrow \notin run[r].todo
        /\ tip[TipOf[p.escrow]] # "pending"
        /\ p.type = Release(p.escrow, tip[TipOf[p.escrow]])
    BY DEF BooksInv, TransferInv
  <2>4. tip' = tip /\ UNCHANGED faults
    BY DEF Commit
  <2>5. RowsOf(p.escrow) = {}
    BY <2>1, <2>3 DEF BooksInv, BooksAgree, AlreadySettled, Held, NoEscrow
  <2>6. /\ RowsOf(p.escrow)' = {p}
        /\ \A e \in Escrows : e # p.escrow => RowsOf(e)' = RowsOf(e)
    BY <2>1, <2>5 DEF RowsOf
  <2>7. /\ AlreadySettled(p.escrow)'
        /\ \A e \in Escrows :
             e # p.escrow => (AlreadySettled(e)' <=> AlreadySettled(e))
    BY <2>1, <2>2, StatusFacts DEF AlreadySettled
  <2>8. SameRow'
    BY <2>6 DEF SameRow, BooksInv
  <2>9. BooksAgree'
    <3>1. ASSUME NEW e \in Escrows, e # p.escrow
          PROVE  /\ AlreadySettled(e)' <=> RowsOf(e)' # {}
                 /\ \A q \in RowsOf(e)' :
                      /\ tip[TipOf[e]] # "pending"
                      /\ q.type = Owed(e, tip[TipOf[e]]).type
                      /\ q.amount = Owed(e, tip[TipOf[e]]).amount
                      /\ escrow'[e] = Settled(e, q.type)
      BY <3>1, <2>2, <2>6, <2>7 DEF BooksInv, BooksAgree
    <3>2. /\ AlreadySettled(p.escrow)' <=> RowsOf(p.escrow)' # {}
          /\ \A q \in RowsOf(p.escrow)' :
               /\ tip[TipOf[p.escrow]] # "pending"
               /\ q.type = Owed(p.escrow, tip[TipOf[p.escrow]]).type
               /\ q.amount = Owed(p.escrow, tip[TipOf[p.escrow]]).amount
               /\ escrow'[p.escrow] = Settled(p.escrow, q.type)
      BY <2>1, <2>2, <2>3, <2>6, <2>7, ReleaseIsOwed
    <3>. QED  BY <3>1, <3>2, <2>4
              DEF BooksAgree, Owed, Settled, Fee, Earnings
  <2>10. \A e \in Escrows :
           escrow'[e] \in {NoEscrow, Held} \/ AlreadySettled(e)'
    BY <2>2, <2>7 DEF BooksInv
  <2>11. /\ run'[r].todo = run[r].todo
         /\ run'[r].draft = {}
    BY <1>1 DEF Commit, Leave, RunRecord
  <2>12. \A e \in run[r].todo : escrow'[e] = Held
    <3>1. run[r].todo \subseteq Escrows
      BY <1>1 DEF RunRecord
    <3>. QED  BY <3>1, <2>2, <2>3 DEF BooksInv
  <2>. QED  BY <1>2, <2>8, <2>9, <2>10, <2>11, <2>12
            DEF BooksInv, NoEscrow, Held
<1>. QED  BY <1>3, <1>4

LEMMA CreateBooks ==
    ASSUME BooksInv, TransferInv', NEW x \in Escrows, CreateEscrow(x)
    PROVE  BooksInv'
<1>1. escrow \in [Escrows -> EscrowRecord] /\ run \in [Runs -> RunRecord]
  BY DEF BooksInv, TransferInv, TypeOK, RunRecord, EscrowRecord
<1>2. /\ escrow[x] = NoEscrow
      /\ escrow'[x] = Held
      /\ \A e \in Escrows : e # x => escrow'[e] = escrow[e]
  BY <1>1 DEF CreateEscrow
<1>3. UNCHANGED <<tip, payments, run>>
  BY DEF CreateEscrow
<1>4. ~AlreadySettled(x) /\ ~AlreadySettled(x)'
  BY <1>2 DEF AlreadySettled, NoEscrow, Held
<1>5. \A e \in Escrows : AlreadySettled(e)' <=> AlreadySettled(e)
  BY <1>2, <1>4 DEF AlreadySettled
<1>6. \A e \in Escrows : RowsOf(e)' = RowsOf(e)
  BY <1>3 DEF RowsOf
<1>7. RowsOf(x) = {}
  BY <1>4 DEF BooksInv, BooksAgree
<1>8. BooksAgree' /\ SameRow'
  BY <1>2, <1>3, <1>5, <1>6, <1>7
     DEF BooksInv, BooksAgree, SameRow, Owed, Settled, Fee, Earnings
<1>9. \A e \in Escrows : escrow[e] = Held => escrow'[e] = Held
  BY <1>2
<1>10. \A e \in Escrows : escrow'[e] \in {NoEscrow, Held} \/ AlreadySettled(e)'
  BY <1>2, <1>5 DEF BooksInv
<1>11. \A r \in Runs : /\ run[r].todo \subseteq Escrows
                       /\ \A p \in run[r].draft : p.escrow \in Escrows
  BY <1>1, DraftRow DEF RunRecord
<1>. QED  BY <1>3, <1>8, <1>9, <1>10, <1>11
          DEF BooksInv, NoEscrow, Held, DueAmount, Earnings

LEMMA DecideBooks ==
    ASSUME BooksInv, TransferInv', NEW t \in Tips, Decide(t)
    PROVE  BooksInv'
<1>1. UNCHANGED <<escrow, payments, run>>
  BY DEF Decide
<1>2. \A u \in Tips : tip[u] # "pending" => tip'[u] = tip[u]
  BY DEF Decide, BooksInv, TransferInv, TypeOK
<1>3. \A e \in Escrows : AlreadySettled(e)' <=> AlreadySettled(e)
  BY <1>1 DEF AlreadySettled
<1>4. \A e \in Escrows : RowsOf(e)' = RowsOf(e)
  BY <1>1 DEF RowsOf
<1>5. \A e \in Escrows : RowsOf(e) # {} => tip'[TipOf[e]] = tip[TipOf[e]]
  BY <1>2, EscrowsAssumption DEF BooksInv, BooksAgree
<1>6. BooksAgree' /\ SameRow'
  BY <1>1, <1>3, <1>4, <1>5
     DEF BooksInv, BooksAgree, SameRow, Owed, Settled, Fee, Earnings
<1>. QED  BY <1>1, <1>3, <1>6 DEF BooksInv, NoEscrow, Held, DueAmount, Earnings

LEMMA BooksNext == OneRun /\ BooksInv /\ [Next]_vars => BooksInv'
<1>. SUFFICES ASSUME OneRun, BooksInv, [Next]_vars PROVE BooksInv'
  OBVIOUS
<1>1. TransferInv'
  BY TransferNext DEF BooksInv
<1>2. ASSUME NEW r \in Runs, Advance(r) \/ Abort(r) PROVE BooksInv'
  <2>1. CASE PayoutUnanswered(r) \/ PayoutRefused(r) \/ SaveEscrow(r)
    <3>1. UNCHANGED <<tip, escrow, payments>>
      BY <2>1 DEF PayoutUnanswered, PayoutRefused, SaveEscrow
    <3>2. \E step \in Open : To(r, step)
      BY <2>1 DEF PayoutUnanswered, PayoutRefused, SaveEscrow, Open
    <3>. QED  BY <1>1, <3>1, <3>2, QuietBooks
  <2>2. CASE Abort(r)
    BY <1>1, <2>2, QuietBooks DEF Abort
  <2>3. CASE Insert(r)
    <3>1. UNCHANGED <<tip, escrow, payments>>
      BY <2>3 DEF Insert
    <3>2. Leave(r) \/ \E step \in Open : To(r, step)
      BY <2>3 DEF Insert, Open
    <3>. QED  BY <1>1, <3>1, <3>2, QuietBooks
  <2>. QED  BY <1>1, <1>2, <2>1, <2>2, <2>3, StartBooks, RefreshBooks, NoSkip,
               AcceptedBooks, CommitBooks DEF Advance
<1>3. CASE Crash
  <2>1. \A r \in Runs : run'[r].todo = {} /\ run'[r].draft = {}
    BY <1>3 DEF Crash, NoRun
  <2>2. UNCHANGED <<tip, escrow, payments>>
    BY <1>3 DEF Crash
  <2>. QED  BY <1>1, <2>1, <2>2, RunOnly
<1>4. ASSUME NEW e \in Escrows, Renotify(e) PROVE BooksInv'
  <2>1. UNCHANGED <<tip, escrow, payments, run>>
    BY <1>4 DEF Renotify
  <2>. QED  BY <1>1, <2>1, RunOnly DEF BooksInv
<1>5. CASE UNCHANGED vars
  <2>1. UNCHANGED <<tip, escrow, payments, run>>
    BY <1>5 DEF vars
  <2>. QED  BY <1>1, <2>1, RunOnly DEF BooksInv
<1>. QED  BY <1>1, <1>2, <1>3, <1>4, <1>5, CreateBooks, DecideBooks DEF Next

\* If the runs of the cron never overlap, an escrow is settled exactly if there
\* is a payment for it, and both are what the outcome of the tip calls for.
THEOREM BooksKept == OneRun => (Spec => []BooksAgree)
<1>1. BooksInv => BooksAgree
  BY DEF BooksInv
<1>. SUFFICES ASSUME OneRun PROVE Spec => []BooksAgree
  OBVIOUS
<1>2. BooksInv /\ [Next]_vars => BooksInv'
  BY BooksNext
<1>. QED  BY <1>1, <1>2, BooksInit, PTL DEF Spec

\* If the runs never overlap, no escrow gets a second payments row.
THEOREM OneRowKept == OneRun => (Spec => []OneRow)
<1>1. BooksInv => OneRow
  <2>. SUFFICES ASSUME BooksInv, NEW e \in Escrows
                PROVE  /\ \A p, q \in RowsOf(e) : p = q
                       /\ \A r \in Runs : \A p \in run[r].draft :
                            p.escrow = e => RowsOf(e) = {}
    BY DEF OneRow
  <2>1. ASSUME NEW r \in Runs, NEW p \in run[r].draft, p.escrow = e
        PROVE  RowsOf(e) = {}
    <3>1. ~AlreadySettled(e)
      BY <2>1 DEF BooksInv, AlreadySettled, Held, NoEscrow
    <3>. QED  BY <3>1 DEF BooksInv, BooksAgree
  <2>. QED  BY <2>1 DEF BooksInv, SameRow
<1>. SUFFICES ASSUME OneRun PROVE Spec => []OneRow
  OBVIOUS
<1>2. BooksInv /\ [Next]_vars => BooksInv'
  BY BooksNext
<1>. QED  BY <1>1, <1>2, BooksInit, PTL DEF Spec

-----------------------------------------------------------------------------
(* The ledger *)

LEMMA LedgerInit == Init => Ledger!Init
<1>. SUFFICES ASSUME Init PROVE Ledger!Init
  OBVIOUS
<1>1. LedgerState = [e \in Escrows |-> "none"]
  BY DEF Init, LedgerState, AlreadySettled, NoEscrow
<1>2. {Booking(p) : p \in payments} = {}
  BY DEF Init
<1>. QED  BY <1>1, <1>2 DEF Init, Ledger!Init

\* A step that leaves the tables alone is a stutter of the ledger.
LEMMA LedgerStutter ==
    ASSUME UNCHANGED <<tip, escrow, payments>>
    PROVE  UNCHANGED Ledger!vars
BY DEF Ledger!vars, LedgerState, AlreadySettled, Booking

LEMMA LedgerTake ==
    ASSUME BooksInv, NEW x \in Escrows, CreateEscrow(x)
    PROVE  Ledger!Take(x)
<1>1. escrow \in [Escrows -> EscrowRecord]
  BY DEF BooksInv, TransferInv, TypeOK, EscrowRecord
<1>2. /\ escrow[x] = NoEscrow
      /\ escrow'[x] = Held
      /\ \A e \in Escrows : e # x => escrow'[e] = escrow[e]
  BY <1>1 DEF CreateEscrow
<1>3. LedgerState[x] = "none" /\ LedgerState'[x] = "HELD"
  BY <1>2 DEF LedgerState, AlreadySettled, NoEscrow, Held
<1>4. \A e \in Escrows : e # x => LedgerState'[e] = LedgerState[e]
  BY <1>2 DEF LedgerState, AlreadySettled
<1>5. LedgerState' = [LedgerState EXCEPT ![x] = "HELD"]
  BY <1>3, <1>4 DEF LedgerState
<1>6. UNCHANGED <<tip, payments>>
  BY DEF CreateEscrow
<1>. QED  BY <1>3, <1>5, <1>6 DEF Ledger!Take, Booking

LEMMA LedgerDecide ==
    ASSUME NEW t \in Tips, Decide(t)
    PROVE  Ledger!Decide(t)
<1>1. LedgerState' = LedgerState /\ payments' = payments
  BY DEF Decide, LedgerState, AlreadySettled
<1>. QED  BY <1>1 DEF Decide, Ledger!Decide, Booking

\* A commit is the release of the one escrow it settles.
LEMMA LedgerRelease ==
    ASSUME BooksInv, NEW r \in Runs, Commit(r), NEW p \in run[r].draft
    PROVE  Ledger!Release(p.escrow)
<1>1. escrow \in [Escrows -> EscrowRecord]
  BY DEF BooksInv, TransferInv, TypeOK, EscrowRecord
<1>2. /\ p.escrow \in Escrows
      /\ p.type \in ReleaseTypes
      /\ escrow' = [escrow EXCEPT ![p.escrow] = Settled(p.escrow, p.type)]
      /\ payments' = payments \cup {p}
  BY CommitOne
<1>3. /\ escrow'[p.escrow] = Settled(p.escrow, p.type)
      /\ \A e \in Escrows : e # p.escrow => escrow'[e] = escrow[e]
  BY <1>1, <1>2
<1>4. /\ escrow[p.escrow] = Held
      /\ p.by = r
      /\ p.amount = DueAmount(p.escrow, p.type)
      /\ tip[TipOf[p.escrow]] # "pending"
      /\ p.type = Release(p.escrow, tip[TipOf[p.escrow]])
  BY DEF BooksInv, TransferInv
<1>5. LedgerState[p.escrow] = "HELD"
  BY <1>2, <1>4 DEF LedgerState, AlreadySettled, Held, NoEscrow
<1>6. LedgerState'[p.escrow] = p.type
  BY <1>2, <1>3, StatusFacts DEF LedgerState, AlreadySettled
<1>7. \A e \in Escrows : e # p.escrow => LedgerState'[e] = LedgerState[e]
  BY <1>3 DEF LedgerState, AlreadySettled
<1>8. LedgerState' = [LedgerState EXCEPT ![p.escrow] = p.type]
  BY <1>6, <1>7 DEF LedgerState
<1>9. tip[TipOf[p.escrow]] \in Outcomes
  <2>1. TipOf[p.escrow] \in Tips
    BY <1>2, EscrowsAssumption
  <2>2. tip \in [Tips -> Outcomes \cup {"pending"}]
    BY DEF BooksInv, TransferInv, TypeOK
  <2>. QED  BY <1>4, <2>1, <2>2
<1>10. /\ Due[p.escrow][tip[TipOf[p.escrow]]].type = p.type
       /\ Due[p.escrow][tip[TipOf[p.escrow]]].amount = p.amount
  BY <1>2, <1>4, <1>9, ReleaseIsOwed DEF Due
<1>11. {Booking(q) : q \in payments}' = {Booking(q) : q \in payments} \cup {Booking(p)}
  BY <1>2 DEF Booking
<1>12. Booking(p) = Ledger!Entry(p.escrow, r, Due[p.escrow][tip[TipOf[p.escrow]]])
  BY <1>4, <1>10 DEF Booking, Ledger!Entry
<1>13. tip' = tip
  BY DEF Commit
<1>. QED  BY <1>4, <1>5, <1>8, <1>10, <1>11, <1>12, <1>13 DEF Ledger!Release

LEMMA LedgerNext ==
    OneRun /\ BooksInv /\ [Next]_vars => [Ledger!Next]_(Ledger!vars)
<1>. SUFFICES ASSUME OneRun, BooksInv, [Next]_vars
              PROVE  Ledger!Next \/ UNCHANGED Ledger!vars
  OBVIOUS
<1>1. ASSUME NEW r \in Runs, Commit(r)
      PROVE  Ledger!Next \/ UNCHANGED Ledger!vars
  <2>1. CASE run[r].draft = {}
    <3>1. escrow \in [Escrows -> EscrowRecord]
      BY DEF BooksInv, TransferInv, TypeOK, EscrowRecord
    <3>2. UNCHANGED <<tip, escrow, payments>>
      BY <1>1, <2>1, <3>1 DEF Commit
    <3>. QED  BY <3>2, LedgerStutter
  <2>2. ASSUME NEW p \in run[r].draft
        PROVE  Ledger!Next
    <3>1. Ledger!Release(p.escrow) /\ p.escrow \in Escrows
      BY <1>1, <2>2, LedgerRelease, CommitOne
    <3>. QED  BY <3>1 DEF Ledger!Next
  <2>. QED  BY <2>1, <2>2
<1>2. ASSUME NEW r \in Runs, Advance(r) \/ Abort(r), ~Commit(r)
      PROVE  UNCHANGED Ledger!vars
  <2>1. UNCHANGED <<tip, escrow, payments>>
    BY <1>2 DEF Advance, Start, Refresh, Skip, Insert,
                PayoutAccepted, PayoutUnanswered, PayoutRefused, SaveEscrow, Abort
  <2>. QED  BY <2>1, LedgerStutter
<1>3. ASSUME NEW x \in Escrows, CreateEscrow(x) PROVE Ledger!Next
  BY <1>3, LedgerTake DEF Ledger!Next
<1>4. ASSUME NEW x \in Escrows, Renotify(x) PROVE UNCHANGED Ledger!vars
  BY <1>4, LedgerStutter DEF Renotify
<1>5. ASSUME NEW t \in Tips, Decide(t) PROVE Ledger!Next
  BY <1>5, LedgerDecide DEF Ledger!Next
<1>6. CASE Crash
  BY <1>6, LedgerStutter DEF Crash
<1>7. CASE UNCHANGED vars
  BY <1>7, LedgerStutter DEF vars
<1>. QED  BY <1>1, <1>2, <1>3, <1>4, <1>5, <1>6, <1>7 DEF Next

\* If the runs never overlap, the scheduler implements the ledger: money leaves
\* escrow once, as the payment the outcome calls for.
THEOREM ImplementsLedger == OneRun => (Spec => LedgerSpec)
<1>. SUFFICES ASSUME OneRun PROVE Spec => LedgerSpec
  OBVIOUS
<1>1. BooksInv /\ [Next]_vars => BooksInv'
  BY BooksNext
<1>2. BooksInv /\ [Next]_vars => [Ledger!Next]_(Ledger!vars)
  BY LedgerNext
<1>. QED  BY <1>1, <1>2, BooksInit, LedgerInit, PTL
          DEF Spec, LedgerSpec, Ledger!Spec
=============================================================================
