---------------------------- MODULE TipLifecycle ----------------------------
(***************************************************************************)
(* One tip from its draft to its outcome: what TipsService lets its        *)
(* tipster do to it (createTip, addSelection, removeSelection, updateTip,  *)
(* publishTip), the cron that judges selections and the cron that decides  *)
(* tips, over the tables tips, tip_selections, match_data and purchases.   *)
(*                                                                         *)
(* Each call of the tipster is one transaction at READ COMMITTED that      *)
(* reads the tip without a lock.  A TypeORM save of a loaded entity        *)
(* (reload, compare, update) is one step here and writes every column that *)
(* differs, the stale ones too; the crons save outside of a transaction.   *)
(***************************************************************************)
EXTENDS PredictionEvaluation, FiniteSets

CONSTANTS
    Matches,
    Texts,         \* what the tipster may predict
    Results,       \* final scores
    Calls,         \* calls of addSelection, removeSelection, updateTip, publishTip
    MaxTabs,       \* calls of the tipster in progress at one time
    MaxDrafted,    \* bound on the selections given to createTip
    MaxSelections, \* MAX_SELECTIONS
    Buyers,
    Evals,         \* runs of evaluateTipSelections
    Outcomes,      \* runs of determineTipOutcomes
    Enabled,       \* the switches of both crons
    MaxFaults      \* bound on crashes and failed database calls

ASSUME ResultsAssumption == Results \subseteq Score

ASSUME BoundsAssumption ==
    /\ MaxTabs \in Nat
    /\ MaxDrafted \in Nat
    /\ MaxSelections \in Nat
    /\ MaxFaults \in Nat
    /\ Enabled \in BOOLEAN

\* The rows of createTip are named after no call.
ASSUME CallsAssumption == IsFiniteSet(Calls) /\ "create" \notin Calls

VARIABLES
    match,    \* where each match is
    score,    \* its final score, once it is in the database
    tip,      \* the tips row
    rows,     \* the committed tip_selections rows
    purchase, \* the purchases row of each buyer
    tabs,     \* in how many tabs the tipster works; chosen once
    call,     \* calls of the tipster
    eval,     \* selections each judging run has still to save, with the verdict
    run,      \* deciding runs: where they are and what they hold in memory
    faults

game == <<match, score>>
jobs == <<eval, run>>
vars == <<match, score, tip, rows, purchase, tabs, call, eval, run, faults>>

-----------------------------------------------------------------------------
(* Rows *)

\* "early" is scheduled and at least twelve hours ahead, "soon" scheduled and
\* less; "off" is cancelled or postponed.
Phases    == {"early", "soon", "live", "finished", "off"}
Scheduled == {"early", "soon"}

NoScore == [home |-> -1, away |-> -1]

\* isCorrect and isVoid of a selection, together.
Verdicts == {"none", "correct", "incorrect", "void"}

Decided == {"won", "lost", "void"}

\* total_odds and earliest_match_date are computed together from a list of
\* selections; "totals" is that list.
NoTip == [status |-> "none", published |-> FALSE, totals |-> {}]

Values   == {mapPredictionString(t) : t \in Texts}
Keys     == Matches \X Values
Ids      == ((Calls \cup {"create"}) \X Matches) \X Values
Row      == [id : Ids, match : Matches, value : Values, verdict : Verdicts]
TipRow   == [status : Decided \cup {"pending"}, published : BOOLEAN,
             totals : SUBSET Keys]

\* uk_tip_selections, within one tip.
Key(r)    == <<r.match, r.value>>
KeysOf(S) == {Key(r) : r \in S}
IdsOf(S)  == {r.id : r \in S}

NewRow(by, m, v) ==
    [id |-> <<<<by, m>>, v>>, match |-> m, value |-> v, verdict |-> "none"]

-----------------------------------------------------------------------------
(* createTip *)

\* Of a well-formed draft only the number of selections is checked.
validateCreateTipDto(S) == Cardinality(S) <= MaxSelections

\* Every match must be scheduled and ahead, and no two selections the same once
\* they are mapped; nothing else is asked of them together.
Create ==
    /\ tip = NoTip
    /\ \E S \in SUBSET (Matches \X Texts) :
         LET drafted == {NewRow("create", s[1], mapPredictionString(s[2])) : s \in S}
         IN  /\ validateCreateTipDto(S)
             /\ Cardinality(S) <= MaxDrafted
             /\ \A s \in S : match[s[1]] \in Scheduled
             /\ Cardinality(drafted) = Cardinality(S)
             /\ rows' = drafted
             /\ tip' = [NoTip EXCEPT !.status = "pending", !.totals = KeysOf(drafted)]
    /\ UNCHANGED <<game, purchase, tabs, call, jobs, faults>>

-----------------------------------------------------------------------------
(* Calls of the tipster *)

NoCall == [pc |-> "idle", kind |-> "none", tip |-> NoTip, row |-> {}, totals |-> {}]
Over   == [NoCall EXCEPT !.pc = "done"]

InProgress == {c \in Calls : call[c].pc \notin {"idle", "done"}}

Finished(c) == call' = [call EXCEPT ![c] = Over]

\* A fault for TLC to find: a published tip is not turned away.
BeginUnchecked(c, kind, target) ==
    /\ call[c] = NoCall
    /\ Cardinality(InProgress) < tabs
    /\ tip # NoTip
    /\ call' = [call EXCEPT ![c] = [pc |-> "begun", kind |-> kind, tip |-> tip,
                                    row |-> target, totals |-> {}]]
    /\ UNCHANGED <<game, tip, rows, purchase, tabs, jobs, faults>>

\* The checks every call begins with, and the tip it holds from then on.
Begin(c, kind, target) ==
    /\ call[c] = NoCall
    /\ Cardinality(InProgress) < tabs
    /\ tip # NoTip
    /\ ~tip.published
    /\ call' = [call EXCEPT ![c] = [pc |-> "begun", kind |-> kind, tip |-> tip,
                                    row |-> target, totals |-> {}]]
    /\ UNCHANGED <<game, tip, rows, purchase, tabs, jobs, faults>>

BeginAdd(c) ==
    \E m \in Matches, t \in Texts :
        /\ match[m] \in Scheduled
        /\ Begin(c, "add", {NewRow(c, m, mapPredictionString(t))})

BeginRemove(c)  == \E r \in rows : Begin(c, "remove", {r})
BeginUpdate(c)  == Begin(c, "update", {})
BeginPublish(c) == Begin(c, "publish", {})

Exclusive == {"MATCH_RESULT", "DOUBLE_CHANCE", "HANDICAP"}

Rivals(r) == {q \in rows : /\ r.value.type \in Exclusive
                           /\ q.value.type \in Exclusive
                           /\ q.match = r.match}

Chosen(c, kind, r) ==
    call' = [call EXCEPT ![c].pc = "chosen", ![c].kind = kind, ![c].row = {r}]

\* addSelection: a selection that is there already is taken out, one of an
\* exclusive type takes the place of another on the same match, and any other is
\* inserted.
ChooseChange(c) ==
    /\ call[c].pc = "begun" /\ call[c].kind = "add"
    /\ \E new \in call[c].row :
         LET same == {q \in rows : Key(q) = Key(new)}
         IN  \/ \E q \in same : Chosen(c, "toggle", q)
             \/ /\ same = {}
                /\ \E q \in Rivals(new) :
                     Chosen(c, "replace", [q EXCEPT !.value = new.value])
             \/ /\ same = {} /\ Rivals(new) = {}
                /\ Cardinality(rows) < MaxSelections
                /\ Chosen(c, "insert", new)
             \/ /\ same = {} /\ Rivals(new) = {}
                /\ Cardinality(rows) >= MaxSelections
                /\ Finished(c)
    /\ UNCHANGED <<game, tip, rows, purchase, tabs, jobs, faults>>

\* What the change of a call makes of a set of rows.
Changed(c, S) ==
    LET ids == IdsOf(call[c].row)
    IN  CASE call[c].kind = "insert" -> S \cup call[c].row
          [] call[c].kind \in {"toggle", "remove"} -> {q \in S : q.id \notin ids}
          [] call[c].kind = "replace" ->
                 {IF q.id \in ids
                  THEN [q EXCEPT !.value = (CHOOSE r \in call[c].row : TRUE).value]
                  ELSE q : q \in S}
          [] OTHER -> S

\* Another call has written the row, or a row with the key, and not committed.
RowHeld(c) ==
    \E d \in InProgress \ {c}, r \in call[c].row :
        /\ call[d].pc = "written"
        /\ \/ r.id \in IdsOf(call[d].row)
           \/ Key(r) \in KeysOf(call[d].row)

\* The change, and the totals of the rows the transaction sees with it.  A key
\* that is taken by now ends the call.
WriteRow(c) ==
    /\ \/ call[c].pc = "chosen"
       \/ call[c].pc = "begun" /\ call[c].kind = "remove"
    /\ call[c].kind # "publish"
    /\ ~RowHeld(c)
    /\ LET after == Changed(c, rows)
       IN  IF Cardinality(KeysOf(after)) = Cardinality(after)
           THEN call' = [call EXCEPT ![c].pc = "written", ![c].totals = KeysOf(after)]
           ELSE Finished(c)
    /\ UNCHANGED <<game, tip, rows, purchase, tabs, jobs, faults>>

\* A fault for TLC to find: the totals are computed before the change.
CommitAddOldTotals(c) ==
    /\ call[c].pc = "written" /\ call[c].kind # "remove"
    /\ rows' = Changed(c, rows)
    /\ tip' = [tip EXCEPT !.totals = KeysOf(rows)]
    /\ Finished(c)
    /\ UNCHANGED <<game, purchase, tabs, jobs, faults>>

\* addSelection updates the two columns and no others.
CommitAdd(c) ==
    /\ call[c].pc = "written" /\ call[c].kind # "remove"
    /\ rows' = Changed(c, rows)
    /\ tip' = [tip EXCEPT !.totals = call[c].totals]
    /\ Finished(c)
    /\ UNCHANGED <<game, purchase, tabs, jobs, faults>>

\* removeSelection saves the tip it has loaded.
CommitRemove(c) ==
    /\ call[c].pc = "written" /\ call[c].kind = "remove"
    /\ rows' = Changed(c, rows)
    /\ tip' = [call[c].tip EXCEPT !.totals = call[c].totals]
    /\ Finished(c)
    /\ UNCHANGED <<game, purchase, tabs, jobs, faults>>

\* updateTip saves the tip it has loaded; title, description and price are not
\* in the model.
CommitUpdate(c) ==
    /\ call[c].pc = "begun" /\ call[c].kind = "update"
    /\ tip' = call[c].tip
    /\ Finished(c)
    /\ UNCHANGED <<game, rows, purchase, tabs, jobs, faults>>

\* publishTip wants a selection, and twelve hours before every match.
CheckPublish(c) ==
    /\ call[c].pc = "begun" /\ call[c].kind = "publish"
    /\ IF rows # {} /\ \A r \in rows : match[r.match] = "early"
       THEN call' = [call EXCEPT ![c].pc = "chosen"]
       ELSE Finished(c)
    /\ UNCHANGED <<game, tip, rows, purchase, tabs, jobs, faults>>

CommitPublish(c) ==
    /\ call[c].pc = "chosen" /\ call[c].kind = "publish"
    /\ tip' = [call[c].tip EXCEPT !.published = TRUE, !.status = "pending"]
    /\ Finished(c)
    /\ UNCHANGED <<game, rows, purchase, tabs, jobs, faults>>

-----------------------------------------------------------------------------
(* evaluateTipSelections *)

Judged(r) ==
    [r EXCEPT !.verdict = evaluateSelection(r.value, score[r.match])]

\* A fault for TLC to find: no goals are taken for no score.
ReadyWithGoals(r) ==
    /\ r.verdict = "none"
    /\ match[r.match] = "finished"
    /\ score[r.match].home > 0

\* The rows a run will judge: its match is over and has its scores.
ReadyToJudge(r) ==
    /\ r.verdict = "none"
    /\ match[r.match] = "finished"
    /\ score[r.match] # NoScore

StartEval(e) ==
    /\ Enabled
    /\ eval[e] = {}
    /\ \E r \in rows : ReadyToJudge(r)
    /\ eval' = [eval EXCEPT ![e] = {Judged(r) : r \in {q \in rows : ReadyToJudge(q)}}]
    /\ UNCHANGED <<game, tip, rows, purchase, tabs, call, run, faults>>

\* The row is saved as it was loaded, with the verdict.  A row that was deleted
\* meanwhile cannot be saved: its tip was not loaded, and tip_id is NOT NULL.
SaveVerdict(e) ==
    \E r \in eval[e] :
        /\ eval' = [eval EXCEPT ![e] = @ \ {r}]
        /\ rows' = {IF q.id = r.id THEN r ELSE q : q \in rows}
        /\ UNCHANGED <<game, tip, purchase, tabs, call, run, faults>>

\* A failed save is counted, and the loop goes on.
FailVerdict(e) ==
    /\ faults < MaxFaults
    /\ \E r \in eval[e] : eval' = [eval EXCEPT ![e] = @ \ {r}]
    /\ faults' = faults + 1
    /\ UNCHANGED <<game, tip, rows, purchase, tabs, call, run>>

-----------------------------------------------------------------------------
(* determineTipOutcomes *)

\* A fault for TLC to find: the outcome does not wait for every selection.
OutcomeEarly(S) ==
    IF S = {} THEN "lost"
    ELSE IF \E r \in S : r.verdict = "void" THEN "void"
    ELSE IF \A r \in S : r.verdict = "correct" THEN "won"
    ELSE IF \E r \in S : r.verdict = "incorrect" THEN "lost" ELSE "none"

determineTipOutcome(S) ==
    IF S = {} THEN "lost"
    ELSE IF \E r \in S : match[r.match] # "finished" \/ r.verdict = "none" THEN "none"
    ELSE IF \E r \in S : r.verdict = "void" THEN "void"
    ELSE IF \A r \in S : r.verdict = "correct" THEN "won" ELSE "lost"

NoRun == [pc |-> "idle", tip |-> NoTip, ids |-> {}, todo |-> {}]

\* A fault for TLC to find: a tip that is not ready is saved all the same.
DetermineUnready(o) ==
    /\ Enabled
    /\ run[o].pc = "idle"
    /\ tip.status = "pending"
    /\ run' = [run EXCEPT ![o] =
                  [pc   |-> "read",
                   tip  |-> [tip EXCEPT !.status = determineTipOutcome(rows)],
                   ids  |-> IdsOf(rows),
                   todo |-> {}]]
    /\ UNCHANGED <<game, tip, rows, purchase, tabs, call, eval, faults>>

\* A run loads the tip with its selections and their matches.  The outcome is
\* computed when it comes to the tip, from what it has loaded.
Determine(o) ==
    /\ Enabled
    /\ run[o].pc = "idle"
    /\ tip.status = "pending"
    /\ determineTipOutcome(rows) # "none"
    /\ run' = [run EXCEPT ![o] =
                  [pc   |-> "read",
                   tip  |-> [tip EXCEPT !.status = determineTipOutcome(rows)],
                   ids  |-> IdsOf(rows),
                   todo |-> {}]]
    /\ UNCHANGED <<game, tip, rows, purchase, tabs, call, eval, faults>>

Purchases == {b \in Buyers : purchase[b].status # "none"}

ReadPurchases(o) ==
    /\ run[o].pc = "read"
    /\ run' = [run EXCEPT ![o].pc = "mark",
                          ![o].todo = {<<b, purchase[b].status>> : b \in Purchases}]
    /\ UNCHANGED <<game, tip, rows, purchase, tabs, call, eval, faults>>

\* A fault for TLC to find: only completed purchases are marked.
MarkCompleted(o) ==
    /\ run[o].pc = "mark"
    /\ \E p \in run[o].todo :
         /\ run' = [run EXCEPT ![o].todo = @ \ {p}]
         /\ purchase' = IF purchase[p[1]].outcome # "none" THEN purchase
                        ELSE [purchase EXCEPT ![p[1]].outcome = run[o].tip.status]
    /\ UNCHANGED <<game, tip, rows, tabs, call, eval, faults>>

\* Each purchase is saved as it was read, with the outcome.
MarkPurchase(o) ==
    /\ run[o].pc = "mark"
    /\ \E p \in run[o].todo :
         /\ run' = [run EXCEPT ![o].todo = @ \ {p}]
         /\ purchase' = [purchase EXCEPT ![p[1]] =
                            [status |-> p[2], outcome |-> run[o].tip.status]]
    /\ UNCHANGED <<game, tip, rows, tabs, call, eval, faults>>

\* A fault for TLC to find: selections that were added meanwhile do not matter.
NothingAdded(o) == TRUE

\* TypeORM makes the rows of a one-to-many relation those of the entity: it would
\* take tip_id from a selection that was added since, and tip_id is NOT NULL.
NoRowAdded(o) == IdsOf(rows) \subseteq run[o].ids

\* The tip is saved as it was loaded, with the outcome, or the save fails.
SaveOutcome(o) ==
    /\ run[o].pc = "mark" /\ run[o].todo = {}
    /\ tip' = IF NoRowAdded(o) THEN run[o].tip ELSE tip
    /\ run' = [run EXCEPT ![o] = NoRun]
    /\ UNCHANGED <<game, rows, purchase, tabs, call, eval, faults>>

\* A failed database call is counted; the purchases saved by then stay marked.
FailOutcome(o) ==
    /\ faults < MaxFaults
    /\ run[o].pc # "idle"
    /\ run' = [run EXCEPT ![o] = NoRun]
    /\ faults' = faults + 1
    /\ UNCHANGED <<game, tip, rows, purchase, tabs, call, eval>>

-----------------------------------------------------------------------------
(* Around it *)

\* purchaseTip: the tip must be published; its matches and its status are not
\* looked at.
Buy(b) ==
    /\ tip.published
    /\ purchase[b].status = "none"
    /\ purchase' = [purchase EXCEPT ![b].status = "PENDING"]
    /\ UNCHANGED <<game, tip, rows, tabs, call, jobs, faults>>

\* The payment of a purchase, told by a webhook or a cron.
Pay(b) ==
    /\ purchase[b].status = "PENDING"
    /\ \E s \in {"COMPLETED", "FAILED"} :
         purchase' = [purchase EXCEPT ![b].status = s]
    /\ UNCHANGED <<game, tip, rows, tabs, call, jobs, faults>>

Quiet ==
    /\ InProgress = {}
    /\ \A e \in Evals : eval[e] = {}
    /\ \A o \in Outcomes : run[o].pc = "idle"

\* The clock and whoever keeps match_data up to date.  A match lasts longer than
\* a call or a run: what began before the kick-off is over when the match is.
PlayMatch(m) ==
    /\ \/ match[m] = "early" /\ match' = [match EXCEPT ![m] = "soon"]
       \/ match[m] = "soon"  /\ match' = [match EXCEPT ![m] = "live"]
       \/ match[m] = "live"  /\ Quiet /\ match' = [match EXCEPT ![m] = "finished"]
       \/ match[m] \in {"early", "soon", "live"} /\ match' = [match EXCEPT ![m] = "off"]
    /\ UNCHANGED <<score, tip, rows, purchase, tabs, call, jobs, faults>>

EnterScore(m) ==
    /\ match[m] = "finished"
    /\ score[m] = NoScore
    /\ \E s \in Results : score' = [score EXCEPT ![m] = s]
    /\ UNCHANGED <<match, tip, rows, purchase, tabs, call, jobs, faults>>

\* Open transactions roll back; the crons forget what they held.
Crash ==
    /\ faults < MaxFaults
    /\ faults' = faults + 1
    /\ call' = [c \in Calls |-> IF c \in InProgress THEN Over ELSE call[c]]
    /\ eval' = [e \in Evals |-> {}]
    /\ run' = [o \in Outcomes |-> NoRun]
    /\ UNCHANGED <<game, tip, rows, purchase, tabs>>

-----------------------------------------------------------------------------
Init ==
    /\ match = [m \in Matches |-> "early"]
    /\ score = [m \in Matches |-> NoScore]
    /\ tip = NoTip
    /\ rows = {}
    /\ purchase = [b \in Buyers |-> [status |-> "none", outcome |-> "none"]]
    /\ tabs \in 1..MaxTabs
    /\ call = [c \in Calls |-> NoCall]
    /\ eval = [e \in Evals |-> {}]
    /\ run = [o \in Outcomes |-> NoRun]
    /\ faults = 0

TipsterStep(c) ==
    \/ BeginAdd(c) \/ BeginRemove(c) \/ BeginUpdate(c) \/ BeginPublish(c)
    \/ ChooseChange(c) \/ WriteRow(c) \/ CommitAdd(c) \/ CommitRemove(c)
    \/ CommitUpdate(c) \/ CheckPublish(c) \/ CommitPublish(c)

EvalStep(e) == StartEval(e) \/ SaveVerdict(e)
OutcomeStep(o) ==
    Determine(o) \/ ReadPurchases(o) \/ MarkPurchase(o) \/ SaveOutcome(o)

\* Everything may be over: the tip decided, no call left, the matches played.
Resting ==
    /\ Quiet
    /\ UNCHANGED vars

Next ==
    \/ Create
    \/ \E c \in Calls : TipsterStep(c)
    \/ \E e \in Evals : EvalStep(e) \/ FailVerdict(e)
    \/ \E o \in Outcomes : OutcomeStep(o) \/ FailOutcome(o)
    \/ \E b \in Buyers : Buy(b) \/ Pay(b)
    \/ \E m \in Matches : PlayMatch(m) \/ EnterScore(m)
    \/ Crash
    \/ Resting

Spec == Init /\ [][Next]_vars

\* The crons tick again and again and their runs come to an end.
FairSpec ==
    /\ Spec
    /\ \A e \in Evals : WF_vars(EvalStep(e))
    /\ \A o \in Outcomes : WF_vars(OutcomeStep(o))

-----------------------------------------------------------------------------
(* Properties *)

CallRow == [pc : {"idle", "begun", "chosen", "written", "done"},
            kind : {"none", "add", "toggle", "replace", "insert", "remove",
                    "update", "publish"},
            tip : TipRow \cup {NoTip}, row : SUBSET Row, totals : SUBSET Keys]

PurchaseStatus == {"none", "PENDING", "COMPLETED", "FAILED"}

TypeOK ==
    /\ match \in [Matches -> Phases]
    /\ score \in [Matches -> Score \cup {NoScore}]
    /\ tip \in TipRow \cup {NoTip}
    /\ rows \subseteq Row
    /\ purchase \in [Buyers -> [status : PurchaseStatus, outcome : Decided \cup {"none"}]]
    /\ tabs \in Nat
    /\ call \in [Calls -> CallRow]
    /\ eval \in [Evals -> SUBSET Row]
    /\ run \in [Outcomes -> [pc : {"idle", "read", "mark"}, tip : TipRow \cup {NoTip},
                             ids : SUBSET Ids, todo : SUBSET (Buyers \X PurchaseStatus)]]
    /\ faults \in 0..MaxFaults

Comes(verdict, r) == evaluateSelection(r.value, score[r.match]) = verdict

AllOver == rows # {} /\ \A r \in rows : match[r.match] = "finished"

\* A tip for sale is won only if every prediction comes true on the final
\* scores, lost only if one does not, void only if one cannot be judged; none of
\* them before all its matches are over.  The money follows the status, and
\* stale saves of both crons and crashes do not bend it.  Of overlapping calls
\* one can publish a tip another has emptied: such a tip is lost at once.
\* (tip-outcome-determination.scheduler.ts:126-148)
OutcomeEarned ==
    tip.published /\ tip.status \in Decided =>
        /\ tip.status = "won"  => AllOver /\ \A r \in rows : Comes("correct", r)
        /\ tip.status = "void" => AllOver /\ \E r \in rows : Comes("void", r)
        /\ tip.status = "lost" /\ tabs = 1 =>
               AllOver /\ \E r \in rows : Comes("incorrect", r)

\* The settlement cron acts on a published tip as soon as it is decided: when its
\* matches are over the outcome never changes again, whatever calls overlapped.
\* (EscrowSettlement relies on it.)  Only the tip that was published empty may be
\* taken back before.
\* (tips.service.ts:970, 1105, 1482, 1737, tip-outcome-determination.scheduler.ts:139)
OutcomeFinal ==
    [][tip.published /\ tip.status \in Decided /\ (AllOver \/ tabs = 1) =>
           tip'.status = tip.status]_vars

\* A tipster who does one thing at a time cannot change the selections of a
\* published tip, and no cron takes the tip back with a stale save.
\* (tips.service.ts:970, 1105, 1482, tip-outcome-determination.scheduler.ts:139)
PublishedStays ==
    [][tabs = 1 /\ tip.published =>
           tip'.published /\ KeysOf(rows') = KeysOf(rows)]_vars

\* The odds and the date of a tip that is for sale are those of its selections,
\* unless two calls of the tipster overlapped: a draft may get stale ones back
\* from the deciding cron, but no such draft is published.
\* (tips.service.ts:1209, 1369, 1500)
TotalsAgree ==
    tabs = 1 /\ tip.published => tip.totals = KeysOf(rows)

\* A purchase does not keep an outcome other than that of its tip: what a run
\* that failed or overlapped has marked is marked again.
\* (tip-outcome-determination.scheduler.ts:126-139)
OutcomesAgree ==
    tip.published /\ tip.status \in {"won", "void"} =>
        \A b \in Buyers : purchase[b].outcome \in {"none", tip.status}

\* What is stored for a prediction is judged as the tipster meant it
\* (PredictionsCohere, a fact about the mapping and the judging alone, looked at
\* before there is a tip).
\* (tips.service.ts:680-826, prediction-evaluation.service.ts:112-325)
PredictionsJudged ==
    tip = NoTip /\ tabs = 1 /\ (\A m \in Matches : match[m] = "early")
        => PredictionsCohere

\* When its matches are over and their scores known, a published tip is decided.
EventuallyDecided ==
    (tip.published /\ AllOver /\ (\A r \in rows : score[r.match] # NoScore))
        ~> (tip.status \in Decided)

\* "cancelled/postponed matches are always void"
\* (prediction-evaluation.service.ts:27)
CancelledIsVoid ==
    (/\ tip.published /\ rows # {}
     /\ \A r \in rows : match[r.match] = "off")
        ~> (\A r \in rows : r.verdict = "void")

\* "Cannot add selections: tip has already been published and is available for
\* purchase" (tips.service.ts:1107), and the same for removing and updating.
PublishedFrozen ==
    [][tip.published => tip'.published /\ KeysOf(rows') = KeysOf(rows)]_vars

\* Of the exclusive types a tip has one selection for each match
\* (mutuallyExclusiveTypes, tips.service.ts:1162).
OneExclusive ==
    \A q, r \in rows :
        q.match = r.match /\ {q.value.type, r.value.type} \subseteq Exclusive => q = r

\* Marking the outcome does not undo the payment of a purchase: "Update all
\* purchases of this tip" (tip-outcome-determination.scheduler.ts:126).
PaidStaysPaid ==
    [][\A b \in Buyers :
           purchase[b].status = "COMPLETED" => purchase'[b].status = "COMPLETED"]_vars

=============================================================================
