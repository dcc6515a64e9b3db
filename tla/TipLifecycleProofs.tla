------------------------- MODULE TipLifecycleProofs -------------------------
(***************************************************************************)
(* Proofs about TipLifecycle, for all matches, predictions, calls of the   *)
(* tipster, runs of both crons, buyers and faults: type correctness, that  *)
(* the outcome of a published tip is earned and final and the one its      *)
(* purchases keep, and that a tipster who does one thing at a time cannot  *)
(* change a published tip or sell it with stale odds.                      *)
(***************************************************************************)
EXTENDS TipLifecycle, FiniteSetTheorems, TLAPS

(***************************************************************************)
(* The inductive invariant.  The tip is protected by what everybody else   *)
(* can still know of it: no call that began before the publication lives   *)
(* to see a match end, and no run of the outcome cron can save a tip it    *)
(* read before the publication, as it would take the new selections from   *)
(* it.                                                                     *)
(***************************************************************************)
InCall(x) == x.pc \notin {"idle", "done"}
Live(c)   == InCall(call[c])
NoneLive  == \A c \in Calls : ~Live(c)

Ended(m)  == match[m] = "finished"
NoneEnded == \A r \in rows : ~Ended(r.match)

\* The match a selection was made for, and the call that made it.
MatchOf(i) == i[1][2]
MakerOf(i) == i[1][1]

\* Every selection is judged, and what follows of it.
Settled == rows # {} /\ \A r \in rows : Ended(r.match) /\ r.verdict # "none"

Outcome(S) ==
    IF \E r \in S : r.verdict = "void" THEN "void"
    ELSE IF \A r \in S : r.verdict = "correct" THEN "won" ELSE "lost"

\* A verdict is there only when it can be, and it is the right one.
Judgement(r) ==
    /\ Ended(r.match)
    /\ score[r.match] # NoScore
    /\ r.verdict = evaluateSelection(r.value, score[r.match])

RowsOK ==
    /\ \A r \in rows : MatchOf(r.id) = r.match
    /\ \A r \in rows : r.verdict # "none" => Judgement(r)
    /\ \A q, r \in rows : q.id = r.id => q = r
    /\ \A c \in Calls, r \in rows : MakerOf(r.id) = c => call[c].pc = "done"

\* What a judging run holds is still true of the selection, if that exists.
EvalOK(S) ==
    \A r \in S : /\ MatchOf(r.id) = r.match
                 /\ Judgement(r)
                 /\ \A q \in rows : q.id = r.id => q.value = r.value

\* A call holds an unpublished tip and a selection; it adds or changes none of a
\* match that has ended, and it publishes none.
CallOK(c, x) ==
    InCall(x) =>
        /\ x.tip \in TipRow /\ ~x.tip.published
        /\ \A q, r \in x.row : q = r
        /\ \A r \in x.row :
             /\ MatchOf(r.id) = r.match
             /\ x.kind \in {"add", "insert", "replace"} => ~Ended(r.match)
             /\ x.kind \in {"add", "insert"} => r.verdict = "none" /\ MakerOf(r.id) = c
        /\ x.kind = "publish" /\ x.pc = "chosen" => NoneEnded

\* A deciding run that has read an unpublished tip cannot save it any more once it
\* is published; one that has read a published tip with selections knows its
\* outcome.
RunOK(x) ==
    x.pc # "idle" =>
        /\ x.tip \in TipRow /\ x.tip.status \in Decided
        /\ \A i \in x.ids : Ended(MatchOf(i))
        /\ tip.published /\ ~x.tip.published => \A r \in rows : r.id \notin x.ids
        /\ x.ids = {} => x.tip.status = "lost"
        /\ x.tip.published /\ x.ids # {} =>
               /\ tip.published /\ Settled /\ NoneLive
               /\ x.tip.status = Outcome(rows)
               /\ tip.status \in {"pending", Outcome(rows)}

TipOK ==
    /\ tip.published => NoneEnded \/ NoneLive
    /\ tip.published /\ tip.status \in {"won", "void"} =>
           Settled /\ tip.status = Outcome(rows)
    /\ tip = NoTip => /\ rows = {} /\ NoneLive
                      /\ \A e \in Evals : eval[e] = {}
                      /\ \A o \in Outcomes : run[o].pc = "idle"

\* A tipster who does one thing at a time.
OneTab ==
    tabs = 1 =>
        /\ \A c, d \in Calls : Live(c) /\ Live(d) => c = d
        /\ tip.published => rows # {} /\ NoneLive
        /\ \A c \in Calls :
             call[c].kind = "publish" /\ call[c].pc = "chosen" => rows # {}
        /\ \A o \in Outcomes : run[o].pc # "idle" /\ run[o].tip.published => run[o].ids # {}
        /\ tip.published /\ tip.status = "lost" =>
               Settled /\ tip.status = Outcome(rows)

Inv ==
    /\ TypeOK /\ RowsOK /\ TipOK /\ OneTab
    /\ \A e \in Evals : EvalOK(eval[e])
    /\ \A c \in Calls : CallOK(c, call[c])
    /\ \A o \in Outcomes : RunOK(run[o])

-----------------------------------------------------------------------------
(* Rows *)

LEMMA NoTipType ==
    /\ NoTip \notin TipRow /\ ~NoTip.published /\ NoTip.status = "none"
BY DEF NoTip, TipRow, Decided

LEMMA NoCallType ==
    /\ NoCall \in CallRow /\ NoCall.pc = "idle" /\ NoCall.kind = "none"
    /\ Over \in CallRow /\ Over.pc = "done" /\ Over.kind = "none"
BY DEF NoCall, Over, CallRow

LEMMA NoRunType ==
    /\ NoRun \in [pc : {"idle", "read", "mark"}, tip : TipRow \cup {NoTip},
                  ids : SUBSET Ids, todo : SUBSET (Buyers \X PurchaseStatus)]
    /\ NoRun.pc = "idle"
BY DEF NoRun

\* The judging gives a verdict, never none.
LEMMA Verdict ==
    ASSUME NEW v, NEW s
    PROVE  evaluateSelection(v, s) \in {"correct", "incorrect", "void"}
BY DEF evaluateSelection, evaluateMatchResult, evaluateOverUnder,
       evaluateBothTeamsToScore, evaluateDoubleChance, evaluateHandicap,
       evaluateCorrectScore, Judge

LEMMA NewRowType ==
    ASSUME NEW c \in Calls \cup {"create"}, NEW m \in Matches, NEW t \in Texts
    PROVE  LET r == NewRow(c, m, mapPredictionString(t))
           IN  /\ r \in Row /\ r.match = m /\ r.verdict = "none"
               /\ MatchOf(r.id) = m /\ MakerOf(r.id) = c
BY DEF NewRow, Row, Ids, Values, Verdicts, MatchOf, MakerOf

\* When every selection is judged, determineTipOutcome says what follows of it.
LEMMA Decides ==
    ASSUME NEW S, determineTipOutcome(S) # "none", S # {}
    PROVE  /\ determineTipOutcome(S) = Outcome(S)
           /\ \A r \in S : Ended(r.match) /\ r.verdict # "none"
BY DEF determineTipOutcome, Outcome, Ended

LEMMA DecidesType ==
    ASSUME NEW S, determineTipOutcome(S) # "none"
    PROVE  determineTipOutcome(S) \in Decided
BY DEF determineTipOutcome, Decided

LEMMA OutcomeType == ASSUME NEW S PROVE Outcome(S) \in Decided
BY DEF Outcome, Decided

-----------------------------------------------------------------------------
(* Calls of the tipster *)

\* A step of one call that leaves the tables alone.
LEMMA CallMoves ==
    ASSUME Inv, NEW c \in Calls, NEW x \in CallRow, CallOK(c, x),
           call' = [call EXCEPT ![c] = x], call[c].pc # "done",
           InCall(x) => Live(c) \/ (tip # NoTip /\ ~tip.published),
           InCall(x) /\ tabs = 1 => Live(c) \/ NoneLive,
           tabs = 1 /\ x.kind = "publish" /\ x.pc = "chosen" => rows # {},
           UNCHANGED <<game, tip, rows, purchase, tabs, jobs, faults>>
    PROVE  Inv'
<1>1. \A d \in Calls : call'[d] = IF d = c THEN x ELSE call[d]
  BY DEF Inv, TypeOK
<1>2. TypeOK'
  BY DEF Inv, TypeOK, game, jobs
<1>3. NoneLive /\ (tip.published \/ tip = NoTip) => NoneLive'
  BY <1>1 DEF NoneLive, Live
<1>4. RowsOK'
  <2>1. \A r \in rows : r.verdict # "none" => Judgement(r)'
    BY DEF Inv, RowsOK, Judgement, Ended, game
  <2> QED
    BY <1>1, <2>1 DEF Inv, RowsOK
<1>5. TipOK'
  BY <1>3 DEF Inv, TipOK, NoneEnded, Settled, Ended, game, jobs
<1>6. OneTab'
  <2> SUFFICES ASSUME tabs = 1 PROVE OneTab'
    BY DEF OneTab
  <2>1. \A d, e \in Calls : Live(d)' /\ Live(e)' => d = e
    BY <1>1 DEF Inv, OneTab, Live, NoneLive
  <2>2. tip.published => rows # {} /\ NoneLive'
    BY <1>3 DEF Inv, OneTab
  <2>3. \A d \in Calls : call'[d].kind = "publish" /\ call'[d].pc = "chosen" => rows # {}
    BY <1>1 DEF Inv, OneTab
  <2>4. tip.published /\ tip.status = "lost" => Settled' /\ tip.status = Outcome(rows)
    BY DEF Inv, OneTab, Settled, Ended, game
  <2>5. \A o \in Outcomes : run'[o].pc # "idle" /\ run'[o].tip.published => run'[o].ids # {}
    BY DEF Inv, OneTab, jobs
  <2> QED
    BY <2>1, <2>2, <2>3, <2>4, <2>5 DEF OneTab
<1>7. ASSUME NEW e \in Evals PROVE EvalOK(eval[e])'
  BY DEF Inv, EvalOK, Judgement, Ended, game, jobs
<1>8. ASSUME NEW d \in Calls PROVE CallOK(d, call[d])'
  <2>1. CallOK(d, call'[d])
    BY <1>1 DEF Inv
  <2> QED
    BY <2>1 DEF CallOK, NoneEnded, Ended, game
<1>9. ASSUME NEW o \in Outcomes PROVE RunOK(run[o])'
  BY <1>3 DEF Inv, RunOK, Settled, Ended, game, jobs
<1> QED
  BY <1>2, <1>4, <1>5, <1>6, <1>7, <1>8, <1>9 DEF Inv

\* A call returns and leaves the tables alone.
LEMMA CallEnds ==
    ASSUME Inv, NEW c \in Calls, Live(c), Finished(c),
           UNCHANGED <<game, tip, rows, purchase, tabs, jobs, faults>>
    PROVE  Inv'
<1>1. /\ ~InCall(Over) /\ CallOK(c, Over) /\ Over \in CallRow
      /\ Over.kind = "none"
  BY NoCallType DEF CallOK, InCall
<1>2. call' = [call EXCEPT ![c] = Over] /\ call[c].pc # "done"
  BY DEF Finished, Live, InCall
<1> QED
  BY <1>1, <1>2, CallMoves

\* With one tab a call begins only when no other is in progress.
LEMMA OneByOne ==
    ASSUME Cardinality(InProgress) < tabs, tabs = 1 PROVE NoneLive
<1>1. IsFiniteSet(InProgress)
  BY CallsAssumption, FS_Subset DEF InProgress
<1>2. Cardinality(InProgress) = 0
  BY <1>1, FS_CardinalityType
<1>3. InProgress = {}
  BY <1>1, <1>2, FS_EmptySet
<1> QED
  BY <1>3 DEF InProgress, NoneLive, Live, InCall

\* What a call knows when it begins.
LEMMA BeginOK ==
    ASSUME Inv, NEW c \in Calls, NEW kind \in {"add", "remove", "update", "publish"},
           NEW target \in SUBSET Row, Begin(c, kind, target),
           \A q, r \in target : q = r,
           \A r \in target :
               /\ MatchOf(r.id) = r.match
               /\ kind = "add" => /\ ~Ended(r.match) /\ r.verdict = "none"
                                  /\ MakerOf(r.id) = c
    PROVE  Inv'
<1> DEFINE x == [pc |-> "begun", kind |-> kind, tip |-> tip, row |-> target, totals |-> {}]
<1>1. tip \in TipRow /\ ~tip.published /\ tip # NoTip
  BY DEF Inv, TypeOK, Begin
<1>2. /\ x \in CallRow /\ x.pc = "begun" /\ x.kind = kind /\ x.tip = tip
      /\ x.row = target
  BY <1>1 DEF CallRow
<1>3. call' = [call EXCEPT ![c] = x] /\ call[c].pc # "done"
  BY NoCallType DEF Begin
<1> HIDE DEF x
<1>4. CallOK(c, x)
  BY <1>1, <1>2 DEF CallOK
<1>5. tabs = 1 => NoneLive
  BY OneByOne DEF Begin
<1> QED
  BY <1>1, <1>2, <1>3, <1>4, <1>5, CallMoves DEF Begin

LEMMA BeginSteps ==
    ASSUME Inv, NEW c \in Calls,
           BeginAdd(c) \/ BeginRemove(c) \/ BeginUpdate(c) \/ BeginPublish(c)
    PROVE  Inv'
<1>1. CASE BeginAdd(c)
  <2>1. PICK m \in Matches, t \in Texts :
            /\ match[m] \in Scheduled
            /\ Begin(c, "add", {NewRow(c, m, mapPredictionString(t))})
    BY <1>1 DEF BeginAdd
  <2> DEFINE r == NewRow(c, m, mapPredictionString(t))
  <2>2. /\ r \in Row /\ r.match = m /\ r.verdict = "none"
        /\ MatchOf(r.id) = m /\ MakerOf(r.id) = c
    BY NewRowType
  <2>3. ~Ended(m)
    BY <2>1 DEF Ended, Scheduled
  <2>4. Begin(c, "add", {r})
    BY <2>1
  <2> HIDE DEF r
  <2> QED
    BY <2>2, <2>3, <2>4, BeginOK
<1>2. CASE BeginRemove(c)
  <2>1. PICK r \in rows : Begin(c, "remove", {r})
    BY <1>2 DEF BeginRemove
  <2>2. r \in Row /\ MatchOf(r.id) = r.match
    BY DEF Inv, TypeOK, RowsOK
  <2> QED
    BY <2>1, <2>2, BeginOK
<1>3. CASE BeginUpdate(c) \/ BeginPublish(c)
  BY <1>3, BeginOK DEF BeginUpdate, BeginPublish
<1> QED
  BY <1>1, <1>2, <1>3

\* A call has chosen its change: of a match that is ahead, unless it takes out.
LEMMA ChosenOK ==
    ASSUME Inv, NEW c \in Calls, NEW kind \in {"toggle", "replace", "insert"},
           NEW r \in Row, Live(c), Chosen(c, kind, r),
           MatchOf(r.id) = r.match,
           kind # "toggle" => ~Ended(r.match),
           kind = "insert" => r.verdict = "none" /\ MakerOf(r.id) = c,
           UNCHANGED <<game, tip, rows, purchase, tabs, jobs, faults>>
    PROVE  Inv'
<1> DEFINE x == [call[c] EXCEPT !.pc = "chosen", !.kind = kind, !.row = {r}]
<1>1. call[c] \in CallRow /\ CallOK(c, call[c]) /\ call[c].pc # "done"
  BY DEF Inv, TypeOK, Live, InCall
<1>2. /\ x \in CallRow /\ x.pc = "chosen" /\ x.kind = kind /\ x.tip = call[c].tip
      /\ x.row = {r}
  BY <1>1 DEF CallRow
<1>3. call' = [call EXCEPT ![c] = x]
  BY <1>1 DEF Chosen, Inv, TypeOK, CallRow
<1> HIDE DEF x
<1>4. CallOK(c, x)
  BY <1>1, <1>2 DEF CallOK, Live
<1> QED
  BY <1>1, <1>2, <1>3, <1>4, CallMoves

LEMMA ChooseStep == ASSUME Inv, NEW c \in Calls, ChooseChange(c) PROVE Inv'
<1>1. PICK new \in call[c].row :
         LET same == {q \in rows : Key(q) = Key(new)}
         IN  \/ \E q \in same : Chosen(c, "toggle", q)
             \/ /\ same = {}
                /\ \E q \in Rivals(new) :
                     Chosen(c, "replace", [q EXCEPT !.value = new.value])
             \/ /\ same = {} /\ Rivals(new) = {}
                /\ Cardinality(rows) < MaxSelections
                /\ Chosen(c, "insert", new)
             \/ /\ same = {} /\ Rivals(new) = {}
                /\ Cardinality(rows) >= MaxSelections
                /\ Finished(c)
  BY DEF ChooseChange
<1>2. /\ call[c].kind = "add" /\ Live(c) /\ call[c].pc = "begun"
      /\ UNCHANGED <<game, tip, rows, purchase, tabs, jobs, faults>>
  BY DEF ChooseChange, Live, InCall
<1>3. /\ new \in Row /\ MatchOf(new.id) = new.match /\ ~Ended(new.match)
      /\ new.verdict = "none" /\ MakerOf(new.id) = c
  BY <1>1, <1>2 DEF Inv, TypeOK, CallOK, CallRow, Live
<1>4. \A q \in rows : q \in Row /\ MatchOf(q.id) = q.match
  BY DEF Inv, TypeOK, RowsOK
<1>5. CASE \E q \in rows : Chosen(c, "toggle", q)
  BY <1>2, <1>4, <1>5, ChosenOK
<1>6. CASE \E q \in Rivals(new) : Chosen(c, "replace", [q EXCEPT !.value = new.value])
  <2>1. PICK q \in Rivals(new) : Chosen(c, "replace", [q EXCEPT !.value = new.value])
    BY <1>6
  <2> DEFINE r == [q EXCEPT !.value = new.value]
  <2>2. q \in rows /\ q.match = new.match
    BY DEF Rivals
  <2>3. r \in Row /\ r.id = q.id /\ r.match = q.match
    BY <1>3, <1>4, <2>2 DEF Row
  <2>4. Chosen(c, "replace", r)
    BY <2>1
  <2> HIDE DEF r
  <2> QED
    BY <1>2, <1>3, <1>4, <2>2, <2>3, <2>4, ChosenOK
<1>7. CASE Chosen(c, "insert", new)
  BY <1>2, <1>3, <1>7, ChosenOK
<1>8. CASE Finished(c)
  BY <1>2, <1>8, CallEnds
<1> QED
  BY <1>1, <1>5, <1>6, <1>7, <1>8

\* What a change makes of the selections.
LEMMA ChangedType ==
    ASSUME Inv, NEW c \in Calls
    PROVE  Changed(c, rows) \in SUBSET Row /\ KeysOf(Changed(c, rows)) \in SUBSET Keys
<1>1. call[c].row \subseteq Row /\ rows \subseteq Row
  BY DEF Inv, TypeOK, CallRow
<1>2. ASSUME NEW q \in rows, q.id \in IdsOf(call[c].row)
      PROVE  [q EXCEPT !.value = (CHOOSE r \in call[c].row : TRUE).value] \in Row
  <2>1. (CHOOSE r \in call[c].row : TRUE) \in Row
    BY <1>1, <1>2 DEF IdsOf
  <2> QED
    BY <1>1, <2>1 DEF Row
<1>3. Changed(c, rows) \subseteq Row
  BY <1>1, <1>2 DEF Changed
<1>4. \A S \in SUBSET Row : KeysOf(S) \subseteq Keys
  BY DEF KeysOf, Key, Row, Keys
<1> QED
  BY <1>3, <1>4

LEMMA WriteStep == ASSUME Inv, NEW c \in Calls, WriteRow(c) PROVE Inv'
<1> DEFINE totals == KeysOf(Changed(c, rows))
           x == [call[c] EXCEPT !.pc = "written", !.totals = totals]
<1>1. /\ Live(c) /\ call[c].kind # "publish" /\ call[c].pc \in {"chosen", "begun"}
      /\ UNCHANGED <<game, tip, rows, purchase, tabs, jobs, faults>>
      /\ Finished(c) \/ call' = [call EXCEPT ![c] = x]
  BY DEF WriteRow, Live, InCall, Inv, TypeOK, CallRow
<1>2. CASE Finished(c)
  BY <1>1, <1>2, CallEnds
<1>3. CASE call' = [call EXCEPT ![c] = x]
  <2>1. call[c] \in CallRow /\ CallOK(c, call[c]) /\ call[c].pc # "done"
    BY <1>1 DEF Inv, TypeOK
  <2>2. totals \in SUBSET Keys
    BY ChangedType
  <2> HIDE DEF totals
  <2>3. /\ x \in CallRow /\ x.pc = "written" /\ x.kind = call[c].kind
        /\ x.tip = call[c].tip /\ x.row = call[c].row
    BY <2>1, <2>2 DEF CallRow
  <2> HIDE DEF x
  <2>4. CallOK(c, x)
    BY <1>1, <2>1, <2>3 DEF CallOK, Live
  <2> QED
    BY <1>1, <1>3, <2>1, <2>3, <2>4, CallMoves
<1> QED
  BY <1>1, <1>2, <1>3

\* The twelve hours: no match of the selections has begun.
LEMMA CheckStep == ASSUME Inv, NEW c \in Calls, CheckPublish(c) PROVE Inv'
<1> DEFINE x == [call[c] EXCEPT !.pc = "chosen"]
<1>1. /\ Live(c) /\ call[c].kind = "publish"
      /\ UNCHANGED <<game, tip, rows, purchase, tabs, jobs, faults>>
      /\ \/ Finished(c)
         \/ /\ rows # {} /\ \A r \in rows : match[r.match] = "early"
            /\ call' = [call EXCEPT ![c] = x]
  BY DEF CheckPublish, Live, InCall, Inv, TypeOK, CallRow
<1>2. CASE Finished(c)
  BY <1>1, <1>2, CallEnds
<1>3. CASE /\ rows # {} /\ \A r \in rows : match[r.match] = "early"
           /\ call' = [call EXCEPT ![c] = x]
  <2>1. call[c] \in CallRow /\ CallOK(c, call[c]) /\ call[c].pc # "done"
    BY <1>1 DEF Inv, TypeOK, Live, InCall
  <2>2. /\ x \in CallRow /\ x.pc = "chosen" /\ x.kind = call[c].kind
        /\ x.tip = call[c].tip /\ x.row = call[c].row
    BY <2>1 DEF CallRow
  <2> HIDE DEF x
  <2>3. NoneEnded
    BY <1>3 DEF NoneEnded, Ended
  <2>4. CallOK(c, x)
    BY <1>1, <2>1, <2>2, <2>3 DEF CallOK, Live
  <2> QED
    BY <1>1, <1>3, <2>1, <2>2, <2>4, CallMoves
<1> QED
  BY <1>1, <1>2, <1>3

-----------------------------------------------------------------------------
(* Commits *)

\* What a commit brings into the table: nothing of a match that has ended.
LEMMA ChangedRows ==
    ASSUME Inv, NEW c \in Calls, Live(c), NEW r \in Changed(c, rows)
    PROVE  /\ MatchOf(r.id) = r.match
           /\ r \in rows \/ (r.verdict = "none" /\ ~Ended(r.match))
           /\ MakerOf(r.id) = c \/ r.id \in IdsOf(rows)
<1>1. /\ call[c].row \subseteq Row /\ rows \subseteq Row /\ call[c] \in CallRow
      /\ CallOK(c, call[c]) /\ InCall(call[c]) /\ RowsOK
  BY DEF Inv, TypeOK, CallRow, Live
<1>2. CASE r \in rows
  BY <1>1, <1>2 DEF RowsOK, IdsOf
<1>3. CASE r \notin rows
  <2>1. CASE call[c].kind = "insert"
    <3>1. r \in call[c].row
      BY <1>3, <2>1 DEF Changed
    <3>2. /\ r.verdict = "none" /\ ~Ended(r.match) /\ MakerOf(r.id) = c
          /\ MatchOf(r.id) = r.match
      BY <1>1, <2>1, <3>1 DEF CallOK
    <3> QED
      BY <3>2
  <2>2. CASE call[c].kind = "replace"
    <3> DEFINE v == (CHOOSE q \in call[c].row : TRUE).value
    <3>1. PICK q \in rows : q.id \in IdsOf(call[c].row) /\ r = [q EXCEPT !.value = v]
      BY <1>3, <2>2 DEF Changed
    <3> HIDE DEF v
    <3>2. r.id = q.id /\ r.match = q.match /\ r.verdict = q.verdict
      BY <1>1, <3>1 DEF Row
    <3>3. PICK x \in call[c].row : x.id = q.id
      BY <3>1 DEF IdsOf
    <3>4. MatchOf(q.id) = q.match /\ ~Ended(q.match)
      BY <1>1, <2>2, <3>3 DEF CallOK, RowsOK
    <3>5. q.verdict = "none"
      BY <1>1, <3>4 DEF RowsOK, Judgement
    <3> QED
      BY <2>2, <3>2, <3>4, <3>5 DEF IdsOf
  <2>3. CASE call[c].kind \notin {"insert", "replace"}
    BY <1>3, <2>3 DEF Changed
  <2> QED
    BY <2>1, <2>2, <2>3
<1> QED
  BY <1>2, <1>3

\* A change leaves at most one selection of each id.
LEMMA ChangedOnce ==
    ASSUME Inv, NEW c \in Calls, Live(c), NEW q \in Changed(c, rows),
           NEW r \in Changed(c, rows), q.id = r.id
    PROVE  q = r
<1>1. /\ CallOK(c, call[c]) /\ InCall(call[c]) /\ RowsOK /\ rows \subseteq Row
  BY DEF Inv, TypeOK, Live
<1>2. CASE call[c].kind = "insert"
  <2>1. {q, r} \subseteq rows \cup call[c].row
    BY <1>2 DEF Changed
  <2>2. \A x \in call[c].row, y \in rows : x.id # y.id
    BY <1>1, <1>2 DEF CallOK, RowsOK, InCall
  <2> QED
    BY <1>1, <2>1, <2>2 DEF CallOK, RowsOK
<1>3. CASE call[c].kind = "replace"
  <2> DEFINE v == (CHOOSE x \in call[c].row : TRUE).value
             F(x) == IF x.id \in IdsOf(call[c].row) THEN [x EXCEPT !.value = v] ELSE x
  <2>1. \A x \in rows : F(x).id = x.id
    BY <1>1 DEF Row
  <2>2. Changed(c, rows) = {F(x) : x \in rows}
    BY <1>3 DEF Changed
  <2> HIDE DEF F
  <2> QED
    BY <1>1, <2>1, <2>2 DEF RowsOK
<1>4. CASE call[c].kind \notin {"insert", "replace"}
  BY <1>1, <1>4 DEF Changed, RowsOK
<1> QED
  BY <1>2, <1>3, <1>4

\* The end of a transaction that brings its change and leaves the tip as it is
\* but for the totals, or unpublished, or publishes it and changes no row.
LEMMA Commits ==
    ASSUME Inv, NEW c \in Calls, Live(c), Finished(c), tip' \in TipRow,
           rows' = Changed(c, rows),
           \/ tip'.published => tip.published /\ tip'.status = tip.status
           \/ /\ tip'.status = "pending" /\ NoneEnded /\ rows' = rows
              /\ tabs = 1 => rows # {},
           UNCHANGED <<game, purchase, tabs, jobs, faults>>
    PROVE  Inv'
<1>1. /\ call' = [call EXCEPT ![c] = Over]
      /\ \A d \in Calls : call'[d] = IF d = c THEN Over ELSE call[d]
      /\ Over \in CallRow /\ Over.pc = "done" /\ Over.kind = "none"
  BY NoCallType DEF Finished, Inv, TypeOK
<1>2. /\ match' = match /\ score' = score /\ eval' = eval /\ run' = run
      /\ purchase' = purchase /\ tabs' = tabs /\ faults' = faults
  BY DEF game, jobs
<1>3. TypeOK'
  <2>1. rows' \subseteq Row
    BY ChangedType
  <2> QED
    BY <1>1, <1>2, <2>1 DEF Inv, TypeOK
<1>4. \A r \in rows' : /\ MatchOf(r.id) = r.match
                       /\ r \in rows \/ (r.verdict = "none" /\ ~Ended(r.match))
                       /\ MakerOf(r.id) = c \/ r.id \in IdsOf(rows)
  BY ChangedRows
<1>5. \A m : Ended(m)' <=> Ended(m)
  BY <1>2 DEF Ended
<1>6. \A r : Judgement(r)' <=> Judgement(r)
  BY <1>2, <1>5 DEF Judgement
<1>7. ~NoneLive /\ tip \in TipRow /\ (tip.published => NoneEnded)
  <2>1. ~NoneLive
    BY DEF NoneLive
  <2> QED
    BY <2>1 DEF Inv, TypeOK, TipOK
<1>8. RowsOK'
  <2>1. \A r \in rows' : r.verdict # "none" => Judgement(r)'
    BY <1>4, <1>6 DEF Inv, RowsOK
  <2>2. \A q, r \in rows' : q.id = r.id => q = r
    BY ChangedOnce
  <2>3. ASSUME NEW d \in Calls, NEW r \in rows', MakerOf(r.id) = d
        PROVE  call'[d].pc = "done"
    BY <1>1, <1>4, <2>3 DEF Inv, RowsOK, IdsOf
  <2> QED
    BY <1>4, <2>1, <2>2, <2>3 DEF RowsOK
<1>9. NoneEnded => NoneEnded'
  BY <1>4, <1>5 DEF NoneEnded
<1>10. tip'.published => NoneEnded
  BY <1>7
<1>11. tip'.published => tip'.status \notin {"won", "void"}
  <2>1. ~(NoneEnded /\ Settled)
    BY DEF NoneEnded, Settled
  <2> QED
    BY <1>7, <2>1 DEF Inv, TipOK
<1>12. TipOK'
  BY <1>9, <1>10, <1>11, NoTipType DEF TipOK
<1>13. OneTab'
  <2> SUFFICES ASSUME tabs = 1 PROVE OneTab'
    BY <1>2 DEF OneTab
  <2>1. \A d \in Calls : ~Live(d)'
    BY <1>1 DEF Inv, OneTab, Live, InCall
  <2>2. \A d \in Calls : ~(call'[d].kind = "publish" /\ call'[d].pc = "chosen")
    BY <2>1 DEF Live, InCall
  <2>3. ~tip.published
    BY <1>7 DEF Inv, OneTab
  <2>4. tip'.published => rows' # {} /\ tip'.status # "lost"
    BY <2>3
  <2>5. \A o \in Outcomes : run'[o].pc # "idle" /\ run'[o].tip.published => run'[o].ids # {}
    BY <1>2 DEF Inv, OneTab
  <2> QED
    BY <2>1, <2>2, <2>4, <2>5 DEF OneTab, NoneLive
<1>14. ASSUME NEW e \in Evals PROVE EvalOK(eval[e])'
  <2> SUFFICES ASSUME NEW r \in eval[e], NEW q \in rows', q.id = r.id
               PROVE  q.value = r.value
    BY <1>2, <1>6 DEF Inv, EvalOK
  <2>1. MatchOf(r.id) = r.match /\ Ended(r.match)
    BY DEF Inv, EvalOK, Judgement
  <2>2. q \in rows
    BY <1>4, <2>1
  <2> QED
    BY <2>2 DEF Inv, EvalOK
<1>15. ASSUME NEW d \in Calls PROVE CallOK(d, call[d])'
  <2>1. CASE d = c
    BY <1>1, <2>1 DEF CallOK, InCall
  <2>2. CASE d # c
    <3>1. CallOK(d, call[d]) /\ call'[d] = call[d]
      BY <1>1, <2>2 DEF Inv
    <3> QED
      BY <1>5, <1>9, <3>1 DEF CallOK
  <2> QED
    BY <2>1, <2>2
<1>16. ASSUME NEW o \in Outcomes PROVE RunOK(run[o])'
  <2>1. RunOK(run[o]) /\ run'[o] = run[o]
    BY <1>2 DEF Inv
  <2>2. run[o].pc # "idle" => ~(run[o].tip.published /\ run[o].ids # {})
    BY <1>7, <2>1 DEF RunOK
  <2>3. ASSUME run[o].pc # "idle", tip'.published, ~run[o].tip.published, NEW r \in rows'
        PROVE  r.id \notin run[o].ids
    <3>1. \A i \in run[o].ids : Ended(MatchOf(i))
      BY <2>1, <2>3 DEF RunOK
    <3>2. ~Ended(r.match) /\ MatchOf(r.id) = r.match
      BY <1>4, <1>9, <1>10, <1>5, <2>3 DEF NoneEnded
    <3> QED
      BY <3>1, <3>2
  <2> QED
    BY <1>5, <2>1, <2>2, <2>3 DEF RunOK
<1> QED
  BY <1>3, <1>8, <1>12, <1>13, <1>14, <1>15, <1>16 DEF Inv

LEMMA CommitSteps ==
    ASSUME Inv, NEW c \in Calls,
           CommitAdd(c) \/ CommitRemove(c) \/ CommitUpdate(c) \/ CommitPublish(c)
    PROVE  Inv'
<1>1. Live(c)
  BY DEF CommitAdd, CommitRemove, CommitUpdate, CommitPublish, Live, InCall
<1>2. /\ call[c] \in CallRow /\ call[c].tip \in TipRow /\ ~call[c].tip.published
      /\ tip \in TipRow
  <2>1. ~NoneLive
    BY <1>1 DEF NoneLive
  <2> QED
    BY <1>1, <2>1 DEF Inv, TypeOK, CallOK, TipOK, Live
<1>3. CASE CommitAdd(c)
  <2>1. /\ tip' \in TipRow /\ tip'.published = tip.published
        /\ tip'.status = tip.status
    BY <1>2, <1>3 DEF CommitAdd, TipRow, CallRow
  <2> QED
    BY <1>1, <1>3, <2>1, Commits DEF CommitAdd
<1>4. CASE CommitRemove(c)
  <2>1. tip' \in TipRow /\ ~tip'.published
    BY <1>2, <1>4 DEF CommitRemove, TipRow, CallRow
  <2> QED
    BY <1>1, <1>4, <2>1, Commits DEF CommitRemove
<1>5. CASE CommitUpdate(c)
  <2>1. rows' = Changed(c, rows)
    BY <1>5 DEF CommitUpdate, Changed
  <2> QED
    BY <1>1, <1>2, <1>5, <2>1, Commits DEF CommitUpdate
<1>6. CASE CommitPublish(c)
  <2>1. rows' = Changed(c, rows) /\ rows' = rows
    BY <1>6 DEF CommitPublish, Changed
  <2>2. tip' \in TipRow /\ tip'.status = "pending"
    BY <1>2, <1>6 DEF CommitPublish, TipRow
  <2>3. NoneEnded /\ (tabs = 1 => rows # {})
    BY <1>1, <1>6 DEF CommitPublish, Inv, CallOK, OneTab, Live
  <2> QED
    BY <1>1, <1>6, <2>1, <2>2, <2>3, Commits DEF CommitPublish
<1> QED
  BY <1>3, <1>4, <1>5, <1>6

-----------------------------------------------------------------------------
(* Judging *)

\* A judging run begins, or gives a selection up.
LEMMA EvalMoves ==
    ASSUME Inv, NEW e \in Evals, NEW S \in SUBSET Row, EvalOK(S),
           tip = NoTip => S = {},
           eval' = [eval EXCEPT ![e] = S], faults' \in 0..MaxFaults,
           UNCHANGED <<game, tip, rows, purchase, tabs, call, run>>
    PROVE  Inv'
<1>1. /\ match' = match /\ score' = score /\ tip' = tip /\ rows' = rows
      /\ purchase' = purchase /\ tabs' = tabs /\ call' = call /\ run' = run
      /\ \A d \in Evals : eval'[d] = IF d = e THEN S ELSE eval[d]
  BY DEF Inv, TypeOK, game
<1>2. TypeOK'
  BY <1>1 DEF Inv, TypeOK
<1>3. RowsOK'
  BY <1>1 DEF Inv, RowsOK, Judgement, Ended
<1>4. TipOK'
  BY <1>1 DEF Inv, TipOK, NoneEnded, NoneLive, Live, Settled, Ended
<1>5. OneTab'
  BY <1>1 DEF Inv, OneTab, NoneLive, Live, Settled, Ended
<1>6. ASSUME NEW d \in Evals PROVE EvalOK(eval[d])'
  <2>1. EvalOK(eval'[d])
    BY <1>1 DEF Inv
  <2> QED
    BY <1>1, <2>1 DEF EvalOK, Judgement, Ended
<1>7. ASSUME NEW c \in Calls PROVE CallOK(c, call[c])'
  BY <1>1 DEF Inv, CallOK, NoneEnded, Ended
<1>8. ASSUME NEW o \in Outcomes PROVE RunOK(run[o])'
  BY <1>1 DEF Inv, RunOK, NoneLive, Live, Settled, Ended
<1> QED
  BY <1>2, <1>3, <1>4, <1>5, <1>6, <1>7, <1>8 DEF Inv

LEMMA StartEvalStep == ASSUME Inv, NEW e \in Evals, StartEval(e) PROVE Inv'
<1> DEFINE S == {Judged(r) : r \in {q \in rows : ReadyToJudge(q)}}
<1>1. ASSUME NEW r \in rows, ReadyToJudge(r)
      PROVE  /\ Judged(r) \in Row /\ Judged(r).id = r.id
             /\ Judged(r).value = r.value /\ MatchOf(r.id) = Judged(r).match
             /\ Judgement(Judged(r))
  <2>1. r \in Row /\ MatchOf(r.id) = r.match
    BY DEF Inv, TypeOK, RowsOK
  <2>2. evaluateSelection(r.value, score[r.match]) \in {"correct", "incorrect", "void"}
    BY Verdict
  <2>3. /\ Judged(r) \in Row /\ Judged(r).id = r.id /\ Judged(r).match = r.match
        /\ Judged(r).value = r.value
        /\ Judged(r).verdict = evaluateSelection(r.value, score[r.match])
    BY <2>1, <2>2 DEF Judged, Row, Verdicts
  <2> QED
    BY <1>1, <2>1, <2>3 DEF ReadyToJudge, Judgement, Ended
<1>2. S \in SUBSET Row
  BY <1>1
<1>3. EvalOK(S)
  BY <1>1 DEF EvalOK, Inv, RowsOK
<1>4. tip # NoTip
  BY DEF StartEval, Inv, TipOK
<1>5. eval' = [eval EXCEPT ![e] = S] /\ faults' \in 0..MaxFaults
  BY DEF StartEval, Inv, TypeOK
<1> HIDE DEF S
<1> QED
  BY <1>2, <1>3, <1>4, <1>5, EvalMoves DEF StartEval

LEMMA FailVerdictStep == ASSUME Inv, NEW e \in Evals, FailVerdict(e) PROVE Inv'
<1>1. PICK r \in eval[e] : eval' = [eval EXCEPT ![e] = eval[e] \ {r}]
  BY DEF FailVerdict
<1>2. eval[e] \ {r} \in SUBSET Row /\ EvalOK(eval[e] \ {r})
  BY DEF Inv, TypeOK, EvalOK
<1>3. tip # NoTip
  BY DEF Inv, TipOK
<1>4. faults' \in 0..MaxFaults
  BY BoundsAssumption DEF FailVerdict, Inv, TypeOK
<1> QED
  BY <1>1, <1>2, <1>3, <1>4, EvalMoves DEF FailVerdict

\* A saved verdict changes nothing else of its selection, and no other verdict.
LEMMA SaveVerdictStep == ASSUME Inv, NEW e \in Evals, SaveVerdict(e) PROVE Inv'
<1>1. PICK r \in eval[e] :
         /\ eval' = [eval EXCEPT ![e] = @ \ {r}]
         /\ rows' = {IF q.id = r.id THEN r ELSE q : q \in rows}
         /\ UNCHANGED <<game, tip, purchase, tabs, call, run, faults>>
  BY DEF SaveVerdict
<1>2. /\ match' = match /\ score' = score /\ tip' = tip
      /\ purchase' = purchase /\ tabs' = tabs /\ call' = call /\ run' = run
      /\ faults' = faults
      /\ \A d \in Evals : eval'[d] \subseteq eval[d]
  BY <1>1 DEF Inv, TypeOK, game
<1>3. r \in Row /\ MatchOf(r.id) = r.match /\ Judgement(r)
  BY DEF Inv, TypeOK, EvalOK
<1>4. \A q \in rows : q \in Row /\ MatchOf(q.id) = q.match
  BY DEF Inv, TypeOK, RowsOK
<1>5. ASSUME NEW q \in rows, q.id = r.id
      PROVE  q.match = r.match /\ q.value = r.value /\ (q.verdict # "none" => q = r)
  <2>1. q.match = r.match /\ q.value = r.value
    BY <1>3, <1>4, <1>5 DEF Inv, EvalOK
  <2>2. q.verdict # "none" => q.verdict = r.verdict
    BY <1>3, <2>1 DEF Inv, RowsOK, Judgement
  <2> QED
    BY <1>3, <1>4, <1>5, <2>1, <2>2 DEF Row
<1>6. ASSUME NEW q \in rows'
      PROVE  /\ q \in Row /\ MatchOf(q.id) = q.match
             /\ q.verdict # "none" => Judgement(q)
             /\ \E p \in rows : p.id = q.id /\ p.match = q.match /\ p.value = q.value
  <2>1. PICK p \in rows : q = IF p.id = r.id THEN r ELSE p
    BY <1>1
  <2> QED
    BY <1>3, <1>4, <1>5, <2>1 DEF Inv, RowsOK
<1>7. \A x : /\ Ended(x)' <=> Ended(x)
             /\ Judgement(x)' <=> Judgement(x)
  BY <1>2 DEF Judgement, Ended
<1>8. /\ NoneEnded' <=> NoneEnded
      /\ NoneLive' <=> NoneLive
      /\ rows' = {} <=> rows = {}
  <2>1. \A q \in rows : \E p \in rows' : p.match = q.match
    BY <1>1, <1>5
  <2> QED
    BY <1>1, <1>2, <1>6, <1>7, <2>1 DEF NoneEnded, NoneLive, Live
<1>9. Settled => Settled' /\ rows' = rows
  BY <1>1, <1>5, <1>7 DEF Settled
<1>10. TypeOK'
  <2>1. rows' \subseteq Row
    BY <1>6
  <2>2. eval' \in [Evals -> SUBSET Row]
    BY <1>1 DEF Inv, TypeOK
  <2> QED
    BY <1>2, <2>1, <2>2 DEF Inv, TypeOK
<1>11. RowsOK'
  <2>1. \A p, q \in rows' : p.id = q.id => p = q
    BY <1>1, <1>5 DEF Inv, RowsOK
  <2>2. \A c \in Calls, q \in rows' : MakerOf(q.id) = c => call'[c].pc = "done"
    BY <1>2, <1>6 DEF Inv, RowsOK
  <2> QED
    BY <1>6, <1>7, <2>1, <2>2 DEF RowsOK
<1>12. TipOK'
  <2>1. tip # NoTip
    BY DEF Inv, TipOK
  <2> QED
    BY <1>2, <1>8, <1>9, <2>1 DEF Inv, TipOK
<1>13. OneTab'
  BY <1>2, <1>8, <1>9 DEF Inv, OneTab, Live
<1>14. ASSUME NEW d \in Evals PROVE EvalOK(eval[d])'
  BY <1>2, <1>6, <1>7 DEF Inv, EvalOK
<1>15. ASSUME NEW c \in Calls PROVE CallOK(c, call[c])'
  BY <1>2, <1>7, <1>8 DEF Inv, CallOK
<1>16. ASSUME NEW o \in Outcomes PROVE RunOK(run[o])'
  <2>1. \A q \in rows' : \E p \in rows : p.id = q.id
    BY <1>6
  <2> QED
    BY <1>2, <1>7, <1>8, <1>9, <2>1 DEF Inv, RunOK
<1> QED
  BY <1>10, <1>11, <1>12, <1>13, <1>14, <1>15, <1>16 DEF Inv

-----------------------------------------------------------------------------
(* Deciding *)

RunType == [pc : {"idle", "read", "mark"}, tip : TipRow \cup {NoTip},
            ids : SUBSET Ids, todo : SUBSET (Buyers \X PurchaseStatus)]

\* A step of one deciding run that leaves the tip alone.
LEMMA RunMoves ==
    ASSUME Inv, NEW o \in Outcomes, NEW x \in RunType, RunOK(x),
           tip = NoTip => x.pc = "idle",
           tabs = 1 /\ x.pc # "idle" /\ x.tip.published => x.ids # {},
           run' = [run EXCEPT ![o] = x], faults' \in 0..MaxFaults,
           purchase' \in [Buyers -> [status : PurchaseStatus,
                                    outcome : Decided \cup {"none"}]],
           UNCHANGED <<game, tip, rows, tabs, call, eval>>
    PROVE  Inv'
<1>1. /\ match' = match /\ score' = score /\ tip' = tip /\ rows' = rows
      /\ tabs' = tabs /\ call' = call /\ eval' = eval
      /\ \A p \in Outcomes : run'[p] = IF p = o THEN x ELSE run[p]
  BY DEF Inv, TypeOK, game
<1>2. TypeOK'
  BY <1>1 DEF Inv, TypeOK, RunType
<1>3. RowsOK'
  BY <1>1 DEF Inv, RowsOK, Judgement, Ended
<1>4. TipOK'
  BY <1>1 DEF Inv, TipOK, NoneEnded, NoneLive, Live, Settled, Ended
<1>5. OneTab'
  BY <1>1 DEF Inv, OneTab, NoneLive, Live, Settled, Ended
<1>6. ASSUME NEW d \in Evals PROVE EvalOK(eval[d])'
  BY <1>1 DEF Inv, EvalOK, Judgement, Ended
<1>7. ASSUME NEW c \in Calls PROVE CallOK(c, call[c])'
  BY <1>1 DEF Inv, CallOK, NoneEnded, Ended
<1>8. ASSUME NEW p \in Outcomes PROVE RunOK(run[p])'
  <2>1. RunOK(run'[p])
    BY <1>1 DEF Inv
  <2> QED
    BY <1>1, <2>1 DEF RunOK, NoneLive, Live, Settled, Ended
<1> QED
  BY <1>2, <1>3, <1>4, <1>5, <1>6, <1>7, <1>8 DEF Inv

\* What a run finds is the outcome that follows of the verdicts; a published tip
\* whose matches have ended has no call left.
LEMMA DetermineStep == ASSUME Inv, NEW o \in Outcomes, Determine(o) PROVE Inv'
<1> DEFINE x == [pc   |-> "read",
                 tip  |-> [tip EXCEPT !.status = determineTipOutcome(rows)],
                 ids  |-> IdsOf(rows),
                 todo |-> {}]
<1>1. /\ tip \in TipRow /\ tip # NoTip /\ tip.status = "pending"
      /\ determineTipOutcome(rows) # "none"
      /\ run' = [run EXCEPT ![o] = x]
      /\ UNCHANGED <<game, tip, rows, purchase, tabs, call, eval, faults>>
  BY NoTipType DEF Determine, Inv, TypeOK
<1>2. IdsOf(rows) \in SUBSET Ids /\ (IdsOf(rows) = {} <=> rows = {})
  <2>1. \A r \in rows : r.id \in Ids
    BY DEF Inv, TypeOK, Row
  <2>2. IdsOf(rows) = {} <=> rows = {}
    BY DEF IdsOf
  <2> QED
    BY <2>1, <2>2 DEF IdsOf
<1>3. /\ x \in RunType /\ x.pc = "read" /\ x.tip \in TipRow
      /\ x.tip.published = tip.published /\ x.tip.status = determineTipOutcome(rows)
      /\ x.tip.status \in Decided /\ x.ids = IdsOf(rows)
  BY <1>1, <1>2, DecidesType DEF TipRow, RunType
<1> HIDE DEF x
<1>4. rows # {} => Settled /\ x.tip.status = Outcome(rows)
  BY <1>1, <1>3, Decides DEF Settled
<1>5. tip.published /\ rows # {} => NoneLive
  BY <1>4 DEF Inv, TipOK, NoneEnded, Settled
<1>6. \A i \in x.ids : Ended(MatchOf(i))
  BY <1>3, <1>4 DEF IdsOf, Settled, Inv, RowsOK
<1>7. rows = {} => x.tip.status = "lost"
  BY <1>3 DEF determineTipOutcome
<1>8. RunOK(x)
  BY <1>1, <1>2, <1>3, <1>4, <1>5, <1>6, <1>7 DEF RunOK
<1>9. tabs = 1 /\ x.tip.published => x.ids # {}
  BY <1>2, <1>3 DEF Inv, OneTab
<1>10. /\ faults' \in 0..MaxFaults
       /\ purchase' \in [Buyers -> [status : PurchaseStatus,
                                    outcome : Decided \cup {"none"}]]
  BY <1>1 DEF Inv, TypeOK
<1> QED
  BY <1>1, <1>3, <1>8, <1>9, <1>10, RunMoves

LEMMA ReadPurchasesStep == ASSUME Inv, NEW o \in Outcomes, ReadPurchases(o) PROVE Inv'
<1> DEFINE todo == {<<b, purchase[b].status>> : b \in Purchases}
           x == [run[o] EXCEPT !.pc = "mark", !.todo = todo]
<1>1. run[o] \in RunType /\ run[o].pc = "read" /\ RunOK(run[o]) /\ tip # NoTip
  BY DEF ReadPurchases, Inv, TypeOK, RunType, TipOK
<1>2. todo \in SUBSET (Buyers \X PurchaseStatus)
  BY DEF Inv, TypeOK, Purchases
<1>3. run' = [run EXCEPT ![o] = x]
  BY <1>1 DEF ReadPurchases, Inv, TypeOK, RunType
<1> HIDE DEF todo
<1>4. x \in RunType /\ x.pc = "mark" /\ x.tip = run[o].tip /\ x.ids = run[o].ids
  BY <1>1, <1>2 DEF RunType
<1> HIDE DEF x
<1>5. RunOK(x)
  BY <1>1, <1>4 DEF RunOK
<1>6. tabs = 1 /\ x.tip.published => x.ids # {}
  BY <1>1, <1>4 DEF Inv, OneTab
<1>7. /\ faults' \in 0..MaxFaults
      /\ purchase' \in [Buyers -> [status : PurchaseStatus,
                                   outcome : Decided \cup {"none"}]]
  BY DEF ReadPurchases, Inv, TypeOK
<1> QED
  BY <1>1, <1>3, <1>4, <1>5, <1>6, <1>7, RunMoves DEF ReadPurchases

LEMMA MarkPurchaseStep == ASSUME Inv, NEW o \in Outcomes, MarkPurchase(o) PROVE Inv'
<1>1. /\ run[o] \in RunType /\ run[o].pc = "mark" /\ RunOK(run[o]) /\ tip # NoTip
  BY DEF MarkPurchase, Inv, TypeOK, RunType, TipOK
<1>2. PICK p \in run[o].todo :
         /\ run' = [run EXCEPT ![o].todo = @ \ {p}]
         /\ purchase' = [purchase EXCEPT ![p[1]] =
                            [status |-> p[2], outcome |-> run[o].tip.status]]
  BY DEF MarkPurchase
<1> DEFINE x == [run[o] EXCEPT !.todo = run[o].todo \ {p}]
<1>3. run' = [run EXCEPT ![o] = x]
  BY <1>2 DEF Inv, TypeOK
<1>4. x \in RunType /\ x.pc = "mark" /\ x.tip = run[o].tip /\ x.ids = run[o].ids
  BY <1>1 DEF RunType
<1> HIDE DEF x
<1>5. RunOK(x)
  BY <1>1, <1>4 DEF RunOK
<1>6. tabs = 1 /\ x.tip.published => x.ids # {}
  BY <1>1, <1>4 DEF Inv, OneTab
<1>7. purchase' \in [Buyers -> [status : PurchaseStatus,
                               outcome : Decided \cup {"none"}]]
  <2>1. p[1] \in Buyers /\ p[2] \in PurchaseStatus
    BY <1>1 DEF RunType
  <2>2. run[o].tip.status \in Decided
    BY <1>1 DEF RunOK
  <2> QED
    BY <1>2, <2>1, <2>2 DEF Inv, TypeOK
<1>8. faults' \in 0..MaxFaults
  BY DEF MarkPurchase, Inv, TypeOK
<1> QED
  BY <1>1, <1>3, <1>4, <1>5, <1>6, <1>7, <1>8, RunMoves DEF MarkPurchase

LEMMA FailOutcomeStep == ASSUME Inv, NEW o \in Outcomes, FailOutcome(o) PROVE Inv'
<1>1. NoRun \in RunType /\ NoRun.pc = "idle" /\ RunOK(NoRun)
  BY NoRunType DEF RunType, RunOK
<1>2. /\ faults' \in 0..MaxFaults
      /\ purchase' \in [Buyers -> [status : PurchaseStatus,
                                   outcome : Decided \cup {"none"}]]
  BY BoundsAssumption DEF FailOutcome, Inv, TypeOK
<1> QED
  BY <1>1, <1>2, RunMoves DEF FailOutcome

\* What a run that saves its tip knows of a published one.
LEMMA SavedTip ==
    ASSUME Inv, NEW o \in Outcomes, SaveOutcome(o), NoRowAdded(o)
    PROVE  /\ tip' = run[o].tip /\ tip' \in TipRow
           /\ tip'.published /\ tip'.status \in {"won", "void"} => run[o].ids # {}
           /\ tip'.published /\ (run[o].ids # {} \/ rows # {}) =>
                  /\ tip.published /\ Settled /\ NoneLive
                  /\ tip'.status = Outcome(rows)
                  /\ tip.status \in {"pending", Outcome(rows)}
           /\ tip.published /\ rows # {} => tip'.published
<1>1. /\ tip' = run[o].tip /\ RunOK(run[o]) /\ run[o].pc # "idle"
      /\ IdsOf(rows) \subseteq run[o].ids
  BY DEF SaveOutcome, NoRowAdded, Inv
<1>2. rows # {} => run[o].ids # {} /\ \E r \in rows : r.id \in run[o].ids
  BY <1>1 DEF IdsOf
<1> QED
  BY <1>1, <1>2 DEF RunOK

LEMMA SaveOutcomeStep == ASSUME Inv, NEW o \in Outcomes, SaveOutcome(o) PROVE Inv'
<1>1. NoRun \in RunType /\ NoRun.pc = "idle" /\ RunOK(NoRun)
  BY NoRunType DEF RunType, RunOK
<1>2. CASE ~NoRowAdded(o)
  <2>1. /\ faults' \in 0..MaxFaults
        /\ purchase' \in [Buyers -> [status : PurchaseStatus,
                                     outcome : Decided \cup {"none"}]]
    BY DEF SaveOutcome, Inv, TypeOK
  <2> QED
    BY <1>1, <1>2, <2>1, RunMoves DEF SaveOutcome
<1>3. CASE NoRowAdded(o)
  <2>1. /\ match' = match /\ score' = score /\ rows' = rows /\ purchase' = purchase
        /\ tabs' = tabs /\ call' = call /\ eval' = eval /\ faults' = faults
        /\ run' = [run EXCEPT ![o] = NoRun]
        /\ \A p \in Outcomes : run'[p] = IF p = o THEN NoRun ELSE run[p]
    BY DEF SaveOutcome, Inv, TypeOK, game
  <2>2. /\ Settled' <=> Settled
        /\ NoneLive' <=> NoneLive
        /\ NoneEnded' <=> NoneEnded
    BY <2>1 DEF Settled, Ended, NoneLive, Live, NoneEnded
  <2>3. tip' = run[o].tip /\ tip' \in TipRow
    BY <1>3, SavedTip
  <2>4. TypeOK'
    BY <1>1, <2>1, <2>3 DEF Inv, TypeOK, RunType
  <2>5. RowsOK'
    BY <2>1 DEF Inv, RowsOK, Judgement, Ended
  <2>6. TipOK'
    <3>1. rows = {} => NoneEnded
      BY DEF NoneEnded
    <3> QED
      BY <1>3, <2>1, <2>2, <2>3, <3>1, NoTipType, SavedTip DEF TipOK
  <2>7. OneTab'
    <3> SUFFICES ASSUME tabs = 1 PROVE OneTab'
      BY <2>1 DEF OneTab
    <3>1. tip'.published => run[o].ids # {}
      BY <2>3 DEF SaveOutcome, Inv, OneTab
    <3>2. Settled => rows # {}
      BY DEF Settled
    <3>3. \A p \in Outcomes :
             run'[p].pc # "idle" /\ run'[p].tip.published => run'[p].ids # {}
      BY <1>1, <2>1 DEF Inv, OneTab
    <3>4. /\ \A c, d \in Calls : Live(c)' /\ Live(d)' => c = d
          /\ \A c \in Calls :
                call'[c].kind = "publish" /\ call'[c].pc = "chosen" => rows' # {}
      BY <2>1 DEF Inv, OneTab, Live
    <3>5. tip'.published => Settled /\ NoneLive /\ tip'.status = Outcome(rows)
      BY <1>3, <3>1, SavedTip
    <3> QED
      BY <2>1, <2>2, <3>2, <3>3, <3>4, <3>5 DEF OneTab
  <2>8. ASSUME NEW e \in Evals PROVE EvalOK(eval[e])'
    BY <2>1 DEF Inv, EvalOK, Judgement, Ended
  <2>9. ASSUME NEW c \in Calls PROVE CallOK(c, call[c])'
    BY <2>1, <2>2 DEF Inv, CallOK, Ended
  <2>10. ASSUME NEW p \in Outcomes PROVE RunOK(run[p])'
    <3>1. CASE p = o
      BY <1>1, <2>1, <3>1 DEF RunOK
    <3>2. CASE p # o
      <4>1. run'[p] = run[p] /\ RunOK(run[p])
        BY <2>1, <3>2 DEF Inv
      <4>2. Settled => rows # {}
        BY DEF Settled
      <4>3. tip'.published => tip.published \/ rows = {}
        BY <1>3, SavedTip
      <4>4. tip.published /\ rows # {} => tip'.published /\ tip'.status = Outcome(rows)
        BY <1>3, SavedTip
      <4> QED
        BY <2>1, <2>2, <4>1, <4>2, <4>3, <4>4 DEF RunOK, Ended
    <3> QED
      BY <3>1, <3>2
  <2> QED
    BY <2>4, <2>5, <2>6, <2>7, <2>8, <2>9, <2>10 DEF Inv
<1> QED
  BY <1>2, <1>3

-----------------------------------------------------------------------------
(* Around the tip *)

\* Nobody knows a tip that is not there yet.
LEMMA CreateStep == ASSUME Inv, Create PROVE Inv'
<1>1. /\ tip = NoTip /\ rows = {} /\ NoneLive
      /\ \A e \in Evals : eval[e] = {}
      /\ \A o \in Outcomes : run[o].pc = "idle"
  BY DEF Create, Inv, TipOK
<1>2. /\ match' = match /\ score' = score /\ purchase' = purchase /\ tabs' = tabs
      /\ call' = call /\ eval' = eval /\ run' = run /\ faults' = faults
  BY DEF Create, game, jobs
<1>3. PICK S \in SUBSET (Matches \X Texts) :
         /\ rows' = {NewRow("create", s[1], mapPredictionString(s[2])) : s \in S}
         /\ tip' = [NoTip EXCEPT !.status = "pending", !.totals = KeysOf(rows')]
  BY DEF Create
<1>4. ASSUME NEW r \in rows'
      PROVE  /\ r \in Row /\ MatchOf(r.id) = r.match /\ r.verdict = "none"
             /\ MakerOf(r.id) \notin Calls
             /\ r = NewRow("create", MatchOf(r.id), r.id[2])
  <2>1. PICK s \in S : r = NewRow("create", s[1], mapPredictionString(s[2]))
    BY <1>3
  <2>2. s[1] \in Matches /\ s[2] \in Texts
    OBVIOUS
  <2>3. /\ r \in Row /\ r.match = s[1] /\ r.verdict = "none"
        /\ MatchOf(r.id) = s[1] /\ MakerOf(r.id) = "create"
    BY <2>1, <2>2, NewRowType
  <2>4. r.id[2] = mapPredictionString(s[2])
    BY <2>1 DEF NewRow
  <2> QED
    BY <2>1, <2>3, <2>4, CallsAssumption
<1>5. tip' \in TipRow /\ ~tip'.published /\ tip'.status = "pending"
  <2>1. KeysOf(rows') \in SUBSET Keys
    BY <1>4 DEF KeysOf, Key, Row, Keys
  <2> QED
    BY <1>3, <2>1 DEF NoTip, TipRow
<1>6. TypeOK'
  BY <1>2, <1>4, <1>5 DEF Inv, TypeOK
<1>7. RowsOK'
  <2>1. \A q, r \in rows' : q.id = r.id => q = r
    BY <1>4
  <2> QED
    BY <1>4, <2>1 DEF RowsOK
<1>8. TipOK'
  BY <1>5, NoTipType DEF TipOK
<1>9. OneTab'
  BY <1>1, <1>2, <1>5 DEF Inv, OneTab, NoneLive, Live, InCall
<1>10. ASSUME NEW e \in Evals PROVE EvalOK(eval[e])'
  BY <1>1, <1>2 DEF EvalOK
<1>11. ASSUME NEW c \in Calls PROVE CallOK(c, call[c])'
  BY <1>1, <1>2 DEF CallOK, NoneLive, Live
<1>12. ASSUME NEW o \in Outcomes PROVE RunOK(run[o])'
  BY <1>1, <1>2 DEF RunOK
<1> QED
  BY <1>6, <1>7, <1>8, <1>9, <1>10, <1>11, <1>12 DEF Inv

\* A purchase goes on, or nothing does.
LEMMA PurchaseMoves ==
    ASSUME Inv,
           purchase' \in [Buyers -> [status : PurchaseStatus,
                                    outcome : Decided \cup {"none"}]],
           UNCHANGED <<game, tip, rows, tabs, call, jobs, faults>>
    PROVE  Inv'
<1>1. /\ match' = match /\ score' = score /\ tip' = tip /\ rows' = rows
      /\ tabs' = tabs /\ call' = call /\ eval' = eval /\ run' = run
      /\ faults' = faults
  BY DEF game, jobs
<1>2. TypeOK'
  BY <1>1 DEF Inv, TypeOK
<1>3. RowsOK' /\ TipOK'
  BY <1>1 DEF Inv, RowsOK, Judgement, TipOK, NoneEnded, NoneLive, Live, Settled, Ended
<1>4. OneTab'
  BY <1>1 DEF Inv, OneTab, NoneLive, Live, Settled, Ended
<1>5. ASSUME NEW e \in Evals PROVE EvalOK(eval[e])'
  BY <1>1 DEF Inv, EvalOK, Judgement, Ended
<1>6. ASSUME NEW c \in Calls PROVE CallOK(c, call[c])'
  BY <1>1 DEF Inv, CallOK, NoneEnded, Ended
<1>7. ASSUME NEW o \in Outcomes PROVE RunOK(run[o])'
  BY <1>1 DEF Inv, RunOK, NoneLive, Live, Settled, Ended
<1> QED
  BY <1>2, <1>3, <1>4, <1>5, <1>6, <1>7 DEF Inv

LEMMA PurchaseSteps ==
    ASSUME Inv, (\E b \in Buyers : Buy(b) \/ Pay(b)) \/ UNCHANGED vars
    PROVE  Inv'
<1>1. CASE \E b \in Buyers : Buy(b) \/ Pay(b)
  <2>1. PICK b \in Buyers : Buy(b) \/ Pay(b)
    BY <1>1
  <2>2. \E s \in PurchaseStatus : purchase' = [purchase EXCEPT ![b].status = s]
    BY <2>1 DEF Buy, Pay, PurchaseStatus
  <2>3. purchase' \in [Buyers -> [status : PurchaseStatus,
                                 outcome : Decided \cup {"none"}]]
    BY <2>2 DEF Inv, TypeOK
  <2> QED
    BY <2>1, <2>3, PurchaseMoves DEF Buy, Pay
<1>2. CASE UNCHANGED vars
  BY <1>2, PurchaseMoves DEF vars, game, jobs, Inv, TypeOK
<1> QED
  BY <1>1, <1>2

\* The matches go on: none ends while somebody still knows the time before.
LEMMA GameMoves ==
    ASSUME Inv, match' \in [Matches -> Phases],
           score' \in [Matches -> Score \cup {NoScore}],
           \A m \in Matches : Ended(m) => Ended(m)',
           Quiet \/ \A m \in Matches : Ended(m)' => Ended(m),
           \A m \in Matches : score[m] # NoScore => score'[m] = score[m],
           UNCHANGED <<tip, rows, purchase, tabs, call, jobs, faults>>
    PROVE  Inv'
<1>1. /\ tip' = tip /\ rows' = rows /\ purchase' = purchase
      /\ tabs' = tabs /\ call' = call /\ eval' = eval /\ run' = run
      /\ faults' = faults
  BY DEF jobs
<1>2. /\ \A r \in rows : r.match \in Matches
      /\ \A e \in Evals : \A r \in eval[e] : r.match \in Matches
      /\ \A c \in Calls : \A r \in call[c].row : r.match \in Matches
      /\ \A o \in Outcomes : \A i \in run[o].ids : MatchOf(i) \in Matches
  <2>1. \A i \in Ids : MatchOf(i) \in Matches
    BY DEF Ids, MatchOf
  <2> QED
    BY <2>1 DEF Inv, TypeOK, Row, CallRow
<1>3. Quiet => /\ NoneLive
               /\ \A e \in Evals : eval[e] = {}
               /\ \A o \in Outcomes : run[o].pc = "idle"
  BY DEF Quiet, NoneLive, Live, InCall, InProgress
<1>4. \A r : r.match \in Matches /\ Judgement(r) => Judgement(r)'
  BY DEF Judgement
<1>5. (Settled => Settled') /\ (NoneLive' <=> NoneLive)
  BY <1>1, <1>2 DEF Settled, NoneLive, Live
<1>6. NoneLive \/ (NoneEnded => NoneEnded')
  BY <1>1, <1>2, <1>3 DEF NoneEnded
<1>7. TypeOK'
  BY <1>1 DEF Inv, TypeOK
<1>8. RowsOK'
  BY <1>1, <1>2, <1>4 DEF Inv, RowsOK
<1>9. TipOK'
  BY <1>1, <1>5, <1>6 DEF Inv, TipOK
<1>10. OneTab'
  BY <1>1, <1>5 DEF Inv, OneTab, Live
<1>11. ASSUME NEW e \in Evals PROVE EvalOK(eval[e])'
  BY <1>1, <1>2, <1>4 DEF Inv, EvalOK
<1>12. ASSUME NEW c \in Calls PROVE CallOK(c, call[c])'
  <2>1. CASE Quiet
    BY <1>1, <1>3, <2>1 DEF CallOK, NoneLive, Live
  <2>2. CASE \A m \in Matches : Ended(m)' => Ended(m)
    <3>1. NoneEnded => NoneEnded'
      BY <1>1, <1>2, <2>2 DEF NoneEnded
    <3>2. \A r \in call[c].row : Ended(r.match)' => Ended(r.match)
      BY <1>2, <2>2
    <3> QED
      BY <1>1, <3>1, <3>2 DEF Inv, CallOK
  <2> QED
    BY <2>1, <2>2
<1>13. ASSUME NEW o \in Outcomes PROVE RunOK(run[o])'
  <2>1. \A i \in run[o].ids : Ended(MatchOf(i)) => Ended(MatchOf(i))'
    BY <1>2
  <2> QED
    BY <1>1, <1>5, <2>1 DEF Inv, RunOK
<1> QED
  BY <1>7, <1>8, <1>9, <1>10, <1>11, <1>12, <1>13 DEF Inv

LEMMA GameSteps ==
    ASSUME Inv, NEW m \in Matches, PlayMatch(m) \/ EnterScore(m) PROVE Inv'
<1>1. CASE PlayMatch(m)
  <2>1. PICK x \in Phases :
           /\ match[m] # "finished" /\ match' = [match EXCEPT ![m] = x]
           /\ x = "finished" => Quiet
    BY <1>1 DEF PlayMatch, Phases
  <2>2. \A n \in Matches : match'[n] = IF n = m THEN x ELSE match[n]
    BY <2>1 DEF Inv, TypeOK
  <2>3. /\ \A n \in Matches : Ended(n) => Ended(n)'
        /\ Quiet \/ \A n \in Matches : Ended(n)' => Ended(n)
    BY <2>1, <2>2 DEF Ended
  <2>4. match' \in [Matches -> Phases] /\ score' = score
    BY <1>1, <2>1 DEF Inv, TypeOK, PlayMatch
  <2> QED
    BY <1>1, <2>3, <2>4, GameMoves DEF PlayMatch, Inv, TypeOK
<1>2. CASE EnterScore(m)
  <2>1. PICK s \in Score : score[m] = NoScore /\ score' = [score EXCEPT ![m] = s]
    BY <1>2, ResultsAssumption DEF EnterScore
  <2>2. /\ score' \in [Matches -> Score \cup {NoScore}]
        /\ \A n \in Matches : score[n] # NoScore => score'[n] = score[n]
    BY <2>1 DEF Inv, TypeOK
  <2>3. match' = match
    BY <1>2 DEF EnterScore
  <2> QED
    BY <1>2, <2>2, <2>3, GameMoves DEF EnterScore, Inv, TypeOK, Ended
<1> QED
  BY <1>1, <1>2

LEMMA CrashStep == ASSUME Inv, Crash PROVE Inv'
<1>1. /\ match' = match /\ score' = score /\ tip' = tip /\ rows' = rows
      /\ purchase' = purchase /\ tabs' = tabs
      /\ \A e \in Evals : eval'[e] = {}
      /\ \A o \in Outcomes : run'[o] = NoRun
      /\ \A c \in Calls : call'[c] = IF Live(c) THEN Over ELSE call[c]
  BY DEF Crash, game, InProgress, Live, InCall
<1>2. \A c \in Calls : ~InCall(call'[c])
  BY <1>1, NoCallType DEF Live, InCall
<1>3. NoneLive'
  BY <1>2 DEF NoneLive, Live
<1>4. TypeOK'
  BY <1>1, NoCallType, NoRunType, BoundsAssumption DEF Inv, TypeOK, Crash
<1>5. RowsOK'
  <2>1. \A c \in Calls : call[c].pc = "done" => call'[c].pc = "done"
    BY <1>1 DEF Live, InCall
  <2> QED
    BY <1>1, <2>1 DEF Inv, RowsOK, Judgement, Ended
<1>6. TipOK'
  BY <1>1, <1>3, NoRunType DEF Inv, TipOK, NoneEnded, Settled, Ended
<1>7. OneTab'
  <2>1. \A c \in Calls : call'[c].pc # "chosen" /\ ~Live(c)'
    BY <1>2 DEF InCall, Live
  <2> QED
    BY <1>1, <1>3, <2>1, NoRunType DEF Inv, OneTab, Settled, Ended
<1>8. /\ \A e \in Evals : EvalOK(eval[e])'
      /\ \A c \in Calls : CallOK(c, call[c])'
      /\ \A o \in Outcomes : RunOK(run[o])'
  BY <1>1, <1>2, NoRunType DEF EvalOK, CallOK, RunOK
<1> QED
  BY <1>4, <1>5, <1>6, <1>7, <1>8 DEF Inv

-----------------------------------------------------------------------------
(* The invariant *)

LEMMA InitInv == Init => Inv
<1> SUFFICES ASSUME Init PROVE Inv
  OBVIOUS
<1>1. /\ tip = NoTip /\ rows = {} /\ NoneLive
      /\ \A e \in Evals : eval[e] = {}
      /\ \A o \in Outcomes : run[o] = NoRun
      /\ \A c \in Calls : call[c] = NoCall
  BY NoCallType DEF Init, NoneLive, Live, InCall
<1>2. TypeOK
  <2>1. faults \in 0..MaxFaults /\ tabs \in Nat
    BY BoundsAssumption DEF Init
  <2>2. /\ match \in [Matches -> Phases]
        /\ score \in [Matches -> Score \cup {NoScore}]
        /\ purchase \in [Buyers -> [status : PurchaseStatus,
                                    outcome : Decided \cup {"none"}]]
    BY DEF Init, Phases, PurchaseStatus
  <2>3. call \in [Calls -> CallRow] /\ eval \in [Evals -> SUBSET Row]
    BY NoCallType DEF Init
  <2> QED
    BY <1>1, <2>1, <2>2, <2>3, NoRunType DEF Init, TypeOK
<1>3. RowsOK /\ TipOK
  BY <1>1, NoTipType, NoRunType DEF RowsOK, TipOK
<1>4. OneTab
  BY <1>1, NoTipType, NoRunType, NoCallType DEF OneTab, NoneLive
<1>5. /\ \A e \in Evals : EvalOK(eval[e])
      /\ \A c \in Calls : CallOK(c, call[c])
      /\ \A o \in Outcomes : RunOK(run[o])
  BY <1>1, NoCallType, NoRunType DEF EvalOK, CallOK, RunOK, InCall
<1> QED
  BY <1>2, <1>3, <1>4, <1>5 DEF Inv

LEMMA NextInv == Inv /\ [Next]_vars => Inv'
<1> SUFFICES ASSUME Inv, [Next]_vars PROVE Inv'
  OBVIOUS
<1>1. CASE Create
  BY <1>1, CreateStep
<1>2. ASSUME NEW c \in Calls, TipsterStep(c) PROVE Inv'
  BY <1>2, BeginSteps, ChooseStep, WriteStep, CheckStep, CommitSteps DEF TipsterStep
<1>3. ASSUME NEW e \in Evals, EvalStep(e) \/ FailVerdict(e) PROVE Inv'
  BY <1>3, StartEvalStep, SaveVerdictStep, FailVerdictStep DEF EvalStep
<1>4. ASSUME NEW o \in Outcomes, OutcomeStep(o) \/ FailOutcome(o) PROVE Inv'
  BY <1>4, DetermineStep, ReadPurchasesStep, MarkPurchaseStep, SaveOutcomeStep,
     FailOutcomeStep DEF OutcomeStep
<1>5. CASE \E b \in Buyers : Buy(b) \/ Pay(b)
  BY <1>5, PurchaseSteps
<1>6. ASSUME NEW m \in Matches, PlayMatch(m) \/ EnterScore(m) PROVE Inv'
  BY <1>6, GameSteps
<1>7. CASE Crash
  BY <1>7, CrashStep
<1>8. CASE UNCHANGED vars
  BY <1>8, PurchaseSteps
<1> QED
  BY <1>1, <1>2, <1>3, <1>4, <1>5, <1>6, <1>7, <1>8 DEF Next, Resting

\* What the theorems rest on.
LEMMA Invariance == Spec => []Inv
BY InitInv, NextInv, PTL DEF Spec

\* Every state of a tip and of what is under way on it is of the shape the
\* entities give it: tip.entity.ts, tip-selection.entity.ts, purchase.entity.ts.
THEOREM TipTyped == Spec => []TypeOK
<1>1. Inv => TypeOK
  BY DEF Inv
<1> QED
  BY <1>1, Invariance, PTL

-----------------------------------------------------------------------------
(* The outcome *)

LEMMA EarnedByInv == ASSUME Inv PROVE OutcomeEarned
<1> SUFFICES ASSUME tip.published, tip.status \in Decided
             PROVE  /\ tip.status = "won"  => AllOver /\ \A r \in rows : Comes("correct", r)
                    /\ tip.status = "void" => AllOver /\ \E r \in rows : Comes("void", r)
                    /\ tip.status = "lost" /\ tabs = 1 =>
                           AllOver /\ \E r \in rows : Comes("incorrect", r)
  BY DEF OutcomeEarned
<1>1. Settled => AllOver
  BY DEF Settled, AllOver, Ended
<1>2. \A r \in rows : r.verdict \in Verdicts /\ (r.verdict # "none" => Comes(r.verdict, r))
  BY DEF Inv, TypeOK, Row, RowsOK, Judgement, Comes
<1>3. ASSUME tip.status \in {"won", "void"} \/ tabs = 1
      PROVE  Settled /\ tip.status = Outcome(rows)
  BY <1>3 DEF Inv, TipOK, OneTab, Decided
<1>4. CASE tip.status = "won"
  <2>1. Settled /\ \A r \in rows : r.verdict = "correct"
    BY <1>3, <1>4 DEF Outcome
  <2> QED
    BY <1>1, <1>2, <1>4, <2>1
<1>5. CASE tip.status = "void"
  <2>1. Settled /\ \E r \in rows : r.verdict = "void"
    BY <1>3, <1>5 DEF Outcome
  <2> QED
    BY <1>1, <1>2, <1>5, <2>1
<1>6. CASE tip.status = "lost" /\ tabs = 1
  <2>1. Settled /\ \E r \in rows : r.verdict \notin {"correct", "void", "none"}
    BY <1>3, <1>6 DEF Outcome, Settled
  <2>2. \E r \in rows : r.verdict = "incorrect"
    BY <1>2, <2>1 DEF Verdicts
  <2> QED
    BY <1>1, <1>2, <1>6, <2>1, <2>2
<1> QED
  BY <1>4, <1>5, <1>6

\* A tip for sale has the outcome its predictions have earned on the final
\* scores, whatever the crons saved late and wherever a run failed
\* (tip-outcome-determination.scheduler.ts:126-148).
THEOREM OutcomeIsEarned == Spec => []OutcomeEarned
BY EarnedByInv, Invariance, PTL

\* The steps that write the tip.
LEMMA TipKept ==
    ASSUME [Next]_vars
    PROVE  \/ Create
           \/ \E c \in Calls : /\ Live(c)
                               /\ CommitAdd(c) \/ CommitRemove(c)
                                  \/ CommitUpdate(c) \/ CommitPublish(c)
           \/ \E o \in Outcomes : SaveOutcome(o) /\ rows' = rows
           \/ \E e \in Evals : SaveVerdict(e) /\ tip' = tip
           \/ tip' = tip /\ rows' = rows
<1>1. ASSUME NEW c \in Calls, TipsterStep(c)
      PROVE  \/ /\ Live(c)
                /\ CommitAdd(c) \/ CommitRemove(c) \/ CommitUpdate(c) \/ CommitPublish(c)
             \/ tip' = tip /\ rows' = rows
  <2>1. CommitAdd(c) \/ CommitRemove(c) \/ CommitUpdate(c) \/ CommitPublish(c) => Live(c)
    BY DEF CommitAdd, CommitRemove, CommitUpdate, CommitPublish, Live, InCall
  <2>2. BeginAdd(c) \/ BeginRemove(c) \/ BeginUpdate(c) \/ BeginPublish(c)
            => tip' = tip /\ rows' = rows
    BY DEF BeginAdd, BeginRemove, BeginUpdate, BeginPublish, Begin
  <2>3. ChooseChange(c) \/ WriteRow(c) \/ CheckPublish(c) => tip' = tip /\ rows' = rows
    BY DEF ChooseChange, WriteRow, CheckPublish
  <2> QED
    BY <1>1, <2>1, <2>2, <2>3 DEF TipsterStep
<1>2. ASSUME NEW e \in Evals, EvalStep(e) \/ FailVerdict(e)
      PROVE  (SaveVerdict(e) /\ tip' = tip) \/ (tip' = tip /\ rows' = rows)
  BY <1>2 DEF EvalStep, StartEval, SaveVerdict, FailVerdict
<1>3. ASSUME NEW o \in Outcomes, OutcomeStep(o) \/ FailOutcome(o)
      PROVE  (SaveOutcome(o) /\ rows' = rows) \/ (tip' = tip /\ rows' = rows)
  BY <1>3 DEF OutcomeStep, Determine, ReadPurchases, MarkPurchase, SaveOutcome, FailOutcome
<1>4. (\E b \in Buyers : Buy(b) \/ Pay(b)) \/ (\E m \in Matches : PlayMatch(m) \/ EnterScore(m))
        \/ Crash \/ UNCHANGED vars => tip' = tip /\ rows' = rows
  BY DEF Buy, Pay, PlayMatch, EnterScore, Crash, vars
<1> QED
  BY <1>1, <1>2, <1>3, <1>4 DEF Next, Resting

\* A deciding run that saves leaves a published tip with selections published,
\* and does not change what is decided.
LEMMA SaveKeeps ==
    ASSUME Inv, NEW o \in Outcomes, SaveOutcome(o), tip.published, rows # {}
    PROVE  tip'.published /\ (tip.status \in Decided => tip'.status = tip.status)
<1>1. CASE ~NoRowAdded(o)
  BY <1>1 DEF SaveOutcome
<1>2. CASE NoRowAdded(o)
  BY <1>2, SavedTip DEF Decided
<1> QED
  BY <1>1, <1>2

LEMMA FinalByInv ==
    ASSUME Inv, [Next]_vars, tip.published, tip.status \in Decided, AllOver \/ tabs = 1
    PROVE  tip'.status = tip.status
<1>1. rows # {} /\ NoneLive
  BY DEF AllOver, Inv, OneTab, TipOK, NoneEnded, Ended
<1>2. tip # NoTip
  BY NoTipType
<1> QED
  BY <1>1, <1>2, TipKept, SaveKeeps DEF Create, NoneLive

\* Once its matches are over nothing changes the outcome of a published tip, which
\* the settlement has acted on by then
\* (tip-outcome-determination.scheduler.ts:139, tips.service.ts:970, 1105, 1482, 1737).
THEOREM OutcomeIsFinal == Spec => OutcomeFinal
<1>1. Inv /\ [Next]_vars =>
          [tip.published /\ tip.status \in Decided /\ (AllOver \/ tabs = 1) =>
               tip'.status = tip.status]_vars
  BY FinalByInv
<1> QED
  BY <1>1, Invariance, PTL DEF Spec, OutcomeFinal

LEMMA SaveVerdictKeys ==
    ASSUME Inv, NEW e \in Evals, SaveVerdict(e) PROVE KeysOf(rows') = KeysOf(rows)
<1>1. PICK r \in eval[e] : rows' = {IF q.id = r.id THEN r ELSE q : q \in rows}
  BY DEF SaveVerdict
<1>2. ASSUME NEW q \in rows, q.id = r.id PROVE Key(q) = Key(r)
  BY <1>2 DEF Inv, EvalOK, RowsOK, Key
<1> QED
  BY <1>1, <1>2 DEF KeysOf

LEMMA StaysByInv ==
    ASSUME Inv, [Next]_vars, tabs = 1, tip.published
    PROVE  tip'.published /\ KeysOf(rows') = KeysOf(rows)
<1>1. rows # {} /\ NoneLive /\ tip # NoTip
  BY NoTipType DEF Inv, OneTab
<1> QED
  BY <1>1, TipKept, SaveKeeps, SaveVerdictKeys DEF Create, NoneLive

\* A tipster who does one thing at a time cannot change the selections of a
\* published tip or take it back, and no stale save of a cron does
\* (tips.service.ts:970, 1105, 1482, tip-outcome-determination.scheduler.ts:139).
THEOREM PublishedTipStays == Spec => PublishedStays
<1>1. Inv /\ [Next]_vars =>
          [tabs = 1 /\ tip.published =>
               tip'.published /\ KeysOf(rows') = KeysOf(rows)]_vars
  BY StaysByInv
<1> QED
  BY <1>1, Invariance, PTL DEF Spec, PublishedStays

-----------------------------------------------------------------------------
(* What is marked on the purchases *)

\* A run that is under way when a match of the published tip has ended knows that
\* tip, and what it has marked is its outcome.
RunsKnow ==
    \A o \in Outcomes :
        run[o].pc # "idle" /\ tip.published /\ ~NoneEnded =>
            run[o].tip.published /\ run[o].ids # {}

Marked(o) ==
    \A b \in Buyers : \/ purchase[b].outcome \in {"none", run[o].tip.status}
                      \/ \E s \in PurchaseStatus : <<b, s>> \in run[o].todo

MarksInv ==
    /\ \A b \in Buyers : purchase[b].status = "none" => purchase[b].outcome = "none"
    /\ \A o \in Outcomes : \A p \in run[o].todo : p[2] # "none"
    /\ RunsKnow
    /\ \A o \in Outcomes :
         run[o].pc = "mark" /\ run[o].tip.published /\ run[o].ids # {} => Marked(o)
    /\ OutcomesAgree

\* A commit leaves no published tip with a match that has ended.
LEMMA CommitAhead ==
    ASSUME Inv, NEW c \in Calls, Live(c), tip'.published,
           CommitAdd(c) \/ CommitRemove(c) \/ CommitUpdate(c) \/ CommitPublish(c)
    PROVE  NoneEnded'
<1>1. ~NoneLive /\ call[c] \in CallRow /\ CallOK(c, call[c]) /\ InCall(call[c])
  BY DEF NoneLive, Inv, TypeOK, Live
<1>2. call[c].tip \in TipRow /\ ~call[c].tip.published
  BY <1>1 DEF CallOK
<1>3. match' = match
  BY DEF CommitAdd, CommitRemove, CommitUpdate, CommitPublish, game
<1>4. CASE CommitAdd(c)
  <2>1. tip.published
    BY <1>1, <1>4 DEF CommitAdd, Inv, TypeOK, TipOK, TipRow
  <2>2. NoneEnded
    BY <1>1, <2>1 DEF Inv, TipOK
  <2> QED
    BY <1>3, <1>4, <2>2, ChangedRows DEF CommitAdd, NoneEnded, Ended
<1>5. CASE CommitRemove(c) \/ CommitUpdate(c)
  BY <1>2, <1>5 DEF CommitRemove, CommitUpdate, TipRow
<1>6. CASE CommitPublish(c)
  BY <1>1, <1>3, <1>6 DEF CommitPublish, CallOK, NoneEnded, Ended
<1> QED
  BY <1>4, <1>5, <1>6

\* A published tip that is won or void has a match that has ended.
LEMMA WonEnded ==
    ASSUME Inv, tip.published, tip.status \in {"won", "void"}
    PROVE  ~NoneEnded /\ Settled /\ tip.status = Outcome(rows)
BY DEF Inv, TipOK, NoneEnded, Settled

\* The steps that leave the runs and what they know alone.
LEMMA MarksFrame ==
    ASSUME Inv, Inv', MarksInv, run' = run,
           tip'.published /\ ~NoneEnded' => /\ tip.published /\ ~NoneEnded
                                            /\ tip'.status = tip.status,
           \A b \in Buyers : /\ purchase'[b].outcome = purchase[b].outcome
                             /\ purchase'[b].status = "none" => purchase[b].status = "none"
    PROVE  MarksInv'
<1>1. RunsKnow'
  BY DEF MarksInv, RunsKnow
<1>2. ASSUME NEW o \in Outcomes, Marked(o) PROVE Marked(o)'
  <2> SUFFICES ASSUME NEW b \in Buyers
               PROVE  \/ purchase'[b].outcome \in {"none", run[o].tip.status}
                      \/ \E s \in PurchaseStatus : <<b, s>> \in run[o].todo
    BY DEF Marked
  <2>1. \/ purchase[b].outcome \in {"none", run[o].tip.status}
        \/ \E s \in PurchaseStatus : <<b, s>> \in run[o].todo
    BY <1>2 DEF Marked
  <2> QED
    BY <2>1
<1>3. OutcomesAgree'
  <2> SUFFICES ASSUME tip'.published, tip'.status \in {"won", "void"}, NEW b \in Buyers
               PROVE  purchase'[b].outcome \in {"none", tip'.status}
    BY DEF OutcomesAgree
  <2>1. ~NoneEnded'
    BY DEF Inv, TipOK, NoneEnded, Settled
  <2>2. tip.published /\ tip.status = tip'.status
    BY <2>1
  <2>3. purchase[b].outcome \in {"none", tip.status}
    BY <2>2 DEF MarksInv, OutcomesAgree
  <2> QED
    BY <2>2, <2>3
<1>4. \A b \in Buyers : purchase'[b].status = "none" => purchase'[b].outcome = "none"
  BY DEF MarksInv
<1>5. /\ \A o \in Outcomes : \A p \in run'[o].todo : p[2] # "none"
      /\ \A o \in Outcomes :
           run'[o].pc = "mark" /\ run'[o].tip.published /\ run'[o].ids # {} => Marked(o)'
  BY <1>2 DEF MarksInv
<1> QED
  BY <1>1, <1>3, <1>4, <1>5 DEF MarksInv

\* A run moves and leaves the tip alone.
LEMMA MarksRun ==
    ASSUME Inv, MarksInv, NEW o \in Outcomes,
           Determine(o) \/ ReadPurchases(o) \/ FailOutcome(o)
    PROVE  MarksInv'
<1>1. /\ tip' = tip /\ rows' = rows /\ match' = match /\ purchase' = purchase
      /\ \A q \in Outcomes : q # o => run'[q] = run[q]
  BY DEF Determine, ReadPurchases, FailOutcome, Inv, TypeOK, game
<1>2. NoneEnded' <=> NoneEnded
  BY <1>1 DEF NoneEnded, Ended
<1>3. run[o] \in RunType
  BY DEF Inv, TypeOK, RunType
<1>4. /\ \A p \in run'[o].todo : p[2] # "none"
      /\ run'[o].pc # "idle" /\ tip.published /\ ~NoneEnded =>
             run'[o].tip.published /\ run'[o].ids # {}
      /\ run'[o].pc = "mark" /\ run'[o].tip.published /\ run'[o].ids # {} => Marked(o)'
  <2>1. CASE Determine(o)
    <3>1. /\ run'[o].todo = {} /\ run'[o].pc = "read" /\ run'[o].ids = IdsOf(rows)
          /\ run'[o].tip.published = tip.published
      BY <2>1, NoTipType DEF Determine, Inv, TypeOK, TipRow
    <3>2. ~NoneEnded => IdsOf(rows) # {}
      BY DEF NoneEnded, IdsOf
    <3> QED
      BY <3>1, <3>2
  <2>2. CASE ReadPurchases(o)
    <3>1. /\ run'[o].todo = {<<b, purchase[b].status>> : b \in Purchases}
          /\ run'[o].ids = run[o].ids /\ run'[o].tip = run[o].tip /\ run[o].pc = "read"
      BY <1>3, <2>2 DEF ReadPurchases, Inv, TypeOK, RunType
    <3>2. Marked(o)'
      BY <1>1, <3>1 DEF Marked, Purchases, MarksInv, Inv, TypeOK
    <3> QED
      BY <3>1, <3>2 DEF MarksInv, RunsKnow, Purchases
  <2>3. CASE FailOutcome(o)
    <3>1. run'[o] = NoRun /\ NoRun.pc = "idle" /\ NoRun.todo = {}
      BY <2>3 DEF FailOutcome, Inv, TypeOK, NoRun
    <3> QED
      BY <3>1
  <2> QED
    BY <2>1, <2>2, <2>3
<1>5. \A q \in Outcomes : q # o => (Marked(q)' <=> Marked(q))
  BY <1>1 DEF Marked
<1>6. RunsKnow'
  BY <1>1, <1>2, <1>4 DEF MarksInv, RunsKnow
<1>7. OutcomesAgree'
  BY <1>1 DEF MarksInv, OutcomesAgree
<1> QED
  BY <1>1, <1>4, <1>5, <1>6, <1>7 DEF MarksInv

LEMMA MarksMark ==
    ASSUME Inv, MarksInv, NEW o \in Outcomes, MarkPurchase(o) PROVE MarksInv'
<1>1. PICK p \in run[o].todo :
         /\ run' = [run EXCEPT ![o].todo = @ \ {p}]
         /\ purchase' = [purchase EXCEPT ![p[1]] =
                            [status |-> p[2], outcome |-> run[o].tip.status]]
  BY DEF MarkPurchase
<1>2. /\ p[1] \in Buyers /\ p[2] # "none" /\ p = <<p[1], p[2]>>
      /\ run[o] \in RunType /\ run[o].pc = "mark"
  BY DEF MarkPurchase, MarksInv, Inv, TypeOK, RunType
<1>3. /\ tip' = tip /\ rows' = rows /\ match' = match
      /\ \A q \in Outcomes : q # o => run'[q] = run[q]
      /\ run'[o].todo = run[o].todo \ {p} /\ run'[o].pc = run[o].pc
      /\ run'[o].tip = run[o].tip /\ run'[o].ids = run[o].ids
  BY <1>1, <1>2 DEF MarkPurchase, Inv, TypeOK, RunType, game
<1>4. \A b \in Buyers : /\ b # p[1] => purchase'[b] = purchase[b]
                        /\ b = p[1] => /\ purchase'[b].status = p[2]
                                       /\ purchase'[b].outcome = run[o].tip.status
  BY <1>1 DEF Inv, TypeOK
<1>5. tip.published /\ ~NoneEnded => run[o].tip.status = Outcome(rows)
  BY <1>2 DEF Inv, RunOK, MarksInv, RunsKnow
<1>6. RunsKnow'
  BY <1>3 DEF MarksInv, RunsKnow, NoneEnded, Ended
<1>7. OutcomesAgree'
  <2> SUFFICES ASSUME tip'.published, tip'.status \in {"won", "void"}, NEW b \in Buyers
               PROVE  purchase'[b].outcome \in {"none", tip'.status}
    BY DEF OutcomesAgree
  <2>1. tip.published /\ tip.status = tip'.status /\ tip.status = run[o].tip.status
    BY <1>3, <1>5, WonEnded
  <2>2. purchase[b].outcome \in {"none", tip.status}
    BY <1>3, <2>1 DEF MarksInv, OutcomesAgree
  <2> QED
    BY <1>4, <2>1, <2>2
<1>8. ASSUME NEW q \in Outcomes, run'[q].pc = "mark", run'[q].tip.published, run'[q].ids # {}
      PROVE  Marked(q)'
  <2>1. Marked(q)
    BY <1>3, <1>8 DEF MarksInv
  <2>2. run[q].tip.status = run[o].tip.status
    <3>1. tip.published /\ Settled /\ run[q].tip.status = Outcome(rows)
      BY <1>3, <1>8 DEF Inv, RunOK
    <3> QED
      BY <1>5, <3>1 DEF Settled, NoneEnded
  <2>3. run'[q].tip = run[q].tip
    BY <1>3
  <2> SUFFICES ASSUME NEW b \in Buyers
               PROVE  \/ purchase'[b].outcome \in {"none", run'[q].tip.status}
                      \/ \E s \in PurchaseStatus : <<b, s>> \in run'[q].todo
    BY DEF Marked
  <2>4. CASE b = p[1]
    BY <1>4, <2>2, <2>3, <2>4
  <2>5. CASE b # p[1]
    <3>1. ASSUME NEW s, <<b, s>> \in run[q].todo PROVE <<b, s>> \in run'[q].todo
      BY <1>2, <1>3, <2>5, <3>1
    <3>2. \/ purchase[b].outcome \in {"none", run[q].tip.status}
          \/ \E s \in PurchaseStatus : <<b, s>> \in run[q].todo
      BY <2>1 DEF Marked
    <3> QED
      BY <1>4, <2>3, <2>5, <3>1, <3>2
  <2> QED
    BY <2>4, <2>5
<1>9. ASSUME NEW b \in Buyers, purchase'[b].status = "none" PROVE purchase'[b].outcome = "none"
  <2>1. b # p[1]
    BY <1>2, <1>4, <1>9
  <2>2. purchase'[b] = purchase[b]
    BY <1>4, <2>1
  <2> QED
    BY <1>9, <2>2 DEF MarksInv
<1>10. \A q \in Outcomes : \A x \in run'[q].todo : x[2] # "none"
  BY <1>3 DEF MarksInv
<1> QED
  BY <1>6, <1>7, <1>8, <1>9, <1>10 DEF MarksInv

LEMMA MarksSave ==
    ASSUME Inv, MarksInv, NEW o \in Outcomes, SaveOutcome(o) PROVE MarksInv'
<1>1. /\ rows' = rows /\ match' = match /\ purchase' = purchase
      /\ \A q \in Outcomes : q # o => run'[q] = run[q]
      /\ run'[o].pc = "idle" /\ run'[o].todo = {}
      /\ run[o].pc = "mark" /\ run[o].todo = {}
  BY DEF SaveOutcome, Inv, TypeOK, game, NoRun
<1>2. CASE ~NoRowAdded(o)
  <2>1. tip' = tip
    BY <1>2 DEF SaveOutcome
  <2> QED
    BY <1>1, <2>1 DEF MarksInv, RunsKnow, NoneEnded, Ended, Marked, OutcomesAgree
<1>3. CASE NoRowAdded(o)
  <2>1. tip'.published /\ ~NoneEnded => tip.published
    BY <1>3, SavedTip DEF NoneEnded
  <2>2. RunsKnow'
    BY <1>1, <2>1 DEF MarksInv, RunsKnow, NoneEnded, Ended
  <2>3. OutcomesAgree'
    <3> SUFFICES ASSUME tip'.published, tip'.status \in {"won", "void"}, NEW b \in Buyers
                 PROVE  purchase[b].outcome \in {"none", tip'.status}
      BY <1>1 DEF OutcomesAgree
    <3>1. run[o].ids # {} /\ tip' = run[o].tip
      BY <1>3, SavedTip
    <3>2. Marked(o)
      BY <1>1, <3>1 DEF MarksInv
    <3> QED
      BY <1>1, <3>1, <3>2 DEF Marked
  <2> QED
    BY <1>1, <2>2, <2>3 DEF MarksInv, Marked
<1> QED
  BY <1>2, <1>3

LEMMA MarksInit == Init => MarksInv
<1> SUFFICES ASSUME Init PROVE MarksInv
  OBVIOUS
<1>1. /\ \A b \in Buyers : purchase[b].outcome = "none"
      /\ \A o \in Outcomes : run[o] = NoRun
      /\ NoRun.pc = "idle" /\ NoRun.todo = {}
  BY DEF Init, NoRun
<1> QED
  BY <1>1, NoTipType DEF Init, MarksInv, RunsKnow, OutcomesAgree

\* A match ends only when no run is under way, and a crash ends every run.
LEMMA MarksQuiet ==
    ASSUME Inv, MarksInv, tip' = tip, purchase' = purchase,
           \A o \in Outcomes : run'[o].pc = "idle" /\ run'[o].todo \subseteq run[o].todo
    PROVE  MarksInv'
BY DEF MarksInv, RunsKnow, OutcomesAgree

LEMMA MarksTipster ==
    ASSUME Inv, Inv', MarksInv, NEW c \in Calls, TipsterStep(c) PROVE MarksInv'
<1>1. run' = run /\ purchase' = purchase /\ match' = match
  BY DEF TipsterStep, BeginAdd, BeginRemove, BeginUpdate, BeginPublish, Begin,
         ChooseChange, WriteRow, CommitAdd, CommitRemove, CommitUpdate, CheckPublish,
         CommitPublish, game, jobs
<1>2. CASE CommitAdd(c) \/ CommitRemove(c) \/ CommitUpdate(c) \/ CommitPublish(c)
  <2>1. Live(c)
    BY <1>2 DEF CommitAdd, CommitRemove, CommitUpdate, CommitPublish, Live, InCall
  <2>2. tip'.published => NoneEnded'
    BY <1>2, <2>1, CommitAhead
  <2> QED
    BY <1>1, <2>2, MarksFrame
<1>3. CASE tip' = tip /\ rows' = rows
  <2>1. NoneEnded' <=> NoneEnded
    BY <1>1, <1>3 DEF NoneEnded, Ended
  <2> QED
    BY <1>1, <1>3, <2>1, MarksFrame
<1> QED
  BY <1>2, <1>3 DEF TipsterStep, BeginAdd, BeginRemove, BeginUpdate, BeginPublish, Begin,
     ChooseChange, WriteRow, CheckPublish

LEMMA MarksOthers ==
    ASSUME Inv, Inv', MarksInv,
           \/ Create \/ Crash \/ UNCHANGED vars
           \/ \E e \in Evals : EvalStep(e) \/ FailVerdict(e)
           \/ \E b \in Buyers : Buy(b) \/ Pay(b)
           \/ \E m \in Matches : PlayMatch(m) \/ EnterScore(m)
    PROVE  MarksInv'
<1>1. CASE Create
  <2>1. ~tip'.published /\ run' = run /\ purchase' = purchase
    BY <1>1 DEF Create, NoTip, jobs
  <2> QED
    BY <2>1, MarksFrame
<1>2. CASE Crash
  <2>1. \A o \in Outcomes : run'[o].pc = "idle" /\ run'[o].todo = {}
    BY <1>2 DEF Crash, NoRun
  <2> QED
    BY <1>2, <2>1, MarksQuiet DEF Crash
<1>3. ASSUME NEW e \in Evals, EvalStep(e) \/ FailVerdict(e) PROVE MarksInv'
  <2>1. /\ run' = run /\ purchase' = purchase /\ match' = match /\ tip' = tip
        /\ rows' = rows \/ SaveVerdict(e)
    BY <1>3 DEF EvalStep, StartEval, SaveVerdict, FailVerdict, game
  <2>2. ASSUME SaveVerdict(e), NoneEnded PROVE NoneEnded'
    <3>1. PICK r \in eval[e] : rows' = {IF q.id = r.id THEN r ELSE q : q \in rows}
      BY <2>2 DEF SaveVerdict
    <3>2. ASSUME NEW q \in rows, q.id = r.id PROVE q.match = r.match
      BY <3>2 DEF Inv, EvalOK, RowsOK
    <3> QED
      BY <2>1, <2>2, <3>1, <3>2 DEF NoneEnded, Ended
  <2>3. NoneEnded => NoneEnded'
    BY <2>1, <2>2 DEF NoneEnded, Ended
  <2> QED
    BY <2>1, <2>3, MarksFrame
<1>4. ASSUME NEW b \in Buyers, Buy(b) \/ Pay(b) PROVE MarksInv'
  <2>1. run' = run /\ match' = match /\ tip' = tip /\ rows' = rows
    BY <1>4 DEF Buy, Pay, game, jobs
  <2>2. \E s \in PurchaseStatus \ {"none"} : purchase' = [purchase EXCEPT ![b].status = s]
    BY <1>4 DEF Buy, Pay, PurchaseStatus
  <2>3. \A a \in Buyers : /\ purchase'[a].outcome = purchase[a].outcome
                          /\ purchase'[a].status = "none" => purchase[a].status = "none"
    BY <2>2 DEF Inv, TypeOK
  <2>4. NoneEnded' <=> NoneEnded
    BY <2>1 DEF NoneEnded, Ended
  <2> QED
    BY <2>1, <2>3, <2>4, MarksFrame
<1>5. ASSUME NEW m \in Matches, PlayMatch(m) \/ EnterScore(m) PROVE MarksInv'
  <2>1. run' = run /\ purchase' = purchase /\ tip' = tip /\ rows' = rows
    BY <1>5 DEF PlayMatch, EnterScore, jobs
  <2>2. CASE Quiet
    BY <2>1, <2>2, MarksQuiet DEF Quiet
  <2>3. CASE ~Quiet
    <3>1. \A n \in Matches : Ended(n)' => Ended(n)
      BY <1>5, <2>3 DEF PlayMatch, EnterScore, Ended, Inv, TypeOK
    <3>2. \A r \in rows : r.match \in Matches
      BY DEF Inv, TypeOK, Row
    <3>3. NoneEnded => NoneEnded'
      BY <2>1, <3>1, <3>2 DEF NoneEnded
    <3> QED
      BY <2>1, <3>3, MarksFrame
  <2> QED
    BY <2>2, <2>3
<1>6. CASE UNCHANGED vars
  BY <1>6, MarksFrame DEF vars, NoneEnded, Ended
<1> QED
  BY <1>1, <1>2, <1>3, <1>4, <1>5, <1>6

LEMMA MarksNext == Inv /\ Inv' /\ MarksInv /\ [Next]_vars => MarksInv'
<1> SUFFICES ASSUME Inv, Inv', MarksInv, [Next]_vars PROVE MarksInv'
  OBVIOUS
<1>1. ASSUME NEW o \in Outcomes, OutcomeStep(o) \/ FailOutcome(o) PROVE MarksInv'
  BY <1>1, MarksRun, MarksMark, MarksSave DEF OutcomeStep
<1> QED
  BY <1>1, MarksTipster, MarksOthers DEF Next, Resting

\* No purchase keeps an outcome other than that of its tip, once that is won or
\* void: every run that can still mark then knows the same outcome
\* (tip-outcome-determination.scheduler.ts:126-139).
THEOREM MarksAgree == Spec => []OutcomesAgree
<1>1. MarksInv => OutcomesAgree
  BY DEF MarksInv
<1> QED
  BY <1>1, MarksInit, MarksNext, Invariance, PTL DEF Spec

-----------------------------------------------------------------------------
(* The totals of a tip *)

\* A selection of a match that has not ended.
Open == \E r \in rows : ~Ended(r.match)

\* What a call holds or will write is true of the selections while one of them is
\* open.
TotalsCall(c) ==
    /\ Live(c) /\ Open => call[c].tip.totals = KeysOf(rows)
    /\ call[c].pc = "written" => call[c].totals = KeysOf(Changed(c, rows))

\* A deciding run gives a draft stale totals only when none of its selections is
\* open, and such a draft is not published.
TotalsInv ==
    tabs = 1 =>
        /\ tip.published \/ Open => tip.totals = KeysOf(rows)
        /\ \A c \in Calls : TotalsCall(c)
        /\ \A o \in Outcomes :
             run[o].pc # "idle" /\ run[o].tip.published => run[o].tip.totals = KeysOf(rows)

\* The steps that leave the tip and its selections alone.
LEMMA TotalsFrame ==
    ASSUME TotalsInv, tip' = tip, rows' = rows, tabs' = tabs, Open' => Open,
           \A c \in Calls : call'[c] = call[c] \/ ~Live(c)' \/ TotalsCall(c)',
           \A o \in Outcomes :
               run'[o].pc # "idle" /\ run'[o].tip.published =>
                   \/ run[o].pc # "idle" /\ run'[o].tip = run[o].tip
                   \/ tip.published /\ run'[o].tip.totals = tip.totals
    PROVE  TotalsInv'
<1> SUFFICES ASSUME tabs = 1 PROVE TotalsInv'
  BY DEF TotalsInv
<1>1. ASSUME NEW c \in Calls PROVE TotalsCall(c)'
  <2>1. CASE call'[c] = call[c]
    <3>1. Changed(c, rows)' = Changed(c, rows)
      BY <2>1 DEF Changed
    <3>2. Live(c)' <=> Live(c)
      BY <2>1 DEF Live
    <3> QED
      BY <2>1, <3>1, <3>2 DEF TotalsInv, TotalsCall
  <2>2. CASE ~Live(c)'
    BY <2>2 DEF TotalsCall, Live, InCall
  <2> QED
    BY <2>1, <2>2
<1>2. ASSUME NEW o \in Outcomes, run'[o].pc # "idle", run'[o].tip.published
      PROVE  run'[o].tip.totals = KeysOf(rows)
  BY <1>2 DEF TotalsInv
<1>3. tip.published \/ Open' => tip.totals = KeysOf(rows)
  BY DEF TotalsInv
<1> QED
  BY <1>1, <1>2, <1>3 DEF TotalsInv

\* A step of a call before its commit: it knows the tip it has, or reads it now,
\* and computes the totals with its change.
LEMMA TotalsMove ==
    ASSUME Inv, TotalsInv, NEW c \in Calls,
           BeginAdd(c) \/ BeginRemove(c) \/ BeginUpdate(c) \/ BeginPublish(c)
             \/ ChooseChange(c) \/ WriteRow(c) \/ CheckPublish(c)
    PROVE  TotalsInv'
<1>1. /\ tip' = tip /\ rows' = rows /\ tabs' = tabs /\ run' = run /\ match' = match
      /\ \A d \in Calls : d # c => call'[d] = call[d]
  BY DEF BeginAdd, BeginRemove, BeginUpdate, BeginPublish, Begin, ChooseChange, Chosen,
         WriteRow, CheckPublish, Finished, Inv, TypeOK, game, jobs
<1>2. Open' <=> Open
  BY <1>1 DEF Open, Ended
<1>3. call[c] \in CallRow
  BY DEF Inv, TypeOK
<1>4. CASE Finished(c)
  <2>1. ~Live(c)'
    BY <1>4, NoCallType DEF Finished, Live, InCall, Inv, TypeOK
  <2> QED
    BY <1>1, <1>2, <2>1, TotalsFrame
<1>5. CASE BeginAdd(c) \/ BeginRemove(c) \/ BeginUpdate(c) \/ BeginPublish(c)
  <2>1. call'[c].tip = tip /\ call'[c].pc = "begun"
    BY <1>5 DEF BeginAdd, BeginRemove, BeginUpdate, BeginPublish, Begin, Inv, TypeOK
  <2>2. tabs = 1 => TotalsCall(c)'
    BY <1>1, <1>2, <2>1 DEF TotalsCall, TotalsInv
  <2> QED
    BY <1>1, <1>2, <2>2, TotalsFrame DEF TotalsInv
<1>6. CASE (ChooseChange(c) \/ CheckPublish(c)) /\ ~Finished(c)
  <2>1. call'[c].tip = call[c].tip /\ call'[c].pc = "chosen" /\ Live(c)
    BY <1>3, <1>6 DEF ChooseChange, Chosen, CheckPublish, Live, InCall, Inv, TypeOK, CallRow
  <2>2. tabs = 1 => TotalsCall(c)'
    BY <1>1, <1>2, <2>1 DEF TotalsCall, TotalsInv
  <2> QED
    BY <1>1, <1>2, <2>2, TotalsFrame DEF TotalsInv
<1>7. CASE WriteRow(c) /\ ~Finished(c)
  <2>1. /\ call' = [call EXCEPT ![c].pc = "written", ![c].totals = KeysOf(Changed(c, rows))]
        /\ Live(c)
    BY <1>7 DEF WriteRow, Live, InCall
  <2>2. /\ call'[c].tip = call[c].tip /\ call'[c].totals = KeysOf(Changed(c, rows))
        /\ call'[c].kind = call[c].kind /\ call'[c].row = call[c].row
    BY <1>3, <2>1 DEF Inv, TypeOK, CallRow
  <2>3. Changed(c, rows)' = Changed(c, rows)
    BY <1>1, <2>2 DEF Changed
  <2>4. tabs = 1 => TotalsCall(c)'
    BY <1>1, <1>2, <2>1, <2>2, <2>3 DEF TotalsCall, TotalsInv
  <2> QED
    BY <1>1, <1>2, <2>4, TotalsFrame DEF TotalsInv
<1> QED
  BY <1>4, <1>5, <1>6, <1>7

\* A commit: the tip is not published before, and no other call is in progress.
LEMMA TotalsCommit ==
    ASSUME Inv, TotalsInv, NEW c \in Calls, Live(c),
           CommitAdd(c) \/ CommitRemove(c) \/ CommitUpdate(c) \/ CommitPublish(c)
    PROVE  TotalsInv'
<1> SUFFICES ASSUME tabs = 1 PROVE TotalsInv'
  BY DEF TotalsInv, CommitAdd, CommitRemove, CommitUpdate, CommitPublish
<1>1. /\ Finished(c) /\ run' = run /\ match' = match /\ tabs' = tabs
      /\ CommitUpdate(c) \/ CommitPublish(c) => rows' = rows
  BY DEF CommitAdd, CommitRemove, CommitUpdate, CommitPublish, game, jobs
<1>2. ~NoneLive /\ CallOK(c, call[c]) /\ InCall(call[c])
  BY DEF NoneLive, Inv, Live
<1>3. call[c].tip \in TipRow /\ ~call[c].tip.published
  BY <1>2 DEF CallOK
<1>4. \A d \in Calls : ~Live(d)'
  BY <1>1, NoCallType DEF Inv, OneTab, Finished, Live, InCall, TypeOK
<1>5. \A o \in Outcomes : run[o].pc # "idle" => ~run[o].tip.published
  BY <1>2 DEF Inv, OneTab, RunOK
<1>6. tip \in TipRow /\ ~tip.published
  BY <1>2 DEF Inv, OneTab, TypeOK, TipOK
<1>7. tip'.published \/ Open' => tip'.totals = KeysOf(rows')
  <2>1. CASE CommitAdd(c)
    <3>1. /\ call[c].totals = KeysOf(Changed(c, rows)) /\ rows' = Changed(c, rows)
          /\ tip' = [tip EXCEPT !.totals = call[c].totals]
      BY <2>1 DEF CommitAdd, TotalsInv, TotalsCall
    <3> QED
      BY <1>6, <3>1 DEF TipRow
  <2>2. CASE CommitRemove(c)
    <3>1. /\ call[c].totals = KeysOf(Changed(c, rows)) /\ rows' = Changed(c, rows)
          /\ tip' = [call[c].tip EXCEPT !.totals = call[c].totals]
      BY <2>2 DEF CommitRemove, TotalsInv, TotalsCall
    <3> QED
      BY <1>3, <3>1 DEF TipRow
  <2>3. CASE CommitUpdate(c)
    <3>1. tip' = call[c].tip /\ ~tip'.published /\ (Open' <=> Open)
      BY <1>1, <1>3, <2>3 DEF CommitUpdate, Open, Ended
    <3> QED
      BY <1>1, <2>3, <3>1 DEF TotalsInv, TotalsCall
  <2>4. CASE CommitPublish(c)
    <3>1. Open
      BY <1>2, <2>4 DEF CommitPublish, CallOK, NoneEnded, Inv, OneTab, Open
    <3>2. tip'.totals = call[c].tip.totals
      BY <1>3, <2>4 DEF CommitPublish, TipRow
    <3> QED
      BY <1>1, <2>4, <3>1, <3>2 DEF TotalsInv, TotalsCall
  <2> QED
    BY <2>1, <2>2, <2>3, <2>4
<1>8. \A d \in Calls : TotalsCall(d)'
  BY <1>4 DEF TotalsCall, Live, InCall
<1> QED
  BY <1>1, <1>5, <1>7, <1>8 DEF TotalsInv

\* A verdict changes no selection: what a call is about to commit has the same keys.
LEMMA VerdictKeeps ==
    ASSUME Inv, NEW e \in Evals, SaveVerdict(e), NEW c \in Calls, call[c].row \subseteq Row
    PROVE  KeysOf(Changed(c, rows')) = KeysOf(Changed(c, rows))
<1>1. PICK r \in eval[e] : rows' = {IF q.id = r.id THEN r ELSE q : q \in rows}
  BY DEF SaveVerdict
<1> DEFINE F(q) == IF q.id = r.id THEN r ELSE q
<1>2. ASSUME NEW q \in rows
      PROVE  /\ F(q).id = q.id /\ Key(F(q)) = Key(q) /\ F(q).match = q.match
             /\ q \in Row /\ F(q) \in Row
  BY DEF Inv, TypeOK, EvalOK, RowsOK, Key
<1>3. rows' = {F(q) : q \in rows}
  BY <1>1
<1> HIDE DEF F
<1>4. CASE call[c].kind = "insert"
  <2>1. KeysOf(rows') = KeysOf(rows)
    BY SaveVerdictKeys
  <2>2. /\ KeysOf(rows' \cup call[c].row) = KeysOf(rows') \cup KeysOf(call[c].row)
        /\ KeysOf(rows \cup call[c].row) = KeysOf(rows) \cup KeysOf(call[c].row)
    BY DEF KeysOf
  <2>3. /\ Changed(c, rows') = rows' \cup call[c].row
        /\ Changed(c, rows) = rows \cup call[c].row
    BY <1>4 DEF Changed
  <2> QED
    BY <2>1, <2>2, <2>3
<1>5. CASE call[c].kind \in {"toggle", "remove"}
  <2> DEFINE ids == IdsOf(call[c].row)
  <2>1. /\ Changed(c, rows') = {q \in rows' : q.id \notin ids}
        /\ Changed(c, rows) = {q \in rows : q.id \notin ids}
    BY <1>5 DEF Changed
  <2> HIDE DEF ids
  <2>2. {q \in rows' : q.id \notin ids} = {F(q) : q \in {x \in rows : x.id \notin ids}}
    BY <1>2, <1>3
  <2> QED
    BY <1>2, <2>1, <2>2 DEF KeysOf
<1>6. CASE call[c].kind = "replace"
  <2> DEFINE ids == IdsOf(call[c].row)
             v == (CHOOSE x \in call[c].row : TRUE).value
             G(q) == IF q.id \in ids THEN [q EXCEPT !.value = v] ELSE q
  <2>1. /\ Changed(c, rows') = {G(q) : q \in rows'}
        /\ Changed(c, rows) = {G(q) : q \in rows}
    BY <1>6 DEF Changed
  <2>2. ASSUME NEW q \in rows PROVE Key(G(F(q))) = Key(G(q))
    <3> HIDE DEF ids, v
    <3>1. F(q).id = q.id /\ F(q).match = q.match /\ Key(F(q)) = Key(q)
      BY <1>2
    <3>2. CASE q.id \in ids
      <4>1. \A x \in Row : [x EXCEPT !.value = v].match = x.match
                           /\ [x EXCEPT !.value = v].value = v
        BY DEF Row
      <4> QED
        BY <1>2, <3>1, <3>2, <4>1 DEF Key
    <3>3. CASE q.id \notin ids
      BY <3>1, <3>3
    <3> QED
      BY <3>2, <3>3
  <2> HIDE DEF G
  <2>3. KeysOf({G(q) : q \in rows'}) = {Key(G(F(q))) : q \in rows}
    BY <1>3 DEF KeysOf
  <2>4. KeysOf({G(q) : q \in rows}) = {Key(G(q)) : q \in rows}
    BY DEF KeysOf
  <2>5. {Key(G(F(q))) : q \in rows} = {Key(G(q)) : q \in rows}
    BY <2>2
  <2> QED
    BY <2>1, <2>3, <2>4, <2>5
<1>7. CASE call[c].kind \notin {"insert", "toggle", "remove", "replace"}
  BY <1>7, SaveVerdictKeys DEF Changed
<1> QED
  BY <1>4, <1>5, <1>6, <1>7

LEMMA TotalsVerdict ==
    ASSUME Inv, TotalsInv, NEW e \in Evals, SaveVerdict(e) PROVE TotalsInv'
<1> SUFFICES ASSUME tabs = 1 PROVE TotalsInv'
  BY DEF TotalsInv, SaveVerdict
<1>1. /\ tip' = tip /\ tabs' = tabs /\ run' = run /\ match' = match /\ call' = call
      /\ KeysOf(rows') = KeysOf(rows)
  BY SaveVerdictKeys DEF SaveVerdict, game
<1>2. Open' => Open
  <2>1. PICK r \in eval[e] : rows' = {IF q.id = r.id THEN r ELSE q : q \in rows}
    BY DEF SaveVerdict
  <2>2. ASSUME NEW q \in rows, q.id = r.id PROVE q.match = r.match
    BY <2>2 DEF Inv, EvalOK, RowsOK
  <2> QED
    BY <1>1, <2>1, <2>2 DEF Open, Ended
<1>3. ASSUME NEW c \in Calls PROVE TotalsCall(c)'
  <2>1. call[c].row \subseteq Row
    BY DEF Inv, TypeOK, CallRow
  <2>2. KeysOf(Changed(c, rows')) = KeysOf(Changed(c, rows))
    BY <2>1, VerdictKeeps
  <2>3. Changed(c, rows)' = Changed(c, rows')
    BY <1>1 DEF Changed
  <2> QED
    BY <1>1, <1>2, <2>2, <2>3 DEF TotalsInv, TotalsCall, Live
<1> QED
  BY <1>1, <1>2, <1>3 DEF TotalsInv

LEMMA TotalsSave ==
    ASSUME Inv, TotalsInv, NEW o \in Outcomes, SaveOutcome(o) PROVE TotalsInv'
<1> SUFFICES ASSUME tabs = 1 PROVE TotalsInv'
  BY DEF TotalsInv, SaveOutcome
<1>1. /\ rows' = rows /\ match' = match /\ tabs' = tabs /\ call' = call
      /\ \A q \in Outcomes : q # o => run'[q] = run[q]
      /\ run'[o].pc = "idle" /\ run[o].pc # "idle"
  BY DEF SaveOutcome, Inv, TypeOK, game, NoRun
<1>2. Open' <=> Open
  BY <1>1 DEF Open, Ended
<1>3. CASE ~NoRowAdded(o)
  <2>1. tip' = tip
    BY <1>3 DEF SaveOutcome
  <2> QED
    BY <1>1, <1>2, <2>1, TotalsFrame
<1>4. CASE NoRowAdded(o)
  <2>1. tip' = run[o].tip
    BY <1>4, SavedTip
  <2>2. ~Open
    BY <1>1, <1>4 DEF NoRowAdded, IdsOf, Open, Inv, RunOK, RowsOK
  <2>3. tip'.published => tip'.totals = KeysOf(rows)
    BY <1>1, <2>1 DEF TotalsInv
  <2>4. \A c \in Calls : Changed(c, rows)' = Changed(c, rows)
    BY <1>1 DEF Changed
  <2>5. \A c \in Calls : TotalsCall(c)'
    BY <1>1, <1>2, <2>4 DEF TotalsInv, TotalsCall, Live
  <2> QED
    BY <1>1, <1>2, <2>2, <2>3, <2>5 DEF TotalsInv
<1> QED
  BY <1>3, <1>4

LEMMA TotalsRun ==
    ASSUME Inv, TotalsInv, NEW o \in Outcomes,
           Determine(o) \/ ReadPurchases(o) \/ MarkPurchase(o) \/ FailOutcome(o)
    PROVE  TotalsInv'
<1>1. /\ tip' = tip /\ rows' = rows /\ match' = match /\ tabs' = tabs /\ call' = call
      /\ \A q \in Outcomes : q # o => run'[q] = run[q]
  BY DEF Determine, ReadPurchases, MarkPurchase, FailOutcome, Inv, TypeOK, game
<1>2. Open' <=> Open
  BY <1>1 DEF Open, Ended
<1>3. run[o] \in RunType
  BY DEF Inv, TypeOK, RunType
<1>4. run'[o].pc # "idle" /\ run'[o].tip.published =>
          \/ run[o].pc # "idle" /\ run'[o].tip = run[o].tip
          \/ tip.published /\ run'[o].tip.totals = tip.totals
  <2>1. CASE Determine(o)
    BY <2>1, NoTipType DEF Determine, Inv, TypeOK, TipRow
  <2>2. CASE ReadPurchases(o) \/ MarkPurchase(o)
    <3>1. CASE ReadPurchases(o)
      BY <1>3, <2>2, <3>1 DEF ReadPurchases, Inv, TypeOK, RunType
    <3>2. CASE MarkPurchase(o)
      <4>1. PICK p \in run[o].todo : run' = [run EXCEPT ![o].todo = @ \ {p}]
        BY <3>2 DEF MarkPurchase
      <4> QED
        BY <1>3, <3>2, <4>1 DEF MarkPurchase, Inv, TypeOK, RunType
    <3> QED
      BY <2>2, <3>1, <3>2
  <2>3. CASE FailOutcome(o)
    BY <2>3, NoRunType DEF FailOutcome, Inv, TypeOK
  <2> QED
    BY <2>1, <2>2, <2>3
<1> QED
  BY <1>1, <1>2, <1>4, TotalsFrame

LEMMA TotalsOthers ==
    ASSUME Inv, TotalsInv,
           \/ Create \/ Crash \/ UNCHANGED vars
           \/ \E e \in Evals : StartEval(e) \/ FailVerdict(e)
           \/ \E b \in Buyers : Buy(b) \/ Pay(b)
           \/ \E m \in Matches : PlayMatch(m) \/ EnterScore(m)
    PROVE  TotalsInv'
<1>1. CASE Create
  <2>1. /\ NoneLive /\ \A o \in Outcomes : run[o].pc = "idle"
        /\ run' = run /\ call' = call
    BY <1>1 DEF Create, Inv, TipOK, jobs
  <2>2. tip'.totals = KeysOf(rows')
    BY <1>1 DEF Create, NoTip
  <2> QED
    BY <2>1, <2>2 DEF TotalsInv, TotalsCall, NoneLive, Live, InCall
<1>2. CASE Crash
  <2>1. \A o \in Outcomes : run'[o].pc = "idle"
    BY <1>2, NoRunType DEF Crash
  <2>2. \A c \in Calls : ~Live(c)'
    BY <1>2, NoCallType DEF Crash, Live, InCall, InProgress
  <2>3. Open' <=> Open
    BY <1>2 DEF Crash, game, Open, Ended
  <2> QED
    BY <1>2, <2>1, <2>2, <2>3, TotalsFrame DEF Crash
<1>3. CASE \E m \in Matches : PlayMatch(m) \/ EnterScore(m)
  <2>1. /\ tip' = tip /\ rows' = rows /\ tabs' = tabs /\ call' = call /\ run' = run
    BY <1>3 DEF PlayMatch, EnterScore, jobs
  <2>2. \A n \in Matches : Ended(n) => Ended(n)'
    BY <1>3 DEF PlayMatch, EnterScore, Ended, Inv, TypeOK
  <2>3. \A r \in rows : r.match \in Matches
    BY DEF Inv, TypeOK, Row
  <2>4. Open' => Open
    BY <2>1, <2>2, <2>3 DEF Open
  <2> QED
    BY <2>1, <2>4, TotalsFrame
<1>4. CASE \/ UNCHANGED vars
           \/ \E e \in Evals : StartEval(e) \/ FailVerdict(e)
           \/ \E b \in Buyers : Buy(b) \/ Pay(b)
  <2>1. /\ tip' = tip /\ rows' = rows /\ tabs' = tabs /\ call' = call /\ run' = run
        /\ match' = match
    BY <1>4 DEF vars, StartEval, FailVerdict, Buy, Pay, game, jobs
  <2>2. Open' <=> Open
    BY <2>1 DEF Open, Ended
  <2> QED
    BY <2>1, <2>2, TotalsFrame
<1> QED
  BY <1>1, <1>2, <1>3, <1>4

LEMMA TotalsInit == Init => TotalsInv
<1> SUFFICES ASSUME Init PROVE TotalsInv
  OBVIOUS
<1>1. /\ \A c \in Calls : call[c].pc = "idle"
      /\ \A o \in Outcomes : run[o].pc = "idle"
  BY NoCallType, NoRunType DEF Init
<1> QED
  BY <1>1, NoTipType DEF Init, TotalsInv, TotalsCall, Live, InCall, Open

LEMMA TotalsNext == Inv /\ TotalsInv /\ [Next]_vars => TotalsInv'
<1> SUFFICES ASSUME Inv, TotalsInv, [Next]_vars PROVE TotalsInv'
  OBVIOUS
<1>1. ASSUME NEW c \in Calls, TipsterStep(c) PROVE TotalsInv'
  <2>1. CommitAdd(c) \/ CommitRemove(c) \/ CommitUpdate(c) \/ CommitPublish(c) => Live(c)
    BY DEF CommitAdd, CommitRemove, CommitUpdate, CommitPublish, Live, InCall
  <2> QED
    BY <1>1, <2>1, TotalsMove, TotalsCommit DEF TipsterStep
<1>2. ASSUME NEW o \in Outcomes, OutcomeStep(o) \/ FailOutcome(o) PROVE TotalsInv'
  BY <1>2, TotalsRun, TotalsSave DEF OutcomeStep
<1>3. ASSUME NEW e \in Evals, EvalStep(e) \/ FailVerdict(e) PROVE TotalsInv'
  BY <1>3, TotalsVerdict, TotalsOthers DEF EvalStep
<1> QED
  BY <1>1, <1>2, <1>3, TotalsOthers DEF Next, Resting

\* The odds and the date of a tip that is for sale are those of its selections, for
\* a tipster who does one thing at a time: the stale totals a deciding run can give
\* a draft are never published (tips.service.ts:1209, 1369, 1500).
THEOREM TotalsOfSale == Spec => []TotalsAgree
<1>1. TotalsInv => TotalsAgree
  BY DEF TotalsInv, TotalsAgree
<1> QED
  BY <1>1, TotalsInit, TotalsNext, Invariance, PTL DEF Spec
=============================================================================
