--------------------------- MODULE TipViewsProofs ---------------------------
(***************************************************************************)
(* TipViews for all matches, predictions, buyers, prices, runs of the      *)
(* crons and faults: the pages agree with each other and with the life of  *)
(* the tip as long as the tipster does one thing at a time, and what is    *)
(* stored for a prediction is judged as it was meant.                      *)
(*                                                                         *)
(* To the invariant of TipLifecycleProofs only this is added: what has     *)
(* been bought, and what a deciding run has read of purchases, is of a     *)
(* published tip.                                                          *)
(***************************************************************************)
EXTENDS TipViews, TipLifecycleProofs, SequenceTheorems

SoldInv ==
    tabs = 1 =>
        /\ \A b \in Buyers : purchase[b].status # "none" => tip.published
        /\ \A o \in Outcomes : run[o].todo # {} => tip.published

LEMMA SoldInit == Init => SoldInv
BY DEF Init, SoldInv, NoRun

\* Before the tip is published there is nothing to mark, and nobody can buy.
LEMMA SoldNext == Inv /\ SoldInv /\ [Next]_vars => SoldInv'
<1> SUFFICES ASSUME Inv, SoldInv, [Next]_vars, tabs' = 1 PROVE SoldInv'
  BY DEF SoldInv
<1>1. tabs = 1
  BY DEF Next, vars, Create, TipsterStep, BeginAdd, BeginRemove, BeginUpdate, BeginPublish,
         Begin, ChooseChange, WriteRow, CommitAdd, CommitRemove, CommitUpdate, CheckPublish,
         CommitPublish, EvalStep, StartEval, SaveVerdict, FailVerdict, OutcomeStep, Determine,
         ReadPurchases, MarkPurchase, SaveOutcome, FailOutcome, Buy, Pay, PlayMatch, EnterScore,
         Crash, Resting
<1>2. CASE tip.published
  BY <1>1, <1>2, StaysByInv DEF SoldInv
<1>3. CASE ~tip.published
  <2>1. /\ \A b \in Buyers : purchase[b].status = "none"
        /\ \A o \in Outcomes : run[o].todo = {}
    BY <1>1, <1>3 DEF SoldInv
  <2>2. Purchases = {}
    BY <2>1 DEF Purchases
  <2>3. SUFFICES /\ \A b \in Buyers : purchase'[b].status = "none"
                 /\ \A o \in Outcomes : run'[o].todo = {}
    BY DEF SoldInv
  <2>4. CASE UNCHANGED <<purchase, run>>
    BY <2>1, <2>4
  <2>5. ASSUME NEW o \in Outcomes, OutcomeStep(o) \/ FailOutcome(o) PROVE
              /\ UNCHANGED purchase
              /\ \A q \in Outcomes : run'[q].todo = {}
    <3>1. run \in [Outcomes -> [pc : {"idle", "read", "mark"}, tip : TipRow \cup {NoTip},
                             ids : SUBSET Ids, todo : SUBSET (Buyers \X PurchaseStatus)]]
      BY DEF Inv, TypeOK
    <3>2. ~MarkPurchase(o)
      BY <2>1 DEF MarkPurchase
    <3>3. CASE Determine(o)
      BY <2>1, <3>1, <3>3 DEF Determine
    <3>4. CASE ReadPurchases(o)
      <4>1. /\ UNCHANGED purchase
            /\ run' = [run EXCEPT ![o].pc = "mark", ![o].todo = {}]
        BY <2>2, <3>4 DEF ReadPurchases
      <4> QED
        BY <2>1, <3>1, <4>1
    <3>5. CASE SaveOutcome(o) \/ FailOutcome(o)
      BY <2>1, <3>1, <3>5 DEF SaveOutcome, FailOutcome, NoRun
    <3> QED
      BY <2>5, <3>2, <3>3, <3>4, <3>5 DEF OutcomeStep
  <2>6. CASE Crash
    BY <2>1, <2>6 DEF Crash, NoRun
  <2>7. ASSUME NEW b \in Buyers, Buy(b) \/ Pay(b) PROVE FALSE
    BY <1>3, <2>1, <2>7 DEF Buy, Pay
  <2>8. Create \/ (\E c \in Calls : TipsterStep(c))
          \/ (\E e \in Evals : EvalStep(e) \/ FailVerdict(e))
          \/ (\E m \in Matches : PlayMatch(m) \/ EnterScore(m)) \/ Resting \/ UNCHANGED vars
        => UNCHANGED <<purchase, run>>
    BY DEF vars, Create, TipsterStep, BeginAdd, BeginRemove, BeginUpdate, BeginPublish,
         Begin, ChooseChange, WriteRow, CommitAdd, CommitRemove, CommitUpdate, CheckPublish,
         CommitPublish, EvalStep, StartEval, SaveVerdict, FailVerdict, PlayMatch, EnterScore,
         Resting, jobs
  <2> QED
    BY <2>1, <2>4, <2>5, <2>6, <2>7, <2>8 DEF Next
<1> QED
  BY <1>2, <1>3

LEMMA AlwaysSold == Spec => []SoldInv
BY SoldInit, SoldNext, Invariance, PTL DEF Spec

-----------------------------------------------------------------------------
(* The pages *)

\* A decided tip has a match that is over.
LEMMA OpenIsAvailable == ASSUME Inv, tabs = 1 PROVE AvailableIsOpen
<1> SUFFICES ASSUME tip.published, \A r \in rows : match[r.match] \in Scheduled
             PROVE  tip.status = "pending" /\ \A r \in rows : r.verdict = "none"
  BY DEF AvailableIsOpen, countAvailableTips
<1>1. \A r \in rows : ~Ended(r.match)
  BY DEF Scheduled, Ended
<1>2. \A r \in rows : r.verdict = "none"
  BY <1>1 DEF Inv, RowsOK, Judgement
<1>3. ~Settled
  BY <1>1 DEF Settled
<1>4. tip \in TipRow
  BY NoTipType DEF Inv, TypeOK
<1>5. tip.status \notin {"won", "void", "lost"}
  BY <1>3 DEF Inv, TipOK, OneTab
<1> QED
  BY <1>2, <1>4, <1>5 DEF TipRow, Decided

\* What the buyers see of the tip.
LEMMA BuyersSee == ASSUME Inv, TotalsAgree, SoldInv, tabs = 1 PROVE BuyersGetTheListed
<1> SUFFICES ASSUME NEW u \in Users, NEW p \in Prices, HasPurchased(u)
             PROVE  /\ getTipDetails(u, p) # {}
                    /\ \E shown \in getTips(u) :
                         shown.hasPurchased /\ shown.totals = KeysOf(getTipDetails(u, p))
  BY DEF BuyersGetTheListed
<1>1. u \in Buyers /\ u # Tipster /\ purchase[u].status = "COMPLETED"
  BY TipsterAssumption DEF HasPurchased
<1>2. tip.published
  BY <1>1 DEF SoldInv
<1>3. tip # NoTip /\ rows # {} /\ tip.totals = KeysOf(rows)
  BY <1>2, NoTipType DEF Inv, OneTab, TotalsAgree
<1>4. getTipDetails(u, p) = rows
  BY <1>3 DEF getTipDetails
<1>5. getTips(u) = {mapToResponse(u)}
  BY <1>2 DEF getTips
<1>6. mapToResponse(u).hasPurchased /\ mapToResponse(u).totals = tip.totals
  BY <1>1 DEF mapToResponse
<1> QED
  BY <1>3, <1>4, <1>5, <1>6

\* Nobody has bought a draft.
LEMMA DraftsHidden == ASSUME SoldInv, tabs = 1 PROVE DraftsAreHidden
<1> SUFFICES ASSUME ~tip.published, NEW u \in Users \ {Tipster}, NEW p \in Prices
             PROVE  getTipDetails(u, p) = {} /\ getTips(u) = {}
  BY DEF DraftsAreHidden
<1>1. ~HasPurchased(u)
  BY DEF HasPurchased, SoldInv
<1> QED
  BY <1>1 DEF getTipDetails, getTips

-----------------------------------------------------------------------------
(* The streak *)

\* The tips that count: won, and no lost or open one before them.
Streak(s) ==
    {i \in DOMAIN s : /\ s[i] = "won"
                      /\ \A e \in {k \in DOMAIN s : s[k] \in {"lost", "pending"}} : i < e}

Shown == Decided \cup {"pending"}

\* A tip that is won or void and comes first leaves every later one where it was.
LEMMA StreakGrows ==
    ASSUME NEW s \in Seq(Shown), NEW x \in {"won", "void"}
    PROVE  Cardinality(Streak(<<x>> \o s)) >= Cardinality(Streak(s))
<1> DEFINE all == <<x>> \o s
           shift == [i \in Streak(s) |-> i + 1]
<1>1. <<x>> \in Seq(Shown) /\ Len(<<x>>) = 1 /\ <<x>>[1] = x
  BY DEF Shown, Decided
<1>2. /\ all \in Seq(Shown) /\ Len(all) = Len(s) + 1
      /\ \A i \in 1..Len(s) + 1 : all[i] = IF i <= 1 THEN x ELSE s[i - 1]
  BY <1>1, ConcatProperties
<1>3. DOMAIN s = 1..Len(s) /\ DOMAIN all = 1..Len(s) + 1 /\ Len(s) \in Nat
  BY <1>2, LenProperties
<1> HIDE DEF all
<1>4. ASSUME NEW i \in Streak(s) PROVE i + 1 \in Streak(all)
  <2>1. i \in 1..Len(s) /\ s[i] = "won"
    BY <1>3 DEF Streak
  <2>2. i + 1 \in DOMAIN all /\ all[i + 1] = "won"
    BY <1>2, <1>3, <2>1
  <2>3. ASSUME NEW e \in DOMAIN all, all[e] \in {"lost", "pending"} PROVE i + 1 < e
    <3>1. e \in 1..Len(s) + 1 /\ e # 1
      BY <1>2, <1>3, <2>3
    <3>2. e - 1 \in DOMAIN s /\ s[e - 1] \in {"lost", "pending"}
      BY <1>2, <1>3, <2>3, <3>1
    <3>3. i < e - 1
      BY <3>2 DEF Streak
    <3> QED
      BY <2>1, <3>1, <3>3, <1>3
  <2> QED
    BY <2>2, <2>3 DEF Streak
<1>5. Streak(s) \subseteq Nat
  BY <1>3 DEF Streak
<1>6. shift \in Injection(Streak(s), Streak(all))
  BY <1>4, <1>5 DEF Injection, IsInjective
<1>7. IsFiniteSet(Streak(all))
  <2>1. Streak(all) \subseteq 1..Len(s) + 1 /\ 1 \in Int /\ Len(s) + 1 \in Int
    BY <1>3 DEF Streak
  <2>2. IsFiniteSet(1..Len(s) + 1)
    BY <2>1, FS_Interval
  <2> QED
    BY <2>1, <2>2, FS_Subset
<1>8. Cardinality(Streak(s)) <= Cardinality(Streak(all))
  BY <1>6, <1>7, FS_Injection
<1>9. Cardinality(Streak(s)) \in Nat /\ Cardinality(Streak(all)) \in Nat
  BY <1>6, <1>7, FS_Injection, FS_CardinalityType
<1> QED
  BY <1>8, <1>9 DEF all

LEMMA StreakIsKept == StreakKept
<1> SUFFICES ASSUME tip.published, tip.status \in Decided \ {"lost"}, NEW earlier \in Histories
             PROVE  calculateStreak(getTipsterTips(earlier)) >= calculateStreak(earlier)
  BY DEF StreakKept
<1>1. tip.status \in {"won", "void"}
  BY DEF Decided
<1>2. earlier \in Seq(Shown)
  <2>1. 0..2 \subseteq Nat
    OBVIOUS
  <2> QED
    BY <2>1, SeqDef DEF Histories, Shown
<1>3. getTipsterTips(earlier) = <<tip.status>> \o earlier
  BY DEF getTipsterTips
<1>4. \A s : calculateStreak(s) = Cardinality(Streak(s))
  BY DEF calculateStreak, Streak
<1> QED
  BY <1>1, <1>2, <1>3, <1>4, StreakGrows

\* The list, the counters, the page of the tip and the streak agree with each other
\* and with the life of the tip, for a tipster who does one thing at a time: what is
\* counted as available is open, who has paid gets the selections the list speaks
\* of, drafts stay hidden and only a lost tip costs the streak
\* (tips.service.ts:192-218, 347-370, 1805-1821, 2925-2950).
THEOREM PagesAlwaysAgree == Spec => []PagesAgree
<1>1. Inv /\ SoldInv /\ TotalsAgree => PagesAgree
  BY OpenIsAvailable, BuyersSee, DraftsHidden, StreakIsKept DEF PagesAgree
<1> QED
  BY <1>1, Invariance, AlwaysSold, TotalsOfSale, PTL

-----------------------------------------------------------------------------
(* Mapping and judging, for any number of goals *)

AnyScore == [home : Nat, away : Nat]

\* What each text is worth.
LEMMA ResultTexts ==
    ASSUME NEW w \in {"home", "away", "draw"}, NEW final \in AnyScore
    PROVE  Wins(Says(w), final) <=> actualResult(final) = w
BY DEF Wins, Says, Value, mapPredictionString, evaluateSelection, evaluateMatchResult, Judge

LEMMA DoubleTexts ==
    ASSUME NEW final \in AnyScore
    PROVE  /\ Wins(Says("1x"), final) <=> actualResult(final) \in {"home", "draw"}
           /\ Wins(Says("12"), final) <=> actualResult(final) \in {"home", "away"}
           /\ Wins(Says("x2"), final) <=> actualResult(final) \in {"away", "draw"}
<1>1. /\ Covers["home_draw"] = {"home", "draw"}
      /\ Covers["home_away"] = {"home", "away"}
      /\ Covers["away_draw"] = {"away", "draw"}
  BY DEF Covers
<1>2. /\ mapPredictionString(Says("1x")) = Value("DOUBLE_CHANCE", "home_draw", NoLine)
      /\ mapPredictionString(Says("12")) = Value("DOUBLE_CHANCE", "home_away", NoLine)
      /\ mapPredictionString(Says("x2")) = Value("DOUBLE_CHANCE", "away_draw", NoLine)
  BY DEF mapPredictionString, Says
<1>3. ASSUME NEW v
      PROVE  evaluateSelection(Value("DOUBLE_CHANCE", v, NoLine), final) = "correct"
                 <=> actualResult(final) \in Covers[v]
  BY DEF evaluateSelection, evaluateDoubleChance, Judge, Value
<1> QED
  BY <1>1, <1>2, <1>3 DEF Wins

LEMMA GoalTexts ==
    ASSUME NEW final \in AnyScore, NEW q \in {2, 6, 10, 14}
    PROVE  /\ Wins(SaysLine("over", q), final) <=> 4 * (final.home + final.away) > q
           /\ Wins(SaysLine("under", q), final) <=> 4 * (final.home + final.away) < q
           /\ Wins(Says("btts_yes"), final) <=> final.home > 0 /\ final.away > 0
           /\ Wins(Says("btts_no"), final) <=> ~(final.home > 0 /\ final.away > 0)
<1>1. q # NoLine
  BY DEF NoLine
<1>2. /\ mapPredictionString(SaysLine("over", q)) = Value("OVER_UNDER", "over", q)
      /\ mapPredictionString(SaysLine("under", q)) = Value("OVER_UNDER", "under", q)
      /\ mapPredictionString(Says("btts_yes")) = Value("BOTH_TEAMS_TO_SCORE", "btts_yes", NoLine)
      /\ mapPredictionString(Says("btts_no")) = Value("BOTH_TEAMS_TO_SCORE", "btts_no", NoLine)
  BY DEF mapPredictionString, Says, SaysLine
<1>3. /\ evaluateSelection(Value("OVER_UNDER", "over", q), final) = "correct"
             <=> 4 * (final.home + final.away) > q
      /\ evaluateSelection(Value("OVER_UNDER", "under", q), final) = "correct"
             <=> 4 * (final.home + final.away) < q
  BY <1>1 DEF evaluateSelection, evaluateOverUnder, Judge, Value
<1>4. /\ evaluateSelection(Value("BOTH_TEAMS_TO_SCORE", "btts_yes", NoLine), final) = "correct"
             <=> final.home > 0 /\ final.away > 0
      /\ evaluateSelection(Value("BOTH_TEAMS_TO_SCORE", "btts_no", NoLine), final) = "correct"
             <=> ~(final.home > 0 /\ final.away > 0)
  BY DEF evaluateSelection, evaluateBothTeamsToScore, Judge, Value
<1> QED
  BY <1>2, <1>3, <1>4 DEF Wins

\* Only "handicap_" and a number is understood; the texts "handicap" of the model have
\* the number.
LEMMA HandicapTexts ==
    ASSUME NEW final \in AnyScore, NEW q \in {-6, 2}
    PROVE  Wins(SaysLine("handicap", q), final) <=> 4 * final.home + q > 4 * final.away
<1>1. q # NoLine
  BY DEF NoLine
<1> QED
  BY <1>1 DEF Wins, SaysLine, Value, mapPredictionString, evaluateSelection, evaluateHandicap,
              Judge

\* The home team wins, the away team wins, or neither.
LEMMA Results3 ==
    ASSUME NEW final \in AnyScore
    PROVE  /\ actualResult(final) \in {"home", "away", "draw"}
           /\ actualResult(final) = "home" <=> final.home > final.away
           /\ actualResult(final) = "away" <=> final.away > final.home
           /\ final.home \in Nat /\ final.away \in Nat
BY DEF actualResult, AnyScore

\* One text of the book wins and no other.
OneWins(book, final) ==
    \E text \in book : /\ Wins(text, final)
                       /\ \A other \in book \ {text} : ~Wins(other, final)

LEMMA TwoTexts ==
    ASSUME NEW s, NEW t, NEW final, Wins(s, final) <=> ~Wins(t, final)
    PROVE  OneWins({s, t}, final)
BY DEF OneWins

\* Of complementary predictions exactly one wins.
LEMMA BooksBalance ==
    ASSUME NEW final \in AnyScore, NEW book \in Books
    PROVE  OneWins(book, final)
<1> DEFINE result == actualResult(final)
<1>1. result \in {"home", "away", "draw"}
  BY Results3
<1>2. CASE book = {Says("home"), Says("draw"), Says("away")}
  <2>1. /\ Wins(Says("home"), final) <=> result = "home"
        /\ Wins(Says("draw"), final) <=> result = "draw"
        /\ Wins(Says("away"), final) <=> result = "away"
    BY ResultTexts
  <2> HIDE DEF result
  <2> QED
    BY <1>1, <1>2, <2>1 DEF OneWins
<1>3. CASE book \in {{Says("1x"), Says("away")}, {Says("12"), Says("draw")},
                     {Says("x2"), Says("home")}}
  <2>1. /\ Wins(Says("1x"), final) <=> ~Wins(Says("away"), final)
        /\ Wins(Says("12"), final) <=> ~Wins(Says("draw"), final)
        /\ Wins(Says("x2"), final) <=> ~Wins(Says("home"), final)
    BY <1>1, ResultTexts, DoubleTexts
  <2> QED
    BY <1>3, <2>1, TwoTexts
<1>4. CASE book = {Says("btts_yes"), Says("btts_no")}
  <2>1. Wins(Says("btts_yes"), final) <=> ~Wins(Says("btts_no"), final)
    BY GoalTexts
  <2> QED
    BY <1>4, <2>1, TwoTexts
<1>5. ASSUME NEW q \in {2, 6, 10, 14}, book = {SaysLine("over", q), SaysLine("under", q)}
      PROVE  OneWins(book, final)
  <2>1. 4 * (final.home + final.away) > q <=> ~(4 * (final.home + final.away) < q)
    BY Results3
  <2>2. Wins(SaysLine("over", q), final) <=> ~Wins(SaysLine("under", q), final)
    BY <2>1, GoalTexts
  <2> QED
    BY <1>5, <2>2, TwoTexts
<1> QED
  BY <1>2, <1>3, <1>4, <1>5 DEF Books

\* A prediction that follows from another wins with it.
LEMMA ImplicationsHold ==
    ASSUME NEW final \in AnyScore, NEW i \in Implications, Wins(i[1], final)
    PROVE  Wins(i[2], final)
<1>1. CASE i \in {<<Says("home"), Says("1x")>>, <<Says("draw"), Says("1x")>>,
                  <<Says("draw"), Says("x2")>>, <<Says("away"), Says("x2")>>,
                  <<Says("home"), Says("12")>>, <<Says("away"), Says("12")>>}
  BY <1>1, ResultTexts, DoubleTexts
<1>2. CASE i \in {<<Says("btts_yes"), SaysLine("over", 6)>>,
                  <<SaysLine("over", 10), SaysLine("over", 6)>>}
  <2>1. final.home > 0 /\ final.away > 0 => 4 * (final.home + final.away) > 6
    BY Results3
  <2>2. 4 * (final.home + final.away) > 10 => 4 * (final.home + final.away) > 6
    BY Results3
  <2> QED
    BY <1>2, <2>1, <2>2, GoalTexts
<1>3. CASE i \in {<<SaysLine("handicap", -6), Says("home")>>,
                  <<Says("1x"), SaysLine("handicap", 2)>>,
                  <<SaysLine("handicap", 2), Says("1x")>>}
  <2>1. 4 * final.home + (-6) > 4 * final.away => final.home > final.away
    BY Results3
  <2>2. 4 * final.home + 2 > 4 * final.away <=> ~(final.away > final.home)
    BY Results3
  <2>3. actualResult(final) \in {"home", "draw"} <=> ~(final.away > final.home)
    BY Results3
  <2> QED
    BY <1>3, <2>1, <2>2, <2>3, ResultTexts, DoubleTexts, HandicapTexts, Results3
<1> QED
  BY <1>1, <1>2, <1>3 DEF Implications

\* Whatever the teams score, also more goals than TLC looks at, the texts of the
\* platform keep the arithmetic of betting: of complementary predictions exactly one
\* wins, and a prediction that follows from another wins with it (tips.service.ts:680-826,
\* prediction-evaluation.service.ts:112-325).
THEOREM AnyScoreIsJudged ==
    \A final \in AnyScore :
        /\ \A book \in Books : OneWins(book, final)
        /\ \A i \in Implications : Wins(i[1], final) => Wins(i[2], final)
BY BooksBalance, ImplicationsHold

\* Every state of a tip is one in which predictions are judged as they were meant.
THEOREM PredictionsAlwaysJudged == Spec => []PredictionsJudged
<1>1. Score \subseteq AnyScore
  BY DEF Score, AnyScore
<1>2. PredictionsCohere
  BY <1>1, AnyScoreIsJudged DEF PredictionsCohere, OneWins
<1>3. PredictionsJudged
  BY <1>2 DEF PredictionsJudged
<1> QED
  BY <1>3, PTL
=============================================================================
