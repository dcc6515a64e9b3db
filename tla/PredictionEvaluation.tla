------------------------ MODULE PredictionEvaluation ------------------------
(***************************************************************************)
(* From what a tipster types to a verdict on the final score:              *)
(* TipsService.mapPredictionString turns the text into a prediction type   *)
(* and value, PredictionEvaluationService judges it.                       *)
(*                                                                         *)
(* A text is a record: what it says, and the number in it or given as      *)
(* betLine, in quarter goals ("2.5" is 10).  Synonyms ("home", "home_win") *)
(* say the same.  The texts "over_text", "btts_text", "double_text" and    *)
(* "score" stand for those that only the last tests of the mapping accept: *)
(* "over_many", "btts maybe", "home_draw_or_so", "2-1".                    *)
(***************************************************************************)
EXTENDS Integers

NoLine == -1000

Says(word) == [says |-> word, line |-> NoLine]
SaysLine(word, quarters) == [says |-> word, line |-> quarters]

Value(type, value, line) == [type |-> type, value |-> value, line |-> line]

\* A fault for TLC to find: X2 is stored as home or draw.
MapX2AsHomeDraw(text) ==
    CASE text.says \in {"home", "away", "draw"} -> Value("MATCH_RESULT", text.says, NoLine)
      [] text.says \in {"over", "under"} -> Value("OVER_UNDER", text.says, text.line)
      [] text.says \in {"btts_yes", "btts_no"} -> Value("BOTH_TEAMS_TO_SCORE", text.says, NoLine)
      [] OTHER -> Value("DOUBLE_CHANCE", "home_draw", NoLine)

\* A text nobody recognises is stored as a match result, word for word.
mapPredictionString(text) ==
    CASE text.says \in {"home", "away", "draw"} ->
             Value("MATCH_RESULT", text.says, NoLine)
      [] text.says \in {"over", "under", "over_text"} ->
             Value("OVER_UNDER", text.says, text.line)
      [] text.says \in {"btts_yes", "btts_no", "btts_text"} ->
             Value("BOTH_TEAMS_TO_SCORE", text.says, NoLine)
      [] text.says = "1x" -> Value("DOUBLE_CHANCE", "home_draw", NoLine)
      [] text.says = "12" -> Value("DOUBLE_CHANCE", "home_away", NoLine)
      [] text.says = "x2" -> Value("DOUBLE_CHANCE", "away_draw", NoLine)
      [] text.says = "double_text" -> Value("DOUBLE_CHANCE", "double_text", NoLine)
      [] text.says = "handicap" -> Value("HANDICAP", "handicap", text.line)
      [] OTHER -> Value("MATCH_RESULT", text.says, NoLine)

-----------------------------------------------------------------------------
(* evaluateSelection, for a finished match with scores.  A score is          *)
(* [home |-> h, away |-> a].                                                 *)

Judge(correct) == IF correct THEN "correct" ELSE "incorrect"

actualResult(score) ==
    IF score.home > score.away THEN "home"
    ELSE IF score.away > score.home THEN "away" ELSE "draw"

evaluateMatchResult(v, score) == Judge(v.value = actualResult(score))

\* Both comparisons are strict.
evaluateOverUnder(v, score) ==
    LET quarters == 4 * (score.home + score.away)
    IN  IF v.line = NoLine THEN "void"
        ELSE Judge(IF v.value = "over" THEN quarters > v.line
                                       ELSE quarters < v.line)

\* Whatever is not "yes" counts as "no".
evaluateBothTeamsToScore(v, score) ==
    Judge((score.home > 0 /\ score.away > 0) = (v.value = "btts_yes"))

Covers ==
    [home_draw |-> {"home", "draw"}, home_away |-> {"home", "away"},
     away_draw |-> {"away", "draw"}, double_text |-> {}]

evaluateDoubleChance(v, score) == Judge(actualResult(score) \in Covers[v.value])

\* Only "handicap_<number>" is understood; the number is added to the goals of
\* the home team.
evaluateHandicap(v, score) ==
    IF v.value # "handicap" \/ v.line = NoLine THEN "void"
    ELSE Judge(4 * score.home + v.line > 4 * score.away)

\* The value is the predicted score; without two numbers in it the line is NoLine.
evaluateCorrectScore(v, score) ==
    IF v.line = NoLine THEN "void" ELSE Judge(v.value = score)

\* FIRST_GOAL_SCORER, ANY_OTHER and unknown types are void.
evaluateSelection(v, score) ==
    CASE v.type = "MATCH_RESULT"        -> evaluateMatchResult(v, score)
      [] v.type = "OVER_UNDER"          -> evaluateOverUnder(v, score)
      [] v.type = "BOTH_TEAMS_TO_SCORE" -> evaluateBothTeamsToScore(v, score)
      [] v.type = "DOUBLE_CHANCE"       -> evaluateDoubleChance(v, score)
      [] v.type = "HANDICAP"            -> evaluateHandicap(v, score)
      [] v.type = "CORRECT_SCORE"       -> evaluateCorrectScore(v, score)
      [] OTHER                          -> "void"

-----------------------------------------------------------------------------
(* What a tipster means *)

Score == [home : 0..4, away : 0..4]

\* Sets of texts of which, by the meaning of the words, exactly one comes true
\* on any score.
Books ==
    {{Says("home"), Says("draw"), Says("away")},
     {Says("1x"), Says("away")}, {Says("12"), Says("draw")},
     {Says("x2"), Says("home")}, {Says("btts_yes"), Says("btts_no")}}
    \cup {{SaysLine("over", q), SaysLine("under", q)} : q \in {2, 6, 10, 14}}

\* "1x" is right whenever "home" is, over 1.5 whenever over 2.5, and so on.
Implications ==
    {<<Says("home"), Says("1x")>>, <<Says("draw"), Says("1x")>>,
     <<Says("draw"), Says("x2")>>, <<Says("away"), Says("x2")>>,
     <<Says("home"), Says("12")>>, <<Says("away"), Says("12")>>,
     <<Says("btts_yes"), SaysLine("over", 6)>>,
     <<SaysLine("over", 10), SaysLine("over", 6)>>,
     <<SaysLine("handicap", -6), Says("home")>>,
     <<Says("1x"), SaysLine("handicap", 2)>>,
     <<SaysLine("handicap", 2), Says("1x")>>}

Wins(text, score) == evaluateSelection(mapPredictionString(text), score) = "correct"

\* Mapping and judging together keep the arithmetic of betting: of complementary
\* predictions exactly one wins, and a prediction that follows from another wins
\* with it.
PredictionsCohere ==
    \A score \in Score :
        /\ \A book \in Books :
             \E text \in book :
                 /\ Wins(text, score)
                 /\ \A other \in book \ {text} : ~Wins(other, score)
        /\ \A i \in Implications : Wins(i[1], score) => Wins(i[2], score)

=============================================================================
