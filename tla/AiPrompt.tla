------------------------------ MODULE AiPrompt ------------------------------
(***************************************************************************)
(* What the language model is told: the context of each match              *)
(* (ContextOptimizerService), their combination (AiTipGenerationService)   *)
(* and the prompts (PromptTemplateService).                                *)
(*                                                                         *)
(* The data of a match is a record: its maturity score from 0 to 100, the  *)
(* sections there is data for, and the size in tokens of the whole.  Texts *)
(* and numbers inside a section are not modelled.                          *)
(***************************************************************************)
EXTENDS Integers, FiniteSets, FiniteSetsExt

Levels   == {"low", "medium", "high"}
Sections == {"odds", "stats", "headToHead", "form", "importance", "factors"}

MatchInfo == [maturity : 0..100, has : SUBSET Sections, tokens : Nat]

determineDataQuality(score) ==
    IF score < 30 THEN "low" ELSE IF score < 70 THEN "medium" ELSE "high"

\* 2000, less the share of the system prompt and of the instructions.
availableTokens == 2000 - 300 - 200

\* Between the budget and a tenth more nothing is left out; statistics are only
\* shortened.
optimizeForTokenBudget(shown, tokens) ==
    IF 10 * tokens > 12 * availableTokens THEN shown \ {"headToHead", "factors"} ELSE shown

\* The sections of one match.  Statistics need a score of 30, the head-to-head
\* record one of 50.
buildOptimizedContext(d) ==
    LET mature == {s \in d.has : /\ s = "stats" => d.maturity >= 30
                                 /\ s = "headToHead" => d.maturity >= 50}
    IN  [sections |-> optimizeForTokenBudget(mature, d.tokens),
         maturity |-> d.maturity,
         quality  |-> determineDataQuality(d.maturity)]

\* Math.round of the mean.
calculateAverageMaturity(data, S) ==
    LET sum == MapThenSumSet(LAMBDA m : data[m].maturity, S)
        n   == Cardinality(S)
    IN  (2 * sum + n) \div (2 * n)

\* A fault for TLC to find: the mean is cut off, not rounded.
ConfidenceOfFloor(data, S) ==
    determineDataQuality(MapThenSumSet(LAMBDA m : data[m].maturity, S) \div Cardinality(S))

determineMaturityConfidence(data, S) ==
    LET score == calculateAverageMaturity(data, S)
    IN  IF score < 30 THEN "low" ELSE IF score < 70 THEN "medium" ELSE "high"

\* The level most matches have, or have at least.
determineOverallDataQuality(data, S) ==
    LET Of(q) == Cardinality({m \in S : buildOptimizedContext(data[m]).quality = q})
    IN  IF 2 * Of("high") > Cardinality(S) THEN "high"
        ELSE IF 2 * (Of("high") + Of("medium")) > Cardinality(S) THEN "medium" ELSE "low"

\* One context for all the matches, also if there is one only.  It has no odds, no
\* team and no id of any of them.
combineContexts(data, S) ==
    [ids        |-> {},
     sections   |-> {},
     maturity   |-> calculateAverageMaturity(data, S),
     confidence |-> determineMaturityConfidence(data, S),
     quality    |-> determineOverallDataQuality(data, S)]

\* The system prompt that is chosen.
generateSystemPrompt(score) ==
    IF score < 30 THEN "low" ELSE IF score < 70 THEN "medium" ELSE "high"

\* The note on data quality in the user prompt.
getMaturityNote(score) ==
    IF score < 30 THEN "low" ELSE IF score < 70 THEN "medium" ELSE "high"

\* Both prompts together.
Prompt(data, S) ==
    LET context == combineContexts(data, S)
    IN  [system   |-> generateSystemPrompt(calculateAverageMaturity(data, S)),
         note     |-> getMaturityNote(context.maturity),
         ids      |-> context.ids,
         sections |-> context.sections]

-----------------------------------------------------------------------------
\* The system prompt, the note in the user prompt and the confidence stored with
\* the context speak of the same level of data, and that level is between those
\* of the matches (three thresholds, two averages and one rounding).
LevelsAgree(data, S) ==
    LET Rank  == [l \in Levels |-> IF l = "low" THEN 1 ELSE IF l = "medium" THEN 2 ELSE 3]
        ranks == {Rank[buildOptimizedContext(data[m]).quality] : m \in S}
        level == Prompt(data, S).system
    IN  /\ Prompt(data, S).note = level
        /\ combineContexts(data, S).confidence = level
        /\ Rank[level] \in Min(ranks)..Max(ranks)

\* What the prompt says can be known, and false: whatever data there is on the
\* matches, none of it is in the prompt, nor is the id a selection must name.
MatchesShown(data, S) ==
    /\ Prompt(data, S).ids = S
    /\ \A m \in S : buildOptimizedContext(data[m]).sections \subseteq Prompt(data, S).sections
=============================================================================
