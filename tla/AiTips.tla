------------------------------- MODULE AiTips -------------------------------
(***************************************************************************)
(* The tips the platform writes itself: four cron jobs pick matches, ask a *)
(* language model for predictions (OllamaClientService), check its answer  *)
(* (TipValidationService) and store a published tip in one transaction     *)
(* (AiTipGenerationService).                                               *)
(*                                                                         *)
(* An answer of the language model is the sequence of its selections;      *)
(* Malformed stands for every answer without a title, selections, odds or  *)
(* confidence in range.  A selection names a match (Elsewhere: one it was  *)
(* not asked about) and a prediction: a text, stored as it is written,     *)
(* which may have blanks around it.                                        *)
(***************************************************************************)
EXTENDS PredictionEvaluation, AiPrompt, Sequences

CONSTANTS
    Jobs,          \* the cron jobs, and the run of the weekend job at start-up
    Startup,       \* the start-up run among them
    Plan,          \* the competitions of each job, in its order
    Matches,
    Competition,   \* the competition of each match
    TopLeagues,    \* the five leagues taken whole at the weekend
    Others,        \* how many matches of other leagues join them (5)
    Before,        \* the matches that are played earlier
    Data,          \* what is known of each match
    Elsewhere,
    Predictions,   \* what the language model may predict of each match
    MaxSelections, \* bound on the selections of an answer
    MaxTips,       \* no job starts once there are so many tips and runs
    MaxBegun,      \* bound on the matches that begin
    MaxFaults      \* bound on crashes and refused queries

ASSUME BoundsAssumption ==
    {Others, MaxSelections, MaxTips, MaxBegun, MaxFaults} \subseteq Nat
ASSUME DataAssumption == IsFiniteSet(Matches) /\ Data \in [Matches -> MatchInfo]

\* Each job has a list of competitions, written in the code and not empty.
ASSUME JobsAssumption ==
    /\ IsFiniteSet(Jobs)
    /\ Plan \in [Jobs -> Seq(STRING)]
    /\ \A j \in Jobs : Plan[j] # <<>>

\* Matches have dates: of some matches one is the first, or several are.
ASSUME DatesAssumption ==
    /\ Elsewhere \notin Matches
    /\ Before \in [Matches -> SUBSET Matches]
    /\ \A S \in SUBSET Matches : S # {} => \E m \in S : Before[m] \cap S = {}

VARIABLES
    status,   \* of each match: "late" is one that has begun and is still stored as
              \* scheduled
    enabled,  \* aiTipGenerationEnabled of the app settings
    tipsters, \* number of tipsters marked isAi
    tips,     \* AI tips in the database, in the order of their commits
    run,      \* the run of each job
    faults

vars == <<status, enabled, tipsters, tips, run, faults>>

maxRetries == 3
Weekend    == "weekend"
Malformed  == <<>>

Selection == UNION {[match : {m}, value : Predictions[m]] : m \in Matches \cup {Elsewhere}}
Answers   == {Malformed} \cup UNION {[1..n -> Selection] : n \in 1..MaxSelections}

\* given: the matches it asks about; attempt: calls of the language model;
\* tipster: the row found, 0 if none; saved: rows written and not committed, the
\* tip and then its selections.
Fresh(place, plan) ==
    [pc |-> place, rest |-> plan, given |-> {}, attempt |-> 0, answer |-> Malformed,
     tipster |-> 0, saved |-> 0]

Idle == Fresh("idle", <<>>)

Active == {j \in Jobs : run[j].pc \notin {"idle", "ended", "crashed"}}

Put(j, r) == run' = [run EXCEPT ![j] = r]

-----------------------------------------------------------------------------
(* Choosing matches (MatchSelectionService) and accepting predictions        *)
(* (TipValidationService)                                                    *)

\* What the rows say.
Scheduled == {m \in Matches : status[m] \in {"scheduled", "late"}}

\* Every match is in the dates of every job; only this one looks at the clock.
selectWeekendLeagueMatches ==
    LET future == {m \in Scheduled : status[m] # "late"}
        top    == {m \in future : Competition[m] \in TopLeagues}
        other  == future \ top
    IN  top \cup {m \in other : Cardinality(other \cap Before[m]) < Others}

\* The others begin at midnight: a match of this morning is among them.
selectMatches(c) ==
    IF c = Weekend THEN selectWeekendLeagueMatches
                   ELSE {m \in Scheduled : Competition[m] = c}

Text(type, value, line, padded) ==
    [type |-> type, value |-> value, line |-> line, padded |-> padded]

\* A fault for TLC to find: any text will do for a double chance.
ValidateFreely(v) ==
    \/ v.type = "DOUBLE_CHANCE"
    \/ v.type = "MATCH_RESULT" /\ v.value \in {"home", "away", "draw"}

\* Blanks are trimmed first.  Goals are whole or half numbers without a sign.  A
\* handicap names the team it is given to.
validatePredictionValue(v) ==
    CASE v.type = "MATCH_RESULT"  -> v.value \in {"home", "away", "draw"}
      [] v.type = "OVER_UNDER"    -> v.value \in {"over", "under"} /\ v.line >= 0 /\ v.line % 2 = 0
      [] v.type = "BOTH_TEAMS_TO_SCORE" -> v.value \in {"btts_yes", "btts_no"}
      [] v.type = "DOUBLE_CHANCE" -> v.value \in {"home_draw", "home_away", "away_draw"}
      [] v.type = "HANDICAP"      -> v.value \in {"home", "away"} /\ v.line # NoLine /\ v.line % 2 = 0
      [] v.type = "CORRECT_SCORE" -> v.line # NoLine
      [] OTHER                    -> v.type \in {"FIRST_GOAL_SCORER", "ANY_OTHER"}

parseAiResponse(answer, given) ==
    answer # Malformed /\ \A i \in DOMAIN answer : answer[i].match \in given

NoDuplicates(answer) ==
    \A i, j \in DOMAIN answer : answer[i] = answer[j] => i = j

-----------------------------------------------------------------------------
(* The runs *)

TypeOK ==
    /\ status \in [Matches -> {"scheduled", "late", "begun"}]
    /\ enabled \in BOOLEAN
    /\ tipsters \in 0..MaxTips
    /\ \A i \in DOMAIN tips : tips[i].tipster \in 1..tipsters
    /\ \A j \in Jobs :
         /\ run[j].pc \in {"idle", "pick", "ask", "check", "look", "save", "ended", "crashed"}
         /\ run[j].attempt \in 0..maxRetries
         /\ run[j].tipster \in 0..tipsters
         /\ run[j].saved \in 0..(1 + Len(run[j].answer))
    /\ faults \in 0..MaxFaults

Init ==
    /\ status = [m \in Matches |-> "scheduled"]
    /\ enabled = TRUE
    /\ tipsters = 0
    /\ tips = <<>>
    /\ run = [j \in Jobs |-> Idle]
    /\ faults = 0

\* A timer starts a job only if the settings allow it.  The start-up run happens
\* once in the life of the process.
Begin(j) ==
    /\ j \notin Active
    /\ j = Startup => run[j].pc # "ended"
    /\ enabled
    /\ Len(tips) + Cardinality(Active) < MaxTips
    /\ Put(j, Fresh("pick", Plan[j]))
    /\ UNCHANGED <<status, enabled, tipsters, tips, faults>>

\* A fault for TLC to find: the run ends with the first competition.
StopHere(r) == [r EXCEPT !.pc = "ended"]

\* The run after the competition it is at, whether that gave a tip, had no
\* matches or failed.
NextCompetition(r) ==
    Fresh(IF Len(r.rest) = 1 THEN "ended" ELSE "pick", Tail(r.rest))

Pick(j) ==
    /\ run[j].pc = "pick"
    /\ LET given == selectMatches(Head(run[j].rest))
       IN  Put(j, IF given = {} THEN NextCompetition(run[j])
                  ELSE [run[j] EXCEPT !.pc = "ask", !.given = given, !.attempt = 1])
    /\ UNCHANGED <<status, enabled, tipsters, tips, faults>>

\* A fault for TLC to find: one attempt too many.
RetryOnceMore(r) ==
    IF r.attempt > maxRetries THEN NextCompetition(r)
    ELSE [r EXCEPT !.attempt = @ + 1]

\* Ollama fails or says nothing for two minutes.
executeWithRetry(r) ==
    IF r.attempt >= maxRetries THEN NextCompetition(r)
    ELSE [r EXCEPT !.attempt = @ + 1]

NoAnswer(j) ==
    /\ run[j].pc = "ask"
    /\ Put(j, executeWithRetry(run[j]))
    /\ UNCHANGED <<status, enabled, tipsters, tips, faults>>

\* The prompts name no match (see MatchesShown); the model may hit on one all the
\* same.
Answer(j) ==
    /\ run[j].pc = "ask"
    /\ \E answer \in Answers :
         Put(j, IF parseAiResponse(answer, run[j].given)
                THEN [run[j] EXCEPT !.pc = "check", !.answer = answer]
                ELSE NextCompetition(run[j]))
    /\ UNCHANGED <<status, enabled, tipsters, tips, faults>>

\* One selection of the answer against the row of its match.
validateSelection(s) ==
    s.match \in Scheduled /\ validatePredictionValue(s.value)

\* The rows are read one by one; a row that changes meanwhile might as well change
\* after the last.
validateTip(j) ==
    /\ run[j].pc = "check"
    /\ LET answer == run[j].answer
       IN  Put(j, IF NoDuplicates(answer) /\ \A i \in DOMAIN answer : validateSelection(answer[i])
                  THEN [run[j] EXCEPT !.pc = "look"]
                  ELSE NextCompetition(run[j]))
    /\ UNCHANGED <<status, enabled, tipsters, tips, faults>>

\* The transaction begins: some tipster marked isAi, or none.
getOrCreateAiTipster(j) ==
    /\ run[j].pc = "look"
    /\ \E t \in IF tipsters = 0 THEN {0} ELSE 1..tipsters :
         Put(j, [run[j] EXCEPT !.pc = "save", !.tipster = t])
    /\ UNCHANGED <<status, enabled, tipsters, tips, faults>>

\* The row of the tip (and before it that of a new tipster), then one row for
\* each selection.
Save(j) ==
    /\ run[j].pc = "save"
    /\ run[j].saved <= Len(run[j].answer)
    /\ Put(j, [run[j] EXCEPT !.saved = @ + 1])
    /\ UNCHANGED <<status, enabled, tipsters, tips, faults>>

\* A fault for TLC to find: committed before every row is written.
CompleteEarly(r) == r.saved >= 1

Complete(r) == r.saved = 1 + Len(r.answer)

\* The date of a tip is that of the earliest match the model was asked about.
getEarliestMatch(given) == CHOOSE m \in given : Before[m] \cap given = {}

Commit(j) ==
    /\ run[j].pc = "save"
    /\ Complete(run[j])
    /\ LET isNew == run[j].tipster = 0
           owner == IF isNew THEN tipsters + 1 ELSE run[j].tipster
       IN  /\ tipsters' = IF isNew THEN owner ELSE tipsters
           /\ tips' = Append(tips,
                        [tipster |-> owner, first |-> getEarliestMatch(run[j].given),
                         selections |-> SubSeq(run[j].answer, 1, run[j].saved - 1)])
    /\ Put(j, NextCompetition(run[j]))
    /\ UNCHANGED <<status, enabled, faults>>

\* A query is refused: what the transaction has written is rolled back.
Refuse(j) ==
    /\ run[j].pc \in {"pick", "check", "look", "save"}
    /\ faults < MaxFaults
    /\ faults' = faults + 1
    /\ Put(j, NextCompetition(run[j]))
    /\ UNCHANGED <<status, enabled, tipsters, tips>>

\* The process ends and starts again.
Crash ==
    /\ faults < MaxFaults
    /\ faults' = faults + 1
    /\ run' = [j \in Jobs |-> IF j \in Active THEN Fresh("crashed", <<>>) ELSE Idle]
    /\ UNCHANGED <<status, enabled, tipsters, tips>>

\* A match begins; later its row says so.
Kickoff(m) ==
    /\ m \in Scheduled
    /\ status[m] = "late" \/ Cardinality({k \in Matches : status[k] # "scheduled"}) < MaxBegun
    /\ status' = [status EXCEPT ![m] = IF @ = "late" THEN "begun" ELSE "late"]
    /\ UNCHANGED <<enabled, tipsters, tips, run, faults>>

\* Administrators switch the jobs off; on again is another start.
SwitchOff ==
    /\ enabled
    /\ enabled' = FALSE
    /\ UNCHANGED <<status, tipsters, tips, run, faults>>

Step(j) ==
    \/ Pick(j)
    \/ NoAnswer(j)
    \/ Answer(j)
    \/ validateTip(j)
    \/ getOrCreateAiTipster(j)
    \/ Save(j)
    \/ Commit(j)

Next ==
    \/ \E j \in Jobs : Begin(j) \/ Step(j) \/ Refuse(j)
    \/ \E m \in Matches : Kickoff(m)
    \/ Crash
    \/ SwitchOff

Spec == Init /\ [][Next]_vars

\* The event loop runs what can run, and a call of the language model answers or
\* times out.
FairSpec == Spec /\ \A j \in Jobs : WF_vars(Step(j))

-----------------------------------------------------------------------------
(* Properties *)

\* A tip the users can see is whole: it has a selection, each on a match the model
\* was asked about, none twice, and none is played before the date of the tip
\* (createTipFromParsed; the transaction is what a crash or a refused query in the
\* middle must not get past).
WholeTips ==
    \A i \in DOMAIN tips :
        LET sels == tips[i].selections
        IN  /\ sels # <<>>
            /\ NoDuplicates(sels)
            /\ \A k \in DOMAIN sels :
                 /\ sels[k].match # Elsewhere
                 /\ sels[k].match \notin Before[tips[i].first]

\* What the evaluation reads in a stored text: it puts it in lower case and leaves
\* the blanks.  The patterns of goals and scores find theirs between them; any other
\* text with blanks is none that it knows.
AsRead(v) ==
    IF v.padded /\ v.type \notin {"OVER_UNDER", "CORRECT_SCORE"}
    THEN Value(v.type, "double_text", NoLine)
    ELSE Value(v.type, v.value, v.line)

\* It is the text that was validated.
ReadAsValidated(v) == AsRead(v) = Value(v.type, v.value, v.line)

\* Predictions that speak of the score: of its result, of both teams, of more than
\* no goals and fewer than eight, of a score of up to four goals each.
OfScore(v) ==
    \/ v.type \in {"MATCH_RESULT", "BOTH_TEAMS_TO_SCORE", "DOUBLE_CHANCE"}
    \/ v.type = "OVER_UNDER" /\ v.line \in 1..31
    \/ v.type = "CORRECT_SCORE" /\ v.value \in Score

\* It comes true on some score, and fails on some.
CanWin(v) ==
    \A verdict \in {"correct", "incorrect"} :
        \E score \in Score : evaluateSelection(AsRead(v), score) = verdict

\* A prediction of the score in a tip of the platform is not lost before the match
\* is played, when its text is read as it was validated (validatePredictionValue
\* against evaluateSelection; a handicap or a scorer is let through and always void,
\* and nothing is under no goals).
TipsCanWin ==
    \A i \in DOMAIN tips : \A k \in DOMAIN tips[i].selections :
        LET v == tips[i].selections[k].value
        IN  OfScore(v) /\ ReadAsValidated(v) => CanWin(v)

\* False, and what the validation promises ("Validate prediction value matches
\* prediction type", tip-validation.service.ts:203): it trims what is stored
\* untrimmed, and a double chance with a blank before it is always lost.
ValidatedCanWin ==
    \A i \in DOMAIN tips : \A k \in DOMAIN tips[i].selections :
        LET v == tips[i].selections[k].value
        IN  OfScore(v) => CanWin(v)

\* A run ends, whatever the language model does, and has then dealt with every
\* competition of its job: one that fails does not stop the others
\* (executeWithRetry, generateInternationalCompetitionTips).
EveryCompetitionTried ==
    \A j \in Jobs :
        j \in Active ~> run[j].pc = "crashed" \/ (run[j].pc = "ended" /\ run[j].rest = <<>>)

\* While the model is asked, the prompts agree on how much is known of the matches.
LevelsCohere ==
    \A j \in Jobs : run[j].pc = "ask" => LevelsAgree(Data, run[j].given)

\* False for every run that asks at all.
PromptShowsMatches ==
    \A j \in Jobs : run[j].pc = "ask" => MatchesShown(Data, run[j].given)

\* The other side of the coin, and false: two runs that overlap each find no AI
\* tipster and each add one.
OneAiTipster == tipsters <= 1
=============================================================================
