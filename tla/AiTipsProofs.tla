---------------------------- MODULE AiTipsProofs ----------------------------
(***************************************************************************)
(* AiTips for every set of jobs, every plan, all matches with dates, every *)
(* set of predictions and every number of crashes and refused queries: the *)
(* tips of the platform are whole, each of their predictions of the score  *)
(* that is read as it was validated can still win, and the prompts agree   *)
(* on how much is known.                                                   *)
(*                                                                         *)
(* None is inductive: what a commit stores was chosen, asked, checked      *)
(* and written by earlier steps of the run, so the invariant says what a   *)
(* run holds at each place.  The number of tipsters is bounded because     *)
(* only runs that found none create one, and those were all active before  *)
(* the first tip.                                                          *)
(***************************************************************************)
EXTENDS AiTips, TLAPS, FiniteSetTheorems, SequenceTheorems, WellFoundedInduction

Asking  == {"ask", "check", "look", "save"}
Judging == {"check", "look", "save"}
Storing == {"look", "save"}
Working == {"pick"} \cup Asking
Places  == {"idle", "ended", "crashed"} \cup Working

Run == [pc : Places, rest : Seq(STRING), given : SUBSET Matches, attempt : 0..maxRetries,
        answer : Seq(Selection), tipster : Nat, saved : Nat]

Tip == [tipster : Nat, first : Matches, selections : Seq(Selection)]

Shapes ==
    /\ status \in [Matches -> {"scheduled", "late", "begun"}]
    /\ enabled \in BOOLEAN
    /\ tipsters \in Nat
    /\ tips \in Seq(Tip)
    /\ run \in [Jobs -> Run]
    /\ faults \in 0..MaxFaults

\* The selections are on these matches, and there are some.
About(sels, given) == sels # <<>> /\ \A i \in DOMAIN sels : sels[i].match \in given

\* They have passed the checks that look at nothing else.
Checked(sels) ==
    /\ NoDuplicates(sels)
    /\ \A i \in DOMAIN sels : validatePredictionValue(sels[i].value)

\* What a run holds at each place.
Held(r) ==
    /\ r.pc \in Working => r.rest # <<>>
    /\ r.pc \in Asking  => r.given # {}
    /\ r.pc \in Judging => About(r.answer, r.given)
    /\ r.pc \in Storing => Checked(r.answer)
    /\ r.pc # "save" => r.saved = 0
    /\ r.saved \in 0..(1 + Len(r.answer))

RunsHold == \A j \in Jobs : Held(run[j]) /\ run[j].tipster \in 0..tipsters

\* What a stored tip has kept of it.
Whole(t) ==
    /\ About(t.selections, Matches \ Before[t.first])
    /\ Checked(t.selections)
    /\ t.tipster \in 1..tipsters

TipsHold == \A i \in DOMAIN tips : Whole(tips[i])

\* Runs that have found no tipster and will create one.
Newcomers == {j \in Jobs : run[j].pc = "save" /\ run[j].tipster = 0}

CrewBounded ==
    /\ tipsters = 0 => tips = <<>> /\ Cardinality(Active) <= MaxTips
    /\ tipsters + Cardinality(Newcomers) <= MaxTips

AiInv == Shapes /\ RunsHold /\ TipsHold /\ CrewBounded

-----------------------------------------------------------------------------
(* The data of a run *)

\* The answers of the language model are sequences of selections.
LEMMA AnswersAreSequences == Answers \subseteq Seq(Selection)
<1>1. Malformed \in Seq(Selection)
  BY EmptySeq DEF Malformed
<1>2. 1..MaxSelections \subseteq Nat
  BY BoundsAssumption
<1> QED
  BY <1>1, <1>2, SeqDef DEF Answers

\* A run that starts, or stops, holds nothing.
LEMMA FreshHolds ==
    ASSUME NEW place \in {"idle", "crashed", "ended", "pick"}, NEW plan \in Seq(STRING),
           place = "pick" => plan # <<>>
    PROVE  /\ Fresh(place, plan) \in Run
           /\ Held(Fresh(place, plan))
           /\ Fresh(place, plan).tipster = 0
           /\ Fresh(place, plan).pc = place
<1>1. <<>> \in Seq(Selection) /\ Len(<<>>) = 0
  BY EmptySeq
<1>2. Fresh(place, plan) \in Run
  BY <1>1 DEF Fresh, Malformed, Run, Places, Working, Asking, maxRetries
<1>3. /\ Fresh(place, plan).pc = place
      /\ Fresh(place, plan).rest = plan
      /\ Fresh(place, plan).answer = <<>>
      /\ Fresh(place, plan).tipster = 0
      /\ Fresh(place, plan).saved = 0
  BY DEF Fresh, Malformed
<1>4. 0 \in 0..(1 + Len(<<>>))
  BY <1>1
<1>5. Held(Fresh(place, plan))
  BY <1>3, <1>4 DEF Held, Working, Asking, Judging, Storing
<1> QED
  BY <1>2, <1>3, <1>5

\* The next competition begins with nothing but the rest of the plan.
LEMMA NextCompetitionHolds ==
    ASSUME NEW r \in Run, r.rest # <<>>
    PROVE  /\ NextCompetition(r) \in Run
           /\ Held(NextCompetition(r))
           /\ NextCompetition(r).tipster = 0
           /\ NextCompetition(r).pc \in {"pick", "ended"}
<1> DEFINE rest == Tail(r.rest)
           pc == IF Len(r.rest) = 1 THEN "ended" ELSE "pick"
<1>1. r.rest \in Seq(STRING)
  BY DEF Run
<1>2. rest \in Seq(STRING) /\ Len(rest) = Len(r.rest) - 1 /\ Len(r.rest) \in Nat
  BY <1>1, HeadTailProperties, LenProperties
<1>3. Len(<<>>) = 0
  BY EmptySeq
<1>4. ASSUME rest = <<>> PROVE pc = "ended"
  <2>1. Len(rest) = 0
    BY <1>3, <1>4
  <2> HIDE DEF rest
  <2>2. Len(r.rest) = 1
    BY <1>2, <2>1
  <2> QED
    BY <2>2
<1>5. NextCompetition(r) = Fresh(pc, rest)
  BY DEF NextCompetition
<1>6. pc \in {"pick", "ended"}
  OBVIOUS
<1> HIDE DEF rest, pc
<1>7. /\ Fresh(pc, rest) \in Run
      /\ Held(Fresh(pc, rest))
      /\ Fresh(pc, rest).tipster = 0
      /\ Fresh(pc, rest).pc = pc
  BY <1>2, <1>4, <1>6, FreshHolds
<1> QED
  BY <1>5, <1>6, <1>7

\* The matches of a competition are matches.
LEMMA SelectedAreMatches == ASSUME NEW c PROVE selectMatches(c) \subseteq Matches
BY DEF selectMatches, selectWeekendLeagueMatches, Scheduled

\* The earliest of some matches is one of them, and no other is before it.
LEMMA EarliestIsFirst ==
    ASSUME NEW given \in SUBSET Matches, given # {}
    PROVE  /\ getEarliestMatch(given) \in given
           /\ Before[getEarliestMatch(given)] \cap given = {}
BY DatesAssumption DEF getEarliestMatch

-----------------------------------------------------------------------------
(* The jobs at work *)

LEMMA ActiveIsFinite ==
    /\ IsFiniteSet(Active) /\ Cardinality(Active) \in Nat
    /\ IsFiniteSet(Newcomers) /\ Cardinality(Newcomers) \in Nat
    /\ Newcomers \subseteq Active /\ Cardinality(Newcomers) <= Cardinality(Active)
<1>1. IsFiniteSet(Active) /\ IsFiniteSet(Newcomers)
  BY JobsAssumption, FS_Subset DEF Active, Newcomers
<1>2. Newcomers \subseteq Active
  BY DEF Active, Newcomers
<1> QED
  BY <1>1, <1>2, FS_CardinalityType, FS_Subset

\* Only a run that found no tipster creates one, and it finds none before the first
\* tip only.
LEMMA NoMoreTipsters ==
    ASSUME AiInv, tipsters' = tipsters, tips' = tips,
           Active' \subseteq Active, tipsters = 0 \/ Newcomers' \subseteq Newcomers
    PROVE  CrewBounded'
<1>1. Cardinality(Active') <= Cardinality(Active) /\ Cardinality(Active') \in Nat
  BY ActiveIsFinite, FS_Subset, FS_CardinalityType
<1>2. CASE tipsters = 0
  <2>1. Newcomers' \subseteq Active
    BY DEF Active, Newcomers
  <2>2. Cardinality(Newcomers') <= Cardinality(Active) /\ Cardinality(Newcomers') \in Nat
    BY <2>1, ActiveIsFinite, FS_Subset, FS_CardinalityType
  <2> QED
    BY <1>1, <1>2, <2>2, ActiveIsFinite, BoundsAssumption DEF AiInv, CrewBounded
<1>3. CASE tipsters # 0
  <2>1. Cardinality(Newcomers') <= Cardinality(Newcomers) /\ Cardinality(Newcomers') \in Nat
    BY <1>3, ActiveIsFinite, FS_Subset, FS_CardinalityType
  <2> QED
    BY <1>1, <1>3, <2>1, ActiveIsFinite, BoundsAssumption DEF AiInv, CrewBounded, Shapes
<1> QED
  BY <1>2, <1>3

\* What a tip keeps does not depend on the runs.
LEMMA TipsStay ==
    ASSUME AiInv, tips' = tips, tipsters' = tipsters
    PROVE  TipsHold'
BY DEF AiInv, TipsHold, Whole, About, Checked, NoDuplicates, validatePredictionValue

\* One run moves on, and becomes one that will create a tipster only before there is
\* one.
LEMMA RunMoves ==
    ASSUME AiInv, NEW j \in Jobs, j \in Active,
           NEW r \in Run, Held(r), r.tipster \in 0..tipsters, Put(j, r),
           r.pc = "save" /\ r.tipster = 0 => tipsters = 0 \/ j \in Newcomers,
           UNCHANGED <<status, enabled, tipsters, tips>>, faults' \in 0..MaxFaults
    PROVE  AiInv'
<1>1. run' = [run EXCEPT ![j] = r] /\ run \in [Jobs -> Run]
  BY DEF Put, AiInv, Shapes
<1>2. run' \in [Jobs -> Run] /\ run'[j] = r /\ \A i \in Jobs \ {j} : run'[i] = run[i]
  BY <1>1
<1>3. Shapes'
  BY <1>2 DEF AiInv, Shapes
<1>4. ASSUME NEW i \in Jobs PROVE (Held(run[i]) /\ run[i].tipster \in 0..tipsters)'
  <2>1. CASE i = j
    BY <1>2, <2>1
  <2>2. CASE i # j
    <3>1. Held(run[i]) /\ run[i].tipster \in 0..tipsters /\ run'[i] = run[i]
      BY <1>2, <2>2 DEF AiInv, RunsHold
    <3> QED
      BY <3>1
  <2> QED
    BY <2>1, <2>2
<1>5. RunsHold'
  BY <1>4 DEF RunsHold
<1>6. Active' \subseteq Active
  BY <1>2 DEF Active
<1>7. tipsters = 0 \/ Newcomers' \subseteq Newcomers
  BY <1>2 DEF Newcomers
<1>8. TipsHold' /\ CrewBounded'
  BY <1>6, <1>7, TipsStay, NoMoreTipsters
<1> QED
  BY <1>3, <1>5, <1>8 DEF AiInv

\* A run leaves a competition at any place.
LEMMA GivesUp ==
    ASSUME AiInv, NEW j \in Jobs, run[j].pc \in Working, Put(j, NextCompetition(run[j])),
           UNCHANGED <<status, enabled, tipsters, tips>>, faults' \in 0..MaxFaults
    PROVE  AiInv'
<1> DEFINE r == NextCompetition(run[j])
<1>1. run[j] \in Run /\ run[j].rest # <<>> /\ j \in Active
  BY DEF AiInv, Shapes, RunsHold, Held, Active, Working, Asking
<1>2. r \in Run /\ Held(r) /\ r.tipster = 0 /\ r.pc \in {"pick", "ended"}
  BY <1>1, NextCompetitionHolds
<1>3. r.tipster \in 0..tipsters
  BY <1>2 DEF AiInv, Shapes
<1>4. Put(j, r)
  OBVIOUS
<1>5. r.pc # "save"
  BY <1>2
<1> HIDE DEF r
<1> QED
  BY <1>1, <1>2, <1>3, <1>4, <1>5, RunMoves

-----------------------------------------------------------------------------
(* The steps of a run *)

\* What is known of a run at one of its places.
LEMMA AtWork ==
    ASSUME AiInv, NEW j \in Jobs
    PROVE  /\ run[j] \in Run /\ Held(run[j]) /\ run[j].tipster \in 0..tipsters
           /\ run[j].pc \in Working => j \in Active
           /\ run[j].saved \in 0..(1 + Len(run[j].answer))
           /\ faults \in 0..MaxFaults /\ tipsters \in Nat
BY DEF AiInv, Shapes, RunsHold, Held, Active, Working, Asking

\* What is chosen are matches, and there are some.
LEMMA PickKeeps == ASSUME AiInv, NEW j \in Jobs, Pick(j) PROVE AiInv'
<1> DEFINE given == selectMatches(Head(run[j].rest))
           r == [run[j] EXCEPT !.pc = "ask", !.given = given, !.attempt = 1]
<1>1. run[j].pc = "pick" /\ run[j].pc \in Working /\ "ask" \in Places
  BY DEF Pick, Working, Places, Asking
<1>2. UNCHANGED <<status, enabled, tipsters, tips>> /\ faults' \in 0..MaxFaults
  BY AtWork DEF Pick
<1>3. CASE given = {}
  BY <1>1, <1>2, <1>3, GivesUp DEF Pick
<1>4. CASE given # {}
  <2>1. given \in SUBSET Matches
    BY SelectedAreMatches
  <2>2. Put(j, r)
    BY <1>4 DEF Pick
  <2> HIDE DEF given
  <2>3. [run[j] EXCEPT !.pc = "ask"] \in Run
    BY <1>1, AtWork DEF Run
  <2>4. [run[j] EXCEPT !.pc = "ask", !.given = given] \in Run
    BY <2>1, <2>3 DEF Run
  <2>5. ASSUME NEW q \in Run PROVE [q EXCEPT !.attempt = 1] \in Run
    BY DEF Run, maxRetries
  <2>6. r \in Run
    BY <2>4, <2>5
  <2>7. /\ r.pc = "ask" /\ r.rest = run[j].rest /\ r.given = given
        /\ r.answer = run[j].answer /\ r.tipster = run[j].tipster /\ r.saved = run[j].saved
    BY AtWork DEF Run
  <2>8. Held(r) /\ r.tipster \in 0..tipsters
    BY <1>1, <1>4, <2>7, AtWork DEF Held, Working, Asking, Judging, Storing
  <2>9. r.pc # "save"
    BY <2>7
  <2> HIDE DEF r
  <2> QED
    BY <1>1, <1>2, <2>2, <2>6, <2>8, <2>9, AtWork, RunMoves
<1> QED
  BY <1>3, <1>4

\* The attempts are counted.
LEMMA NoAnswerKeeps == ASSUME AiInv, NEW j \in Jobs, NoAnswer(j) PROVE AiInv'
<1> DEFINE r == [run[j] EXCEPT !.attempt = @ + 1]
<1>1. run[j].pc = "ask" /\ run[j].pc \in Working
  BY DEF NoAnswer, Working, Asking
<1>2. UNCHANGED <<status, enabled, tipsters, tips>> /\ faults' \in 0..MaxFaults
  BY AtWork DEF NoAnswer
<1>3. CASE run[j].attempt >= maxRetries
  BY <1>1, <1>2, <1>3, GivesUp DEF NoAnswer, executeWithRetry
<1>4. CASE ~(run[j].attempt >= maxRetries)
  <2>1. Put(j, r)
    BY <1>4 DEF NoAnswer, executeWithRetry
  <2>2. run[j].attempt + 1 \in 0..maxRetries
    BY <1>4, AtWork DEF Run, maxRetries
  <2>3. r \in Run
    BY <2>2, AtWork DEF Run
  <2>4. /\ r.pc = run[j].pc /\ r.rest = run[j].rest /\ r.given = run[j].given
        /\ r.answer = run[j].answer /\ r.tipster = run[j].tipster /\ r.saved = run[j].saved
    BY AtWork DEF Run
  <2>5. Held(r) /\ r.tipster \in 0..tipsters
    BY <2>4, AtWork DEF Held
  <2>6. r.pc # "save"
    BY <1>1, <2>4
  <2> HIDE DEF r
  <2> QED
    BY <1>1, <1>2, <2>1, <2>3, <2>5, <2>6, AtWork, RunMoves
<1> QED
  BY <1>3, <1>4

\* An answer is kept when it speaks of the matches it was asked about.
LEMMA AnswerKeeps == ASSUME AiInv, NEW j \in Jobs, Answer(j) PROVE AiInv'
<1>1. run[j].pc = "ask" /\ run[j].pc \in Working
  BY DEF Answer, Working, Asking
<1>2. UNCHANGED <<status, enabled, tipsters, tips>> /\ faults' \in 0..MaxFaults
  BY AtWork DEF Answer
<1>3. PICK answer \in Answers :
        Put(j, IF parseAiResponse(answer, run[j].given)
               THEN [run[j] EXCEPT !.pc = "check", !.answer = answer]
               ELSE NextCompetition(run[j]))
  BY DEF Answer
<1> DEFINE q == [run[j] EXCEPT !.answer = answer]
           r == [q EXCEPT !.pc = "check"]
<1>4. CASE ~parseAiResponse(answer, run[j].given)
  BY <1>1, <1>2, <1>3, <1>4, GivesUp
<1>5. CASE parseAiResponse(answer, run[j].given)
  <2>1. run[j].pc = "ask" /\ answer \in Seq(Selection) /\ About(answer, run[j].given)
    BY <1>1, <1>5, AnswersAreSequences DEF parseAiResponse, About, Malformed
  <2>2. run[j] \in Run
    BY AtWork
  <2>3. q \in Run
    BY <2>1, <2>2 DEF Run
  <2>4. /\ q.rest = run[j].rest /\ q.given = run[j].given
        /\ q.answer = answer /\ q.tipster = run[j].tipster /\ q.saved = run[j].saved
    BY <2>2 DEF Run
  <2>5. [run[j] EXCEPT !.pc = "check", !.answer = answer] = r
    BY <2>2 DEF Run
  <2>6. Put(j, r)
    BY <1>3, <1>5, <2>5
  <2> HIDE DEF q
  <2>7. r \in Run
    BY <2>3 DEF Run, Places, Working, Asking
  <2>8. /\ r.pc = "check" /\ r.rest = q.rest /\ r.given = q.given
        /\ r.answer = q.answer /\ r.tipster = q.tipster /\ r.saved = q.saved
    BY <2>3 DEF Run
  <2>9. run[j].saved = 0
    BY <1>1, AtWork DEF Held
  <2>10. 0 \in 0..(1 + Len(answer))
    BY <2>1, LenProperties
  <2>11. Held(r) /\ r.tipster \in 0..tipsters
    BY <1>1, <2>1, <2>4, <2>8, <2>9, <2>10, AtWork DEF Held, Working, Asking, Judging, Storing
  <2> HIDE DEF r
  <2> QED
    BY <1>1, <1>2, <2>6, <2>7, <2>8, <2>11, AtWork, RunMoves
<1> QED
  BY <1>4, <1>5

\* No selection twice, each of a kind the platform can read.
LEMMA validateTipKeeps == ASSUME AiInv, NEW j \in Jobs, validateTip(j) PROVE AiInv'
<1> DEFINE answer == run[j].answer
           good == NoDuplicates(answer) /\ \A i \in DOMAIN answer : validateSelection(answer[i])
           r == [run[j] EXCEPT !.pc = "look"]
<1>1. run[j].pc = "check" /\ run[j].pc \in Working
  BY DEF validateTip, Working, Asking
<1>2. UNCHANGED <<status, enabled, tipsters, tips>> /\ faults' \in 0..MaxFaults
  BY AtWork DEF validateTip
<1>3. CASE ~good
  BY <1>1, <1>2, <1>3, GivesUp DEF validateTip
<1>4. CASE good
  <2>1. Put(j, r)
    BY <1>4 DEF validateTip
  <2>2. r \in Run
    BY AtWork DEF Run, Places, Working, Asking
  <2>3. /\ r.pc = "look" /\ r.rest = run[j].rest /\ r.given = run[j].given
        /\ r.answer = run[j].answer /\ r.tipster = run[j].tipster /\ r.saved = run[j].saved
    BY AtWork DEF Run
  <2>4. Checked(answer)
    BY <1>4 DEF Checked, validateSelection
  <2>5. Held(r) /\ r.tipster \in 0..tipsters
    BY <1>1, <2>3, <2>4, AtWork DEF Held, Working, Asking, Judging, Storing
  <2> HIDE DEF r
  <2> QED
    BY <1>1, <1>2, <2>1, <2>2, <2>3, <2>5, AtWork, RunMoves
<1> QED
  BY <1>3, <1>4

\* A row is written.
LEMMA SaveKeeps == ASSUME AiInv, NEW j \in Jobs, Save(j) PROVE AiInv'
<1> DEFINE r == [run[j] EXCEPT !.saved = @ + 1]
<1>1. run[j].pc = "save" /\ run[j].pc \in Working /\ run[j].saved <= Len(run[j].answer) /\ Put(j, r)
  BY DEF Save, Working, Asking
<1>2. UNCHANGED <<status, enabled, tipsters, tips>> /\ faults' \in 0..MaxFaults
  BY AtWork DEF Save
<1>3. Len(run[j].answer) \in Nat
  BY AtWork, LenProperties DEF Run
<1>4. run[j].saved + 1 \in 0..(1 + Len(run[j].answer))
  BY <1>1, <1>3, AtWork
<1>5. r \in Run
  BY AtWork DEF Run
<1>6. /\ r.pc = "save" /\ r.rest = run[j].rest /\ r.given = run[j].given
      /\ r.answer = run[j].answer /\ r.tipster = run[j].tipster
      /\ r.saved = run[j].saved + 1
  BY <1>1, AtWork DEF Run
<1>7. Held(r) /\ r.tipster \in 0..tipsters
  BY <1>1, <1>4, <1>6, AtWork DEF Held
<1>8. r.pc = "save" /\ r.tipster = 0 => j \in Newcomers
  BY <1>1, <1>6 DEF Newcomers
<1> HIDE DEF r
<1> QED
  BY <1>1, <1>2, <1>5, <1>7, <1>8, AtWork, RunMoves

\* A refused query ends a competition.
LEMMA RefuseKeeps == ASSUME AiInv, NEW j \in Jobs, Refuse(j) PROVE AiInv'
<1>1. run[j].pc \in Working /\ Put(j, NextCompetition(run[j]))
  BY DEF Refuse, Working, Asking
<1>2. UNCHANGED <<status, enabled, tipsters, tips>> /\ faults' \in 0..MaxFaults
  BY AtWork, BoundsAssumption DEF Refuse
<1> QED
  BY <1>1, <1>2, GivesUp

\* None is found only when there is none.
LEMMA LookKeeps == ASSUME AiInv, NEW j \in Jobs, getOrCreateAiTipster(j) PROVE AiInv'
<1>1. run[j].pc = "look" /\ run[j].pc \in Working
  BY DEF getOrCreateAiTipster, Working, Asking
<1>2. UNCHANGED <<status, enabled, tipsters, tips>> /\ faults' \in 0..MaxFaults
  BY AtWork DEF getOrCreateAiTipster
<1>3. PICK t \in IF tipsters = 0 THEN {0} ELSE 1..tipsters :
        Put(j, [run[j] EXCEPT !.pc = "save", !.tipster = t])
  BY DEF getOrCreateAiTipster
<1>4. t \in 0..tipsters /\ t \in Nat /\ (t = 0 => tipsters = 0)
  BY <1>3, AtWork
<1> DEFINE q == [run[j] EXCEPT !.pc = "save"]
           r == [q EXCEPT !.tipster = t]
<1>5. q \in Run
  BY AtWork DEF Run, Places, Working, Asking
<1>6. /\ q.pc = "save" /\ q.rest = run[j].rest /\ q.given = run[j].given
      /\ q.answer = run[j].answer /\ q.saved = run[j].saved
  BY AtWork DEF Run
<1>7. [run[j] EXCEPT !.pc = "save", !.tipster = t] = r
  BY AtWork DEF Run
<1>8. Put(j, r)
  BY <1>3, <1>7
<1> HIDE DEF q
<1>9. r \in Run
  BY <1>4, <1>5 DEF Run
<1>10. /\ r.pc = "save" /\ r.rest = run[j].rest /\ r.given = run[j].given
       /\ r.answer = run[j].answer /\ r.saved = run[j].saved /\ r.tipster = t
  BY <1>5, <1>6 DEF Run
<1>11. Held(r) /\ r.tipster \in 0..tipsters
  BY <1>1, <1>4, <1>10, AtWork DEF Held, Working, Asking, Judging, Storing
<1>12. r.pc = "save" /\ r.tipster = 0 => tipsters = 0 \/ j \in Newcomers
  BY <1>4, <1>10
<1> HIDE DEF r
<1> QED
  BY <1>1, <1>2, <1>8, <1>9, <1>11, <1>12, AtWork, RunMoves

\* A job begins only while there are few runs, or tips.
LEMMA BeginKeeps == ASSUME AiInv, NEW j \in Jobs, Begin(j) PROVE AiInv'
<1> DEFINE r == Fresh("pick", Plan[j])
<1>1. /\ run' = [run EXCEPT ![j] = r]
      /\ UNCHANGED <<status, enabled, tipsters, tips, faults>>
      /\ j \notin Active /\ Len(tips) + Cardinality(Active) < MaxTips
  BY DEF Begin, Put
<1>2. r \in Run /\ Held(r) /\ r.tipster = 0 /\ r.pc = "pick"
  BY JobsAssumption, FreshHolds
<1> HIDE DEF r
<1>3. run \in [Jobs -> Run] /\ tipsters \in Nat
  BY DEF AiInv, Shapes
<1>4. run' \in [Jobs -> Run] /\ run'[j] = r /\ \A i \in Jobs \ {j} : run'[i] = run[i]
  BY <1>1, <1>2, <1>3
<1>5. Shapes'
  BY <1>1, <1>4 DEF AiInv, Shapes
<1>6. ASSUME NEW i \in Jobs PROVE (Held(run[i]) /\ run[i].tipster \in 0..tipsters)'
  <2>1. CASE i = j
    BY <1>1, <1>2, <1>3, <1>4, <2>1
  <2>2. CASE i # j
    <3>1. Held(run[i]) /\ run[i].tipster \in 0..tipsters /\ run'[i] = run[i]
      BY <1>4, <2>2 DEF AiInv, RunsHold
    <3> QED
      BY <1>1, <3>1
  <2> QED
    BY <2>1, <2>2
<1>7. Active' = Active \cup {j} /\ Newcomers' \subseteq Newcomers
  BY <1>2, <1>4 DEF Active, Newcomers
<1>8. Cardinality(Active') = Cardinality(Active) + 1
  BY <1>1, <1>7, ActiveIsFinite, FS_AddElement
<1>9. Cardinality(Newcomers') <= Cardinality(Newcomers) /\ Cardinality(Newcomers') \in Nat
  BY <1>7, ActiveIsFinite, FS_Subset, FS_CardinalityType
<1>10. Len(<<>>) = 0
  BY EmptySeq
<1>11. tipsters + Cardinality(Newcomers') <= MaxTips
  BY <1>3, <1>9, ActiveIsFinite, BoundsAssumption DEF AiInv, CrewBounded
<1>12. tipsters = 0 => tips = <<>> /\ Cardinality(Active') <= MaxTips
  BY <1>1, <1>8, <1>10, ActiveIsFinite, BoundsAssumption DEF AiInv, CrewBounded
<1>13. CrewBounded'
  BY <1>1, <1>11, <1>12 DEF CrewBounded
<1> QED
  BY <1>1, <1>5, <1>6, <1>13, TipsStay DEF AiInv, RunsHold

\* Every run is gone.
LEMMA CrashKeeps == ASSUME AiInv, Crash PROVE AiInv'
<1>1. /\ run' = [j \in Jobs |-> IF j \in Active THEN Fresh("crashed", <<>>) ELSE Idle]
      /\ UNCHANGED <<status, enabled, tipsters, tips>> /\ faults' \in 0..MaxFaults
  BY AtWork, BoundsAssumption DEF Crash, AiInv, Shapes
<1>2. <<>> \in Seq(STRING)
  BY EmptySeq
<1>3. \A place \in {"idle", "crashed"} :
        /\ Fresh(place, <<>>) \in Run /\ Held(Fresh(place, <<>>))
        /\ Fresh(place, <<>>).tipster = 0 /\ Fresh(place, <<>>).pc = place
  BY <1>2, FreshHolds
<1>4. ASSUME NEW j \in Jobs
      PROVE  /\ run'[j] \in Run /\ Held(run'[j]) /\ run'[j].tipster = 0
             /\ run'[j].pc \in {"idle", "crashed"}
  BY <1>1, <1>3 DEF Idle
<1>5. run' \in [Jobs -> Run]
  BY <1>1, <1>4
<1>6. Shapes' /\ tipsters \in Nat
  BY <1>1, <1>5 DEF AiInv, Shapes
<1>7. RunsHold'
  BY <1>1, <1>4, <1>6 DEF RunsHold
<1>8. Active' = {} /\ Newcomers' = {}
  BY <1>4 DEF Active, Newcomers
<1>9. CrewBounded'
  BY <1>1, <1>8, NoMoreTipsters
<1> QED
  BY <1>1, <1>6, <1>7, <1>9, TipsStay DEF AiInv

\* Matches begin and jobs are switched off: no run and no tip changes.
LEMMA OutsideKeeps ==
    ASSUME AiInv, status' \in [Matches -> {"scheduled", "late", "begun"}], enabled' \in BOOLEAN,
           UNCHANGED <<tipsters, tips, run, faults>>
    PROVE  AiInv'
<1>1. Shapes' /\ RunsHold'
  BY DEF AiInv, Shapes, RunsHold
<1>2. Active' = Active /\ Newcomers' = Newcomers
  BY DEF Active, Newcomers
<1> QED
  BY <1>1, <1>2, TipsStay, NoMoreTipsters DEF AiInv

\* What is stored is the whole answer, and with it what the run held.
LEMMA CommitStores ==
    ASSUME AiInv, NEW j \in Jobs, Commit(j)
    PROVE  \E t \in Tip :
             /\ tips' = Append(tips, t)
             /\ About(t.selections, Matches \ Before[t.first])
             /\ Checked(t.selections)
             /\ t.tipster \in 1..tipsters'
             /\ run[j].tipster = 0 => tipsters' = tipsters + 1
             /\ run[j].tipster # 0 => tipsters' = tipsters
<1> DEFINE r == run[j]
           owner == IF r.tipster = 0 THEN tipsters + 1 ELSE r.tipster
           first == getEarliestMatch(r.given)
           stored == SubSeq(r.answer, 1, r.saved - 1)
           t == [tipster |-> owner, first |-> first, selections |-> stored]
<1>1. /\ r.pc = "save" /\ r.saved = 1 + Len(r.answer)
      /\ tipsters' = IF r.tipster = 0 THEN owner ELSE tipsters
      /\ tips' = Append(tips, t)
  BY DEF Commit, Complete
<1>2. /\ r \in Run /\ r.given # {} /\ About(r.answer, r.given) /\ Checked(r.answer)
      /\ r.tipster \in 0..tipsters /\ tipsters \in Nat
  BY <1>1, AtWork DEF Held, Asking, Judging, Storing
<1>3. r.answer \in Seq(Selection) /\ r.given \in SUBSET Matches
  BY <1>2 DEF Run
<1>4. Len(r.answer) \in Nat
  BY <1>3, LenProperties
<1>5. r.saved - 1 = Len(r.answer)
  BY <1>1, <1>4
<1>6. stored = r.answer
  BY <1>3, <1>5, SubSeqFull
<1>7. first \in r.given /\ Before[first] \cap r.given = {}
  BY <1>2, <1>3, EarliestIsFirst
<1>8. owner \in 1..tipsters' /\ owner \in Nat
  BY <1>1, <1>2
<1> HIDE DEF owner, first, stored
<1>9. t \in Tip /\ t.tipster = owner /\ t.first = first /\ t.selections = stored
  BY <1>3, <1>6, <1>7, <1>8 DEF Tip
<1>10. About(stored, Matches \ Before[first]) /\ Checked(stored)
  BY <1>2, <1>3, <1>6, <1>7 DEF About
<1>11. /\ run[j].tipster = 0 => tipsters' = tipsters + 1
       /\ run[j].tipster # 0 => tipsters' = tipsters
  BY <1>1 DEF owner
<1> HIDE DEF t
<1> QED
  BY <1>1, <1>8, <1>9, <1>10, <1>11

LEMMA CommitKeeps == ASSUME AiInv, NEW j \in Jobs, Commit(j) PROVE AiInv'
<1> DEFINE r == NextCompetition(run[j])
<1>1. /\ run[j].pc = "save" /\ run' = [run EXCEPT ![j] = r]
      /\ UNCHANGED <<status, enabled, faults>>
  BY DEF Commit, Put
<1>2. /\ run \in [Jobs -> Run] /\ run[j] \in Run /\ run[j].rest # <<>> /\ j \in Active
      /\ run[j].tipster \in 0..tipsters /\ tipsters \in Nat /\ tips \in Seq(Tip)
  BY <1>1, AtWork DEF AiInv, Shapes, Held, Working, Asking
<1>3. r \in Run /\ Held(r) /\ r.tipster = 0 /\ r.pc \in {"pick", "ended"}
  BY <1>2, NextCompetitionHolds
<1> HIDE DEF r
<1>4. run' \in [Jobs -> Run] /\ run'[j] = r /\ \A i \in Jobs \ {j} : run'[i] = run[i]
  BY <1>1, <1>2, <1>3
<1>5. PICK t \in Tip :
        /\ tips' = Append(tips, t)
        /\ About(t.selections, Matches \ Before[t.first])
        /\ Checked(t.selections)
        /\ t.tipster \in 1..tipsters'
        /\ run[j].tipster = 0 => tipsters' = tipsters + 1
        /\ run[j].tipster # 0 => tipsters' = tipsters
  BY CommitStores
<1>6. tipsters' \in Nat /\ tipsters' # 0 /\ tipsters <= tipsters'
  BY <1>2, <1>5
<1>7. /\ tips' \in Seq(Tip) /\ Len(tips') = Len(tips) + 1
      /\ \A i \in 1..Len(tips) : tips'[i] = tips[i]
      /\ tips'[Len(tips) + 1] = t
  BY <1>2, <1>5, AppendProperties
<1>8. Shapes'
  BY <1>1, <1>4, <1>6, <1>7 DEF AiInv, Shapes
<1>9. ASSUME NEW i \in Jobs PROVE (Held(run[i]) /\ run[i].tipster \in 0..tipsters)'
  <2>1. CASE i = j
    BY <1>3, <1>4, <1>6, <2>1
  <2>2. CASE i # j
    <3>1. Held(run[i]) /\ run[i].tipster \in 0..tipsters /\ run'[i] = run[i]
      BY <1>4, <2>2 DEF AiInv, RunsHold
    <3> QED
      BY <1>2, <1>6, <3>1
  <2> QED
    BY <2>1, <2>2
<1>10. Whole(t)'
  BY <1>5 DEF Whole
<1>11. ASSUME NEW i \in 1..Len(tips) PROVE Whole(tips[i])'
  <2>1. Whole(tips[i]) /\ tips'[i] = tips[i]
    BY <1>2, <1>7, LenProperties DEF AiInv, TipsHold
  <2> QED
    BY <1>2, <1>6, <2>1 DEF Whole
<1>12. TipsHold'
  <2>1. DOMAIN tips' = 1..(Len(tips) + 1) /\ Len(tips) \in Nat
    BY <1>2, <1>7, LenProperties
  <2>2. ASSUME NEW i \in DOMAIN tips' PROVE Whole(tips[i])'
    <3>1. i \in 1..Len(tips) \/ i = Len(tips) + 1
      BY <2>1
    <3> QED
      BY <1>7, <1>10, <1>11, <3>1
  <2> QED
    BY <2>2 DEF TipsHold
<1>13. Newcomers' \subseteq Newcomers /\ j \notin Newcomers'
  BY <1>3, <1>4 DEF Newcomers
<1>14. CrewBounded'
  <2>1. CASE run[j].tipster = 0
    <3>1. j \in Newcomers
      BY <1>1, <2>1 DEF Newcomers
    <3>2. Newcomers' \subseteq Newcomers \ {j}
      BY <1>13
    <3>3. /\ IsFiniteSet(Newcomers \ {j})
          /\ Cardinality(Newcomers \ {j}) = Cardinality(Newcomers) - 1
      BY <3>1, ActiveIsFinite, FS_RemoveElement
    <3>4. Cardinality(Newcomers') <= Cardinality(Newcomers) - 1 /\ Cardinality(Newcomers') \in Nat
      BY <3>2, <3>3, FS_Subset, FS_CardinalityType
    <3> QED
      BY <1>2, <1>5, <1>6, <2>1, <3>4, ActiveIsFinite, BoundsAssumption DEF AiInv, CrewBounded
  <2>2. CASE run[j].tipster # 0
    <3>1. Cardinality(Newcomers') <= Cardinality(Newcomers) /\ Cardinality(Newcomers') \in Nat
      BY <1>13, ActiveIsFinite, FS_Subset, FS_CardinalityType
    <3> QED
      BY <1>2, <1>5, <1>6, <2>2, <3>1, ActiveIsFinite, BoundsAssumption DEF AiInv, CrewBounded
  <2> QED
    BY <2>1, <2>2
<1> QED
  BY <1>8, <1>9, <1>12, <1>14 DEF AiInv, RunsHold

-----------------------------------------------------------------------------
(* The invariant *)

LEMMA InitAiInv == Init => AiInv
<1> SUFFICES ASSUME Init PROVE AiInv
  OBVIOUS
<1>1. <<>> \in Seq(STRING) /\ <<>> \in Seq(Tip) /\ DOMAIN <<>> = {}
  BY EmptySeq
<1>2. Idle \in Run /\ Held(Idle) /\ Idle.tipster = 0 /\ Idle.pc = "idle"
  BY <1>1, FreshHolds DEF Idle
<1> HIDE DEF Idle
<1>3. \A j \in Jobs : run[j] = Idle
  BY DEF Init
<1>4. Shapes
  BY <1>1, <1>2, BoundsAssumption DEF Init, Shapes
<1>5. RunsHold /\ TipsHold
  BY <1>1, <1>2, <1>3 DEF Init, RunsHold, TipsHold
<1>6. Active = {} /\ Newcomers = {}
  BY <1>2, <1>3 DEF Active, Newcomers
<1>7. CrewBounded
  BY <1>6, FS_EmptySet, BoundsAssumption DEF Init, CrewBounded
<1> QED
  BY <1>4, <1>5, <1>7 DEF AiInv

LEMMA StepAiInv == AiInv /\ [Next]_vars => AiInv'
<1> SUFFICES ASSUME AiInv, [Next]_vars PROVE AiInv'
  OBVIOUS
<1>1. ASSUME NEW j \in Jobs, Begin(j) PROVE AiInv'
  BY <1>1, BeginKeeps
<1>2. ASSUME NEW j \in Jobs, Step(j) PROVE AiInv'
  BY <1>2, PickKeeps, NoAnswerKeeps, AnswerKeeps, validateTipKeeps, LookKeeps, SaveKeeps,
     CommitKeeps DEF Step
<1>3. ASSUME NEW j \in Jobs, Refuse(j) PROVE AiInv'
  BY <1>3, RefuseKeeps
<1>4. ASSUME NEW m \in Matches, Kickoff(m) PROVE AiInv'
  <2>1. status' \in [Matches -> {"scheduled", "late", "begun"}] /\ enabled' \in BOOLEAN
    BY <1>4 DEF Kickoff, AiInv, Shapes
  <2> QED
    BY <1>4, <2>1, OutsideKeeps DEF Kickoff
<1>5. CASE Crash
  BY <1>5, CrashKeeps
<1>6. CASE SwitchOff
  <2>1. status' \in [Matches -> {"scheduled", "late", "begun"}] /\ enabled' \in BOOLEAN
    BY <1>6 DEF SwitchOff, AiInv, Shapes
  <2> QED
    BY <1>6, <2>1, OutsideKeeps DEF SwitchOff
<1>7. CASE UNCHANGED vars
  <2>1. status' \in [Matches -> {"scheduled", "late", "begun"}] /\ enabled' \in BOOLEAN
    BY <1>7 DEF vars, AiInv, Shapes
  <2> QED
    BY <1>7, <2>1, OutsideKeeps DEF vars
<1> QED
  BY <1>1, <1>2, <1>3, <1>4, <1>5, <1>6, <1>7 DEF Next

LEMMA AlwaysAiInv == Spec => []AiInv
BY InitAiInv, StepAiInv, PTL DEF Spec

-----------------------------------------------------------------------------
(* What the validation is good for *)

Verdicts == {"correct", "incorrect"}
Decides(v) == \A verdict \in Verdicts : \E score \in Score : evaluateSelection(v, score) = verdict

\* Two scores that a prediction tells apart decide it both ways.
LEMMA TwoScoresDecide ==
    ASSUME NEW v, NEW s \in Score, NEW t \in Score,
           evaluateSelection(v, s) = "correct", evaluateSelection(v, t) = "incorrect"
    PROVE  Decides(v)
BY DEF Decides, Verdicts

Final(h, a) == [home |-> h, away |-> a]

LEMMA FinalScores ==
    /\ \A h, a \in 0..4 :
         Final(h, a) \in Score /\ Final(h, a).home = h /\ Final(h, a).away = a
    /\ actualResult(Final(1, 0)) = "home"
    /\ actualResult(Final(0, 1)) = "away"
    /\ actualResult(Final(0, 0)) = "draw"
BY DEF Final, Score, actualResult

\* The result, and two results at once.
LEMMA ResultsDecide ==
    ASSUME NEW v, validatePredictionValue(v), v.type \in {"MATCH_RESULT", "DOUBLE_CHANCE"}
    PROVE  Decides(v)
<1>1. Final(1, 0) \in Score /\ Final(0, 1) \in Score /\ Final(0, 0) \in Score
  BY FinalScores
<1>2. CASE v.type = "MATCH_RESULT"
  <2>1. \A score \in Score :
          evaluateSelection(v, score) =
              IF v.value = actualResult(score) THEN "correct" ELSE "incorrect"
    BY <1>2 DEF evaluateSelection, evaluateMatchResult, Judge
  <2>2. v.value \in {"home", "away", "draw"}
    BY <1>2 DEF validatePredictionValue
  <2> QED
    BY <1>1, <2>1, <2>2, FinalScores, TwoScoresDecide
<1>3. CASE v.type = "DOUBLE_CHANCE"
  <2>1. \A score \in Score :
          evaluateSelection(v, score) =
              IF actualResult(score) \in Covers[v.value] THEN "correct" ELSE "incorrect"
    BY <1>3 DEF evaluateSelection, evaluateDoubleChance, Judge
  <2>2. v.value \in {"home_draw", "home_away", "away_draw"}
    BY <1>3 DEF validatePredictionValue
  <2>3. /\ Covers["home_draw"] = {"home", "draw"}
        /\ Covers["home_away"] = {"home", "away"}
        /\ Covers["away_draw"] = {"away", "draw"}
    BY DEF Covers
  <2> QED
    BY <1>1, <2>1, <2>2, <2>3, FinalScores, TwoScoresDecide
<1> QED
  BY <1>2, <1>3

\* Fewer than eight goals, or more, and goals of both teams.
LEMMA GoalsDecide ==
    ASSUME NEW v, validatePredictionValue(v), OfScore(v),
           v.type \in {"OVER_UNDER", "BOTH_TEAMS_TO_SCORE"}
    PROVE  Decides(v)
<1>1. /\ Final(4, 4) \in Score /\ Final(4, 4).home = 4 /\ Final(4, 4).away = 4
      /\ Final(0, 0) \in Score /\ Final(0, 0).home = 0 /\ Final(0, 0).away = 0
  BY FinalScores
<1>2. CASE v.type = "OVER_UNDER"
  <2>1. v.line \in 1..31 /\ v.value \in {"over", "under"}
    BY <1>2 DEF OfScore, validatePredictionValue
  <2>2. evaluateOverUnder(v, Final(4, 4)) = IF v.value = "over" THEN "correct" ELSE "incorrect"
    BY <1>1, <2>1 DEF evaluateOverUnder, Judge, NoLine
  <2>3. evaluateOverUnder(v, Final(0, 0)) = IF v.value = "over" THEN "incorrect" ELSE "correct"
    BY <1>1, <2>1 DEF evaluateOverUnder, Judge, NoLine
  <2>4. \A score \in Score : evaluateSelection(v, score) = evaluateOverUnder(v, score)
    BY <1>2 DEF evaluateSelection
  <2> QED
    BY <1>1, <2>2, <2>3, <2>4, TwoScoresDecide
<1>3. CASE v.type = "BOTH_TEAMS_TO_SCORE"
  <2>1. v.value \in {"btts_yes", "btts_no"}
    BY <1>3 DEF validatePredictionValue
  <2>2. evaluateBothTeamsToScore(v, Final(4, 4)) =
            IF v.value = "btts_yes" THEN "correct" ELSE "incorrect"
    BY <1>1, <2>1 DEF evaluateBothTeamsToScore, Judge
  <2>3. evaluateBothTeamsToScore(v, Final(0, 0)) =
            IF v.value = "btts_yes" THEN "incorrect" ELSE "correct"
    BY <1>1, <2>1 DEF evaluateBothTeamsToScore, Judge
  <2>4. \A score \in Score : evaluateSelection(v, score) = evaluateBothTeamsToScore(v, score)
    BY <1>3 DEF evaluateSelection
  <2> QED
    BY <1>1, <2>2, <2>3, <2>4, TwoScoresDecide
<1> QED
  BY <1>2, <1>3

\* The score itself.
LEMMA CorrectScoreDecides ==
    ASSUME NEW v, validatePredictionValue(v), v.type = "CORRECT_SCORE", v.value \in Score
    PROVE  Decides(v)
<1>1. Final(0, 0) \in Score /\ Final(1, 0) \in Score /\ Final(0, 0) # Final(1, 0)
  <2>1. Final(0, 0).home = 0 /\ Final(1, 0).home = 1
    BY FinalScores
  <2> QED
    BY <2>1, FinalScores
<1>2. v.line # NoLine
  BY DEF validatePredictionValue
<1>3. \A score \in Score :
        evaluateSelection(v, score) = IF v.value = score THEN "correct" ELSE "incorrect"
  BY <1>2 DEF evaluateSelection, evaluateCorrectScore, Judge
<1>4. PICK other \in Score : other # v.value
  BY <1>1
<1> QED
  BY <1>3, <1>4, TwoScoresDecide

\* A prediction of the score that is let through can come true and can fail, if it is
\* read as it was validated.
LEMMA ValidatedDecides ==
    ASSUME NEW v, validatePredictionValue(v), OfScore(v), ReadAsValidated(v)
    PROVE  CanWin(v)
<1> DEFINE w == AsRead(v)
<1>1. w.type = v.type /\ w.value = v.value /\ w.line = v.line
  BY DEF ReadAsValidated, Value
<1> HIDE DEF w
<1>2. validatePredictionValue(w) /\ OfScore(w)
  BY <1>1 DEF validatePredictionValue, OfScore
<1>3. Decides(w)
  BY <1>2, ResultsDecide, GoalsDecide, CorrectScoreDecides DEF OfScore
<1> QED
  BY <1>3 DEF w, CanWin, Decides, Verdicts

-----------------------------------------------------------------------------
(* The mean maturity of some matches.  The library defines a sum with the    *)
(* choice of a recursive function; that there is one is shown by counting,   *)
(* and its bounds by a smallest set that breaks them.                        *)

First(s) == CHOOSE x \in s : TRUE

\* What the library chooses: the sums of the scores of all the subsets.
Adds(f, data, S) ==
    f = [s \in SUBSET S |-> IF s = {} THEN 0
                            ELSE data[First(s)].maturity + f[s \ {First(s)}]]

LEMMA SumIsAdded ==
    ASSUME NEW data, NEW S
    PROVE  MapThenSumSet(LAMBDA m : data[m].maturity, S) = (CHOOSE f : Adds(f, data, S))[S]
BY DEF MapThenSumSet, MapThenFoldSet, Adds, First

\* As many pairs as the scores of the matches have points.
Points(data, s) == {p \in s \X (1..100) : p[2] <= data[p[1]].maturity}

LEMMA PointsAreFinite ==
    ASSUME NEW data, NEW s, IsFiniteSet(s)
    PROVE  IsFiniteSet(Points(data, s)) /\ Cardinality(Points(data, s)) \in Nat
<1>1. IsFiniteSet(1..100)
  <2>1. 1 \in Int /\ 100 \in Int
    OBVIOUS
  <2> QED
    BY <2>1, FS_Interval
<1>2. IsFiniteSet(s \X (1..100))
  BY <1>1, FS_Product
<1>3. Points(data, s) \subseteq s \X (1..100)
  BY DEF Points
<1> HIDE DEF Points
<1> QED
  BY <1>2, <1>3, FS_Subset, FS_CardinalityType

LEMMA PointsOfOne ==
    ASSUME NEW data, NEW x, data[x] \in MatchInfo
    PROVE  Cardinality(Points(data, {x})) = data[x].maturity
<1> DEFINE k == data[x].maturity
<1>1. k \in 0..100
  BY DEF MatchInfo
<1>2. Points(data, {x}) = {x} \X (1..k)
  BY <1>1 DEF Points
<1>3. IsFiniteSet(1..k) /\ Cardinality(1..k) = k
  <2> DEFINE a == 1
  <2>1. a \in Int /\ k \in Int
    BY <1>1
  <2> HIDE DEF a, k
  <2>2. IsFiniteSet(a..k) /\ Cardinality(a..k) = IF a > k THEN 0 ELSE k - a + 1
    BY <2>1, FS_Interval
  <2> QED
    BY <1>1, <2>2 DEF a
<1>4. IsFiniteSet({x}) /\ Cardinality({x}) = 1
  BY FS_Singleton
<1>5. Cardinality({x} \X (1..k)) = 1 * k
  BY <1>3, <1>4, FS_Product
<1> HIDE DEF k
<1>6. 1 * k = k
  BY <1>1
<1>7. Cardinality(Points(data, {x})) = k
  BY <1>2, <1>5, <1>6
<1> QED
  BY <1>7 DEF k

LEMMA PointsAdd ==
    ASSUME NEW data, NEW s, IsFiniteSet(s), NEW x \in s, data[x] \in MatchInfo
    PROVE  Cardinality(Points(data, s))
             = data[x].maturity + Cardinality(Points(data, s \ {x}))
<1> DEFINE one  == Points(data, {x})
           rest == Points(data, s \ {x})
<1>1. IsFiniteSet(s \ {x}) /\ IsFiniteSet({x})
  BY FS_RemoveElement, FS_Singleton
<1>2. /\ IsFiniteSet(one) /\ Cardinality(one) \in Nat
      /\ IsFiniteSet(rest) /\ Cardinality(rest) \in Nat
  BY <1>1, PointsAreFinite
<1>3. Points(data, s) = one \cup rest
  BY DEF Points
<1>4. one \cap rest = {}
  BY DEF Points
<1>5. Cardinality(one) = data[x].maturity
  BY PointsOfOne
<1> HIDE DEF one, rest
<1>6. Cardinality(one \cup rest) = Cardinality(one) + Cardinality(rest) - Cardinality(one \cap rest)
  BY <1>2, FS_Union
<1>7. Cardinality(one \cap rest) = 0
  <2>1. Cardinality({}) = 0
    BY FS_EmptySet
  <2> QED
    BY <1>4, <2>1, Zenon
<1>8. Cardinality(one \cup rest) = Cardinality(one) + Cardinality(rest)
  BY <1>2, <1>6, <1>7
<1> QED
  BY <1>3, <1>5, <1>8 DEF rest

\* The fold is defined: the chosen function adds.
LEMMA FoldAdds ==
    ASSUME NEW S, IsFiniteSet(S), NEW data, \A m \in S : data[m] \in MatchInfo
    PROVE  Adds(CHOOSE f : Adds(f, data, S), data, S)
<1> DEFINE f == [s \in SUBSET S |-> Cardinality(Points(data, s))]
           g == [s \in SUBSET S |-> IF s = {} THEN 0
                            ELSE data[First(s)].maturity + f[s \ {First(s)}]]
<1>1. ASSUME NEW s \in SUBSET S PROVE f[s] = g[s]
  <2>1. CASE s = {}
    <3>1. Points(data, s) = {}
      BY <2>1 DEF Points
    <3> QED
      BY <2>1, <3>1, FS_EmptySet
  <2>2. CASE s # {}
    <3>1. First(s) \in s
      BY <2>2 DEF First
    <3>2. IsFiniteSet(s) /\ data[First(s)] \in MatchInfo
      BY <3>1, FS_Subset
    <3>3. Cardinality(Points(data, s))
             = data[First(s)].maturity + Cardinality(Points(data, s \ {First(s)}))
      BY <3>1, <3>2, PointsAdd
    <3>4. s \ {First(s)} \in SUBSET S
      OBVIOUS
    <3> QED
      BY <2>2, <3>3, <3>4
  <2> QED
    BY <2>1, <2>2
<1>2. f = g
  BY <1>1
<1>3. Adds(f, data, S)
  BY <1>2 DEF Adds
<1> QED
  BY <1>3

LEMMA Distribute ==
    ASSUME NEW k \in Nat, NEW n \in Nat
    PROVE  k * (n + 1) = k * n + k /\ k * n \in Nat
OBVIOUS

\* Scores between two bounds have a sum between the bounds times their number.  (By
\* a smallest set for which it is false.)
LEMMA SumBetween ==
    ASSUME NEW S, IsFiniteSet(S), NEW data, \A m \in S : data[m] \in MatchInfo,
           NEW low \in Nat, NEW high \in Nat,
           \A m \in S : low <= data[m].maturity /\ data[m].maturity <= high,
           NEW f, Adds(f, data, S)
    PROVE  /\ f[S] \in Nat
           /\ low * Cardinality(S) <= f[S]
           /\ f[S] <= high * Cardinality(S)
<1> DEFINE Bounded(s) == /\ f[s] \in Nat
                         /\ low * Cardinality(s) <= f[s]
                         /\ f[s] <= high * Cardinality(s)
           bad == {s \in SUBSET S : ~ Bounded(s)}
<1>1. IsWellFoundedOn(StrictSubsetOrdering(S), SUBSET S)
  BY FS_StrictSubsetOrderingWellFounded, FS_FiniteSubsetsOfFinite
<1>2. ASSUME bad # {} PROVE FALSE
  <2>1. PICK s \in bad : \A t \in bad : ~ (<<t, s>> \in StrictSubsetOrdering(S))
    <3>1. bad \subseteq SUBSET S
      OBVIOUS
    <3> HIDE DEF bad
    <3> QED
      BY <1>1, <1>2, <3>1, WFMin
  <2>2. s \in SUBSET S /\ IsFiniteSet(s) /\ Cardinality(s) \in Nat
    BY FS_Subset, FS_CardinalityType
  <2>3. s # {}
    <3> SUFFICES ASSUME s = {} PROVE FALSE
      OBVIOUS
    <3>1. f[s] = 0
      BY <2>2 DEF Adds
    <3>2. Cardinality(s) = 0
      BY FS_EmptySet
    <3>3. Bounded(s)
      BY <3>1, <3>2
    <3> QED
      BY <3>3
  <2> DEFINE x == First(s)
             t == s \ {x}
  <2>4. x \in s
    BY <2>3 DEF First
  <2>5. t \in SUBSET S /\ t \subseteq s /\ t # s
    BY <2>2, <2>4
  <2>6. Bounded(t)
    <3>1. <<t, s>> \in StrictSubsetOrdering(S)
      BY <2>2, <2>5 DEF StrictSubsetOrdering
    <3> QED
      BY <2>1, <2>5, <3>1
  <2>7. f[s] = data[x].maturity + f[t]
    BY <2>2, <2>3 DEF Adds
  <2>8. Cardinality(s) = Cardinality(t) + 1 /\ Cardinality(t) \in Nat
    <3> HIDE DEF x, bad
    <3>1. IsFiniteSet(t) /\ Cardinality(t) = Cardinality(s) - 1
      BY <2>2, <2>4, FS_RemoveElement
    <3>2. Cardinality(t) \in Nat
      BY <3>1, FS_CardinalityType
    <3> HIDE DEF t
    <3> QED
      BY <2>2, <3>1, <3>2
  <2>9. data[x].maturity \in Nat /\ low <= data[x].maturity /\ data[x].maturity <= high
    BY <2>2, <2>4 DEF MatchInfo
  <2> DEFINE n == Cardinality(t)
             a == f[t]
             b == data[x].maturity
  <2>10. /\ a \in Nat /\ low * n <= a /\ a <= high * n
         /\ n \in Nat /\ b \in Nat /\ low <= b /\ b <= high
    BY <2>6, <2>8, <2>9
  <2>11. f[s] = b + a /\ Cardinality(s) = n + 1
    BY <2>7, <2>8
  <2> HIDE DEF n, a, b
  <2>12. low * (n + 1) = low * n + low /\ low * n \in Nat
    BY <2>10, Distribute
  <2>13. high * (n + 1) = high * n + high /\ high * n \in Nat
    BY <2>10, Distribute
  <2>14. low * (n + 1) <= b + a /\ b + a <= high * (n + 1) /\ b + a \in Nat
    BY <2>10, <2>12, <2>13
  <2>15. Bounded(s)
    BY <2>11, <2>14
  <2> QED
    BY <2>15
<1>3. S \notin bad
  BY <1>2
<1> QED
  BY <1>3

\* Rounding crosses no threshold.
LEMMA RoundedLow ==
    ASSUME NEW n \in Nat \ {0}, NEW x \in Nat, NEW k \in {0, 30, 70}, k * n <= x
    PROVE  (2 * x + n) \div (2 * n) >= k
OBVIOUS

LEMMA RoundedHigh ==
    ASSUME NEW n \in Nat \ {0}, NEW x \in Nat, NEW k \in {29, 69}, x <= k * n
    PROVE  (2 * x + n) \div (2 * n) <= k
OBVIOUS

LEMMA RoundedInt ==
    ASSUME NEW n \in Nat \ {0}, NEW x \in Nat
    PROVE  (2 * x + n) \div (2 * n) \in Nat
OBVIOUS
RankOf(level) == IF level = "low" THEN 1 ELSE IF level = "medium" THEN 2 ELSE 3

\* The mean of scores that are all above, or all below, a threshold is on the same
\* side of it.
LEMMA MeanBetween ==
    ASSUME NEW S, IsFiniteSet(S), S # {}, NEW data, \A m \in S : data[m] \in MatchInfo
    PROVE  /\ calculateAverageMaturity(data, S) \in Nat
           /\ \A k \in {30, 70} : (\A m \in S : k <= data[m].maturity)
                                   => k <= calculateAverageMaturity(data, S)
           /\ \A k \in {29, 69} : (\A m \in S : data[m].maturity <= k)
                                   => calculateAverageMaturity(data, S) <= k
<1> DEFINE f   == CHOOSE g : Adds(g, data, S)
           sum == f[S]
           n   == Cardinality(S)
           mean == (2 * sum + n) \div (2 * n)
<1>1. Adds(f, data, S)
  BY FoldAdds
<1>2. \A m \in S : data[m].maturity \in 0..100
  BY DEF MatchInfo
<1>3. n \in Nat \ {0}
  BY FS_CardinalityType, FS_EmptySet
<1> HIDE DEF f
<1>4. ASSUME NEW k \in Nat, \A m \in S : k <= data[m].maturity
      PROVE  k * n <= sum
  <2>1. 100 \in Nat /\ \A m \in S : k <= data[m].maturity /\ data[m].maturity <= 100
    BY <1>2, <1>4
  <2> QED
    BY <1>1, <1>4, <2>1, SumBetween
<1>5. ASSUME NEW k \in Nat, \A m \in S : data[m].maturity <= k
      PROVE  sum <= k * n /\ sum \in Nat
  <2>1. 0 \in Nat /\ \A m \in S : 0 <= data[m].maturity /\ data[m].maturity <= k
    BY <1>2, <1>5
  <2> QED
    BY <1>1, <1>5, <2>1, SumBetween
<1>6. sum \in Nat
  <2>1. 100 \in Nat /\ \A m \in S : data[m].maturity <= 100
    BY <1>2
  <2> QED
    BY <1>5, <2>1
<1>7. calculateAverageMaturity(data, S) = mean
  BY SumIsAdded DEF calculateAverageMaturity, f
<1> HIDE DEF sum, n
<1>8. mean \in Nat
  BY <1>3, <1>6, RoundedInt
<1>9. ASSUME NEW k \in {30, 70}, \A m \in S : k <= data[m].maturity PROVE k <= mean
  <2>1. k * n <= sum
    BY <1>4, <1>9
  <2> QED
    BY <1>3, <1>6, <2>1, RoundedLow
<1>10. ASSUME NEW k \in {29, 69}, \A m \in S : data[m].maturity <= k PROVE mean <= k
  <2>1. sum <= k * n
    BY <1>5, <1>10
  <2> QED
    BY <1>3, <1>6, <2>1, RoundedHigh
<1> HIDE DEF mean
<1> QED
  BY <1>7, <1>8, <1>9, <1>10

\* Its level is between the levels of the scores.
LEMMA LevelBetween ==
    ASSUME NEW S, IsFiniteSet(S), S # {}, NEW data, \A m \in S : data[m] \in MatchInfo
    PROVE  LET mean == generateSystemPrompt(calculateAverageMaturity(data, S))
           IN  /\ \E m \in S : RankOf(determineDataQuality(data[m].maturity)) <= RankOf(mean)
               /\ \E m \in S : RankOf(mean) <= RankOf(determineDataQuality(data[m].maturity))
<1> DEFINE mean == calculateAverageMaturity(data, S)
           R(x) == RankOf(determineDataQuality(x))
<1>1. \A m \in S : data[m].maturity \in 0..100
  BY DEF MatchInfo
<1>2. \A x \in Nat : R(x) = IF x < 30 THEN 1 ELSE IF x < 70 THEN 2 ELSE 3
  BY DEF RankOf, determineDataQuality
<1>3. RankOf(generateSystemPrompt(mean)) = R(mean)
  BY DEF generateSystemPrompt, determineDataQuality
<1>4. /\ mean \in Nat
      /\ \A k \in {30, 70} : (\A m \in S : k <= data[m].maturity) => k <= mean
      /\ \A k \in {29, 69} : (\A m \in S : data[m].maturity <= k) => mean <= k
  BY MeanBetween
<1> HIDE DEF mean, R
<1>5. \E m \in S : R(data[m].maturity) <= R(mean)
  <2>1. CASE mean < 30
    <3>1. PICK m \in S : ~ (30 <= data[m].maturity)
      BY <1>4, <2>1
    <3> QED
      BY <1>1, <1>2, <1>4, <2>1, <3>1
  <2>2. CASE 30 <= mean /\ mean < 70
    <3>1. PICK m \in S : ~ (70 <= data[m].maturity)
      BY <1>4, <2>2
    <3> QED
      BY <1>1, <1>2, <1>4, <2>2, <3>1
  <2>3. CASE 70 <= mean
    <3>1. PICK m \in S : TRUE
      OBVIOUS
    <3> QED
      BY <1>1, <1>2, <1>4, <2>3, <3>1
  <2> QED
    BY <1>4, <2>1, <2>2, <2>3
<1>6. \E m \in S : R(mean) <= R(data[m].maturity)
  <2>1. CASE mean < 30
    <3>1. PICK m \in S : TRUE
      OBVIOUS
    <3> QED
      BY <1>1, <1>2, <1>4, <2>1, <3>1
  <2>2. CASE 30 <= mean /\ mean < 70
    <3>1. PICK m \in S : ~ (data[m].maturity <= 29)
      BY <1>4, <2>2
    <3> QED
      BY <1>1, <1>2, <1>4, <2>2, <3>1
  <2>3. CASE 70 <= mean
    <3>1. PICK m \in S : ~ (data[m].maturity <= 69)
      BY <1>4, <2>3
    <3> QED
      BY <1>1, <1>2, <1>4, <2>3, <3>1
  <2> QED
    BY <1>4, <2>1, <2>2, <2>3
<1> QED
  BY <1>3, <1>5, <1>6 DEF mean, R

\* Of ranks there is a least and a greatest.
LEMMA RanksBound ==
    ASSUME NEW ranks \in SUBSET (1..3), NEW r \in 1..3,
           \E low \in ranks : low <= r, \E high \in ranks : r <= high
    PROVE  r \in Min(ranks)..Max(ranks)
<1>1. \E low \in ranks : \A y \in ranks : low <= y
  OBVIOUS
<1>2. \E high \in ranks : \A y \in ranks : high >= y
  OBVIOUS
<1>3. Min(ranks) \in ranks /\ \A y \in ranks : Min(ranks) <= y
  BY <1>1 DEF Min
<1>4. Max(ranks) \in ranks /\ \A y \in ranks : Max(ranks) >= y
  BY <1>2 DEF Max
<1> DEFINE low  == Min(ranks)
           high == Max(ranks)
<1>5. low \in ranks /\ \A y \in ranks : low <= y
  BY <1>3
<1>6. high \in ranks /\ \A y \in ranks : high >= y
  BY <1>4
<1> HIDE DEF low, high
<1>7. low \in 1..3 /\ high \in 1..3 /\ low <= r /\ r <= high
  BY <1>5, <1>6
<1>8. r \in low..high
  BY <1>7
<1> QED
  BY <1>8 DEF low, high

\* The prompts agree, whatever the scores.
LEMMA PromptsAgree ==
    ASSUME NEW S, IsFiniteSet(S), S # {}, NEW data, \A m \in S : data[m] \in MatchInfo
    PROVE  LevelsAgree(data, S)
<1> DEFINE Rank  == [l \in Levels |-> IF l = "low" THEN 1 ELSE IF l = "medium" THEN 2 ELSE 3]
           ranks == {Rank[buildOptimizedContext(data[m]).quality] : m \in S}
           mean  == calculateAverageMaturity(data, S)
           level == Prompt(data, S).system
<1>1. level = generateSystemPrompt(mean) /\ Prompt(data, S).note = getMaturityNote(mean)
  BY DEF Prompt, combineContexts
<1>2. Prompt(data, S).note = level
  BY <1>1 DEF generateSystemPrompt, getMaturityNote
<1>3. combineContexts(data, S).confidence = level
  BY <1>1 DEF combineContexts, determineMaturityConfidence, generateSystemPrompt
<1>4. \A m \in S : Rank[buildOptimizedContext(data[m]).quality]
                     = RankOf(determineDataQuality(data[m].maturity))
  BY DEF buildOptimizedContext, determineDataQuality, RankOf, Levels
<1>5. Rank[level] = RankOf(generateSystemPrompt(mean)) /\ Rank[level] \in 1..3
  BY <1>1 DEF generateSystemPrompt, RankOf, Levels
<1>6. ranks \in SUBSET (1..3)
  <2>1. \A x : RankOf(determineDataQuality(x)) \in 1..3
    BY DEF RankOf
  <2> HIDE DEF Rank
  <2> QED
    BY <1>4, <2>1
<1>7. /\ \E m \in S : RankOf(determineDataQuality(data[m].maturity)) <= Rank[level]
      /\ \E m \in S : Rank[level] <= RankOf(determineDataQuality(data[m].maturity))
  BY <1>5, LevelBetween
<1> HIDE DEF Rank, level
<1>8. (\E low \in ranks : low <= Rank[level]) /\ (\E high \in ranks : Rank[level] <= high)
  BY <1>4, <1>7
<1> HIDE DEF ranks
<1>9. Rank[level] \in Min(ranks)..Max(ranks)
  BY <1>5, <1>6, <1>8, RanksBound
<1> QED
  BY <1>2, <1>3, <1>9 DEF LevelsAgree, Rank, ranks, level

-----------------------------------------------------------------------------
(* Theorems *)

\* The retries of the language model, the rows of a transaction and the tipsters are
\* counted right: no run calls the model a fourth time, none writes a row its answer
\* has no selection for, every tip is of a tipster that exists.
THEOREM AiTypeCorrect == Spec => []TypeOK
<1>1. AiInv => TypeOK
  <2> SUFFICES ASSUME AiInv PROVE TypeOK
    OBVIOUS
  <2>1. \A j \in Jobs :
          /\ run[j].pc \in {"idle", "pick", "ask", "check", "look", "save", "ended", "crashed"}
          /\ run[j].attempt \in 0..maxRetries
          /\ run[j].tipster \in 0..tipsters
          /\ run[j].saved \in 0..(1 + Len(run[j].answer))
    BY DEF AiInv, Shapes, RunsHold, Held, Run, Places, Working, Asking
  <2>2. tipsters \in 0..MaxTips
    BY ActiveIsFinite, BoundsAssumption DEF AiInv, Shapes, CrewBounded
  <2>3. \A i \in DOMAIN tips : tips[i].tipster \in 1..tipsters
    BY DEF AiInv, TipsHold, Whole
  <2> QED
    BY <2>1, <2>2, <2>3 DEF AiInv, Shapes, TypeOK
<1> QED
  BY <1>1, AlwaysAiInv, PTL

\* A tip users can see has selections, all on matches the language model was asked
\* about and none before the date of the tip, whatever was retried, refused or cut
\* off by a crash (createTipFromParsed).
THEOREM AiTipsAreWhole == Spec => []WholeTips
<1>1. AiInv => WholeTips
  BY DatesAssumption DEF AiInv, TipsHold, Whole, About, Checked, WholeTips
<1> QED
  BY <1>1, AlwaysAiInv, PTL

\* No prediction of the score in a tip of the platform whose text is read as it was
\* validated is lost, or won, before the match is played (validatePredictionValue
\* against evaluateSelection).
THEOREM AiTipsCanWin == Spec => []TipsCanWin
<1>1. AiInv => TipsCanWin
  <2> SUFFICES ASSUME AiInv, NEW i \in DOMAIN tips, NEW k \in DOMAIN tips[i].selections,
                      OfScore(tips[i].selections[k].value),
                      ReadAsValidated(tips[i].selections[k].value)
               PROVE  CanWin(tips[i].selections[k].value)
    BY DEF TipsCanWin
  <2>1. validatePredictionValue(tips[i].selections[k].value)
    BY DEF AiInv, TipsHold, Whole, Checked
  <2> QED
    BY <2>1, ValidatedDecides
<1> QED
  BY <1>1, AlwaysAiInv, PTL

\* While the language model is asked, the system prompt, the note and the confidence
\* speak of one level of data, between the least and the greatest level of the
\* matches, whatever the scores and however many matches there are
\* (calculateAverageMaturity).
THEOREM AiLevelsCohere == Spec => []LevelsCohere
<1>1. AiInv => LevelsCohere
  <2> SUFFICES ASSUME AiInv, NEW j \in Jobs, run[j].pc = "ask"
               PROVE  LevelsAgree(Data, run[j].given)
    BY DEF LevelsCohere
  <2> DEFINE given == run[j].given
  <2>1. given \subseteq Matches /\ given # {}
    BY DEF AiInv, Shapes, RunsHold, Held, Run, Asking
  <2>2. IsFiniteSet(given) /\ \A m \in given : Data[m] \in MatchInfo
    BY <2>1, DataAssumption, FS_Subset
  <2> HIDE DEF given
  <2>3. LevelsAgree(Data, given)
    BY <2>1, <2>2, PromptsAgree
  <2> QED
    BY <2>3 DEF given
<1> QED
  BY <1>1, AlwaysAiInv, PTL
=============================================================================
