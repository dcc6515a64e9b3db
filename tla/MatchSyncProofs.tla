-------------------------- MODULE MatchSyncProofs --------------------------
(***************************************************************************)
(* Proofs about MatchSync, for all fixtures, clubs, leagues, intervals and *)
(* faults: type correctness, that the teams table agrees with the matches, *)
(* that a finished match stays finished, and that the odds stored with it  *)
(* are those of the bookmaker, for markets of any length.                  *)
(***************************************************************************)
EXTENDS MatchSync, SequenceTheorems, FiniteSetTheorems, TLAPS

(***************************************************************************)
(* The inductive invariant.  None of the three holds by itself: a run that *)
(* saves a match must have listed it and found or written both its teams,  *)
(* and nobody may have closed the match meanwhile.                         *)
(***************************************************************************)
InTx == {"home", "away", "save", "commit"}

HomeKey(f) == TeamKey[HomeName[f]]
AwayKey(f) == TeamKey[AwayName[f]]

\* What a run with the record x sees of a club.
Sees(x, k) == \E t \in team \cup x.teams : t.key = k

\* What a run holds in memory is of matches that are still ahead.
Ahead(x) == \A e \in x.entries \cup x.entry : ~feed[e.fixture].over

\* A transaction is about one match, and only a transaction has written teams.
OneMatch(x) ==
    /\ x.pc \in InTx => \E e \in Entry : x.entry = {e}
    /\ x.pc \notin InTx => x.teams = {}
    /\ x.op # "none" => x.pc \in {"home", "away"}

\* The teams it has written are those of the match, one for each.
OwnTeams(x) ==
    /\ \A t, u \in x.teams : t.key = u.key => t = u
    /\ \A t \in x.teams : t.key = TeamKey[t.name]
    /\ \A e \in x.entry, t \in x.teams :
           t.key \in {HomeKey(e.fixture), AwayKey(e.fixture)}

\* It comes to save the match with both teams at hand.
TeamsFound(x) ==
    \A e \in x.entry :
        /\ x.pc \in {"away", "save", "commit"} => Sees(x, HomeKey(e.fixture))
        /\ x.pc \in {"save", "commit"} => Sees(x, AwayKey(e.fixture))

RowReady(x) ==
    x.pc = "commit" =>
        /\ x.row \in Match
        /\ x.row.status = "scheduled"
        /\ \A e \in x.entry : /\ x.row.home = HomeKey(e.fixture)
                              /\ x.row.away = AwayKey(e.fixture)

RunOK(x) == Ahead(x) /\ OneMatch(x) /\ OwnTeams(x) /\ TeamsFound(x) /\ RowReady(x)
RunsOK   == \A r \in Runs : RunOK(run[r])

StoredOK ==
    \A f \in Fixtures :
        /\ stored[f] # NoMatch => /\ stored[f].home = HomeKey(f)
                                  /\ stored[f].away = AwayKey(f)
        /\ stored[f].status = "finished" => feed[f].over

Inv == TypeOK /\ TeamsAgree /\ StoredOK /\ RunsOK

-----------------------------------------------------------------------------
(* Records *)

LEMMA NoMatchType == NoMatch \notin Match /\ NoMatch.status = "none"
BY DEF NoMatch, Match

LEMMA KeyType ==
    ASSUME NEW f \in Fixtures
    PROVE  /\ HomeName[f] \in Names /\ HomeKey(f) \in Keys
           /\ AwayName[f] \in Names /\ AwayKey(f) \in Keys
BY DEF Names, Keys, HomeKey, AwayKey

\* A run that has not begun.
LEMMA NoRunOK == NoRun \in RunRow /\ RunOK(NoRun) /\ RunOK(NoRun)'
<1>1. <<>> \in Seq({LeagueOf[f] : f \in Fixtures})
  OBVIOUS
<1>2. NoRun \in RunRow
  BY <1>1 DEF NoRun, RunRow
<1>3. /\ NoRun.pc = "idle" /\ NoRun.entries = {} /\ NoRun.entry = {}
      /\ NoRun.teams = {} /\ NoRun.op = "none"
  BY DEF NoRun
<1> QED
  BY <1>2, <1>3 DEF RunOK, Ahead, OneMatch, OwnTeams, TeamsFound, RowReady, InTx

\* A run between two matches.
LEMMA FreeOK ==
    ASSUME Inv, NEW r \in Runs
    PROVE  Free(r) \in RunRow /\ RunOK(Free(r)) /\ Free(r).entries = run[r].entries
<1>1. run[r] \in RunRow /\ RunOK(run[r])
  BY DEF Inv, TypeOK, RunsOK
<1>2. Free(r) \in RunRow
  BY <1>1 DEF Free, RunRow
<1>3. /\ Free(r).pc = "between" /\ Free(r).entries = run[r].entries
      /\ Free(r).entry = {} /\ Free(r).teams = {} /\ Free(r).op = "none"
  BY <1>1 DEF Free, RunRow
<1> QED
  BY <1>1, <1>2, <1>3
     DEF RunOK, Ahead, OneMatch, OwnTeams, TeamsFound, RowReady, InTx

\* The match a transaction is about.
LEMMA FixtureType ==
    ASSUME Inv, NEW r \in Runs, run[r].pc \in InTx
    PROVE  \E e \in Entry : /\ run[r].entry = {e} /\ FixtureOf(r) = e.fixture
                            /\ e.fixture \in Fixtures
                            /\ (CHOOSE d \in run[r].entry : TRUE) = e
<1>1. PICK e \in Entry : run[r].entry = {e}
  BY DEF Inv, RunsOK, RunOK, OneMatch
<1>2. (CHOOSE d \in run[r].entry : TRUE) = e
  BY <1>1
<1> QED
  BY <1>1, <1>2 DEF FixtureOf, Entry

\* Rows with a transaction's own rows laid over them: no club is lost, and what is
\* there came from one or the other.
LEMMA OverlaidKeys ==
    ASSUME NEW rows, NEW own
    PROVE  /\ \A t \in rows \cup own : \E u \in Overlaid(rows, own) : u.key = t.key
           /\ Overlaid(rows, own) \subseteq rows \cup own
BY DEF Overlaid

LEMMA OverlaidUnique ==
    ASSUME NEW rows, NEW own,
           \A t, u \in rows : t.key = u.key => t = u,
           \A t, u \in own : t.key = u.key => t = u
    PROVE  \A t, u \in Overlaid(rows, own) : t.key = u.key => t = u
BY DEF Overlaid

\* What is left of the leagues when one is done.
LEMMA LeaguesType ==
    ASSUME NEW r \in Runs, run[r] \in RunRow, run[r].leagues # <<>>
    PROVE  Tail(run[r].leagues) \in Seq({LeagueOf[f] : f \in Fixtures})
<1>1. run[r].leagues \in Seq({LeagueOf[f] : f \in Fixtures})
  BY DEF RunRow
<1> QED
  BY <1>1, HeadTailProperties

\* A fault is one of those the bound allows.
LEMMA FaultsType ==
    ASSUME TypeOK, faults < MaxFaults, faults' = faults + 1
    PROVE  faults' \in 0..MaxFaults
BY RunsAssumption DEF TypeOK

-----------------------------------------------------------------------------
(* What the steps have in common *)

\* A step of one run that leaves the tables alone.
LEMMA MoveOK ==
    ASSUME Inv, NEW r \in Runs, NEW x \in RunRow, RunOK(x),
           run' = [run EXCEPT ![r] = x],
           UNCHANGED <<feed, stored, team, solo>>, faults' \in 0..MaxFaults
    PROVE  Inv'
<1>1. run' \in [Runs -> RunRow] /\ \A s \in Runs : run'[s] = IF s = r THEN x ELSE run[s]
  BY DEF Inv, TypeOK
<1>2. TypeOK'
  BY <1>1 DEF Inv, TypeOK
<1>3. TeamsAgree' /\ StoredOK'
  BY DEF Inv, TeamsAgree, StoredOK
<1>4. ASSUME NEW s \in Runs PROVE RunOK(run[s])'
  <2>1. RunOK(run'[s])
    BY <1>1 DEF Inv, RunsOK
  <2> QED
    BY <2>1 DEF RunOK, Ahead, OneMatch, OwnTeams, TeamsFound, Sees, RowReady
<1> QED
  BY <1>2, <1>3, <1>4 DEF Inv, RunsOK

LEMMA FreesOK ==
    ASSUME Inv, NEW r \in Runs, run' = [run EXCEPT ![r] = Free(r)],
           UNCHANGED <<feed, stored, team, solo>>, faults' \in 0..MaxFaults
    PROVE  Inv'
<1> DEFINE x == Free(r)
<1>1. x \in RunRow /\ RunOK(x) /\ run' = [run EXCEPT ![r] = x]
  BY FreeOK
<1> HIDE DEF x
<1> QED
  BY <1>1, MoveOK

-----------------------------------------------------------------------------
(* Inductive steps *)

LEMMA InitInv == Init => Inv
<1> SUFFICES ASSUME Init PROVE Inv
  OBVIOUS
<1>1. TypeOK
  BY NoRunOK, RunsAssumption DEF Init, TypeOK, Versions
<1>2. TeamsAgree /\ StoredOK
  BY NoMatchType DEF Init, TeamsAgree, StoredOK
<1>3. RunsOK
  BY NoRunOK DEF Init, RunsOK
<1> QED
  BY <1>1, <1>2, <1>3 DEF Inv

\* The beginning and the end of a run, its leagues and its failures.
LEMMA RunSteps ==
    ASSUME Inv, NEW r \in Runs,
           \/ StartRun(r) \/ FetchLeague(r) \/ FailLeague(r) \/ EndRun(r)
           \/ BreakDeadlock(r) \/ FailMatch(r)
    PROVE  Inv'
<1>t. run[r] \in RunRow /\ RunOK(run[r]) /\ TypeOK /\ faults \in 0..MaxFaults
  BY DEF Inv, TypeOK, RunsOK
<1>1. CASE StartRun(r)
  <2> DEFINE x == [run[r] EXCEPT !.pc = "between", !.leagues = Leagues]
  <2>1. x \in RunRow
    BY <1>t, RunsAssumption DEF RunRow
  <2>2. /\ x.pc = "between" /\ x.entries = run[r].entries /\ x.entry = run[r].entry
        /\ x.teams = run[r].teams /\ x.op = run[r].op
    BY <1>t DEF RunRow
  <2>3. RunOK(x)
    BY <1>1, <1>t, <2>2
       DEF StartRun, RunOK, Ahead, OneMatch, OwnTeams, TeamsFound, RowReady, InTx
  <2>4. run' = [run EXCEPT ![r] = x]
    BY <1>1, <1>t DEF StartRun, TypeOK
  <2> HIDE DEF x
  <2> QED
    BY <1>1, <1>t, <2>1, <2>3, <2>4, MoveOK DEF StartRun
<1>2. CASE FetchLeague(r)
  <2> DEFINE new == {[fixture |-> f, version |-> feed[f].version,
                      priced |-> feed[f].priced] :
                         f \in Listed(r, Head(run[r].leagues))}
             x == [run[r] EXCEPT !.leagues = Tail(@), !.entries = new]
  <2>1. new \subseteq Entry /\ \A e \in new : ~feed[e.fixture].over
    BY <1>t, RunsAssumption DEF Listed, Entry, TypeOK
  <2>2. run' = [run EXCEPT ![r] = x]
    BY <1>2, <1>t DEF FetchLeague, TypeOK, RunRow
  <2> HIDE DEF new
  <2>3. x \in RunRow
    BY <1>2, <1>t, <2>1, LeaguesType DEF FetchLeague, RunRow
  <2>4. /\ x.pc = "between" /\ x.entries = new /\ x.entry = run[r].entry
        /\ x.teams = run[r].teams /\ x.op = run[r].op
    BY <1>2, <1>t DEF FetchLeague, RunRow
  <2>5. RunOK(x)
    BY <1>2, <1>t, <2>1, <2>4
       DEF FetchLeague, RunOK, Ahead, OneMatch, OwnTeams, TeamsFound, RowReady, InTx
  <2> HIDE DEF x
  <2> QED
    BY <1>2, <1>t, <2>2, <2>3, <2>5, MoveOK DEF FetchLeague
<1>3. CASE FailLeague(r)
  <2> DEFINE x == [run[r] EXCEPT !.leagues = Tail(@)]
  <2>1. x \in RunRow
    BY <1>3, <1>t, LeaguesType DEF FailLeague, RunRow
  <2>2. /\ x.pc = "between" /\ x.entries = run[r].entries /\ x.entry = run[r].entry
        /\ x.teams = run[r].teams /\ x.op = run[r].op
    BY <1>3, <1>t DEF FailLeague, RunRow
  <2>3. RunOK(x)
    BY <1>3, <1>t, <2>2
       DEF FailLeague, RunOK, Ahead, OneMatch, OwnTeams, TeamsFound, RowReady, InTx
  <2>4. run' = [run EXCEPT ![r] = x]
    BY <1>3, <1>t DEF FailLeague, TypeOK
  <2> HIDE DEF x
  <2> QED
    BY <1>3, <1>t, <2>1, <2>3, <2>4, MoveOK, FaultsType DEF FailLeague
<1>4. CASE EndRun(r)
  BY <1>4, <1>t, NoRunOK, MoveOK DEF EndRun
<1>5. CASE BreakDeadlock(r)
  BY <1>5, <1>t, FreesOK DEF BreakDeadlock
<1>6. CASE FailMatch(r)
  BY <1>6, <1>t, FreesOK, FaultsType DEF FailMatch
<1> QED
  BY <1>1, <1>2, <1>3, <1>4, <1>5, <1>6

\* A transaction begins and looks for the teams of its match.
LEMMA LookSteps ==
    ASSUME Inv, NEW r \in Runs, TakeEntry(r) \/ LookTeam(r)
    PROVE  Inv'
<1>t. run[r] \in RunRow /\ RunOK(run[r]) /\ TypeOK /\ faults \in 0..MaxFaults
  BY DEF Inv, TypeOK, RunsOK
<1>1. CASE TakeEntry(r)
  <2>1. PICK e \in run[r].entries :
            run' = [run EXCEPT ![r].entries = @ \ {e}, ![r].pc = "home",
                               ![r].entry = {e}, ![r].found = stored[e.fixture]]
    BY <1>1 DEF TakeEntry
  <2>2. e \in Entry /\ e.fixture \in Fixtures /\ stored[e.fixture] \in Match \cup {NoMatch}
    BY <1>t DEF RunRow, Entry, TypeOK
  <2> DEFINE x == [run[r] EXCEPT !.entries = @ \ {e}, !.pc = "home", !.entry = {e},
                                 !.found = stored[e.fixture]]
  <2>3. x \in RunRow
    BY <1>t, <2>2 DEF RunRow
  <2>4. /\ x.pc = "home" /\ x.entries = run[r].entries \ {e} /\ x.entry = {e}
        /\ x.teams = run[r].teams /\ x.op = run[r].op
    BY <1>t DEF RunRow
  <2>5. x.teams = {} /\ x.op = "none"
    BY <1>1, <1>t, <2>4 DEF TakeEntry, RunOK, OneMatch, InTx
  <2>6. RunOK(x)
    BY <1>t, <2>1, <2>2, <2>4, <2>5
       DEF RunOK, Ahead, OneMatch, OwnTeams, TeamsFound, RowReady, InTx
  <2>7. run' = [run EXCEPT ![r] = x]
    BY <1>t, <2>1 DEF TypeOK, RunRow
  <2> HIDE DEF x
  <2> QED
    BY <1>1, <1>t, <2>3, <2>6, <2>7, MoveOK DEF TakeEntry
<1>2. CASE LookTeam(r)
  <2>1. PICK e \in Entry : /\ run[r].entry = {e} /\ FixtureOf(r) = e.fixture
                           /\ e.fixture \in Fixtures
    BY <1>2, FixtureType DEF LookTeam, InTx
  <2> DEFINE rows == Overlaid(team, run[r].teams)
             there == \E t \in rows : t.name = TeamName(r)
             x == IF there
                  THEN [run[r] EXCEPT !.pc = After(@)]
                  ELSE [run[r] EXCEPT !.op = IF \E t \in rows : t.key = TeamKey[TeamName(r)]
                                             THEN "rename" ELSE "insert"]
  <2>2. run' = [run EXCEPT ![r] = x]
    BY <1>2, <1>t DEF LookTeam, TypeOK
  <2>3. x \in RunRow
    BY <1>2, <1>t DEF LookTeam, RunRow, After
  <2>4. /\ x.entries = run[r].entries /\ x.entry = run[r].entry
        /\ x.teams = run[r].teams
        /\ x.pc = IF there THEN After(run[r].pc) ELSE run[r].pc
        /\ there => x.op = "none"
    BY <1>2, <1>t DEF LookTeam, RunRow
  <2>5. there => Sees(run[r], TeamKey[TeamName(r)])
    <3> HAVE there
    <3>1. PICK t \in rows : t.name = TeamName(r)
      OBVIOUS
    <3>2. t \in team \cup run[r].teams
      BY <3>1, OverlaidKeys
    <3>3. t.key = TeamKey[t.name]
      BY <1>t, <3>2 DEF Inv, TeamsAgree, RunOK, OwnTeams
    <3> QED
      BY <3>1, <3>2, <3>3 DEF Sees
  <2> HIDE DEF there
  <2> HIDE DEF x
  <2>6. RunOK(x)
    <3>1. Ahead(x) /\ OneMatch(x) /\ OwnTeams(x) /\ RowReady(x)
      BY <1>2, <1>t, <2>1, <2>4
         DEF LookTeam, RunOK, Ahead, OneMatch, OwnTeams, RowReady, InTx, After
    <3>2. TeamsFound(x)
      BY <1>2, <1>t, <2>1, <2>4, <2>5
         DEF LookTeam, RunOK, TeamsFound, Sees, After, TeamName, HomeKey, AwayKey
    <3> QED
      BY <3>1, <3>2 DEF RunOK
  <2> QED
    BY <1>2, <1>t, <2>2, <2>3, <2>6, MoveOK DEF LookTeam
<1> QED
  BY <1>1, <1>2

\* A transaction writes a team, or the match.
LEMMA WriteSteps ==
    ASSUME Inv, NEW r \in Runs, WriteTeam(r) \/ SaveMatch(r)
    PROVE  Inv'
<1>t. run[r] \in RunRow /\ RunOK(run[r]) /\ TypeOK /\ faults \in 0..MaxFaults
  BY DEF Inv, TypeOK, RunsOK
<1>1. CASE WriteTeam(r)
  <2>1. run[r].pc \in {"home", "away"}
    BY <1>1, <1>t DEF WriteTeam, RunOK, OneMatch
  <2>2. PICK e \in Entry : /\ run[r].entry = {e} /\ FixtureOf(r) = e.fixture
                           /\ e.fixture \in Fixtures
    BY <2>1, FixtureType DEF InTx
  <2> DEFINE new == [key |-> TeamKey[TeamName(r)], name |-> TeamName(r)]
             own == Overlaid(run[r].teams, {new})
             x == [run[r] EXCEPT !.op = "none", !.pc = After(run[r].pc), !.teams = own]
  <2>3. new \in Team /\ new.key = TeamKey[new.name]
        /\ new.key = IF run[r].pc = "home" THEN HomeKey(e.fixture) ELSE AwayKey(e.fixture)
    BY <2>2, KeyType DEF Team, TeamName, HomeKey, AwayKey
  <2>4. CASE run' = [run EXCEPT ![r] = Free(r)]
    BY <1>1, <1>t, <2>4, FreesOK DEF WriteTeam
  <2>5. CASE run' = [run EXCEPT ![r] = x]
    <3>1. /\ \A t, u \in own : t.key = u.key => t = u
          /\ own \subseteq run[r].teams \cup {new}
          /\ \A t \in run[r].teams \cup {new} : \E u \in own : u.key = t.key
      <4>1. \A t, u \in run[r].teams : t.key = u.key => t = u
        BY <1>t DEF RunOK, OwnTeams
      <4>2. \A t, u \in {new} : t.key = u.key => t = u
        OBVIOUS
      <4> HIDE DEF new
      <4>3. \A t, u \in own : t.key = u.key => t = u
        BY <4>1, <4>2, OverlaidUnique
      <4>4. /\ own \subseteq run[r].teams \cup {new}
            /\ \A t \in run[r].teams \cup {new} : \E u \in own : u.key = t.key
        BY OverlaidKeys
      <4> QED
        BY <4>3, <4>4
    <3> HIDE DEF own
    <3>2. own \subseteq Team
      BY <1>t, <2>3, <3>1 DEF RunRow
    <3>3. /\ x \in RunRow
          /\ x.entries = run[r].entries /\ x.entry = run[r].entry
          /\ x.teams = own /\ x.op = "none" /\ x.pc = After(run[r].pc)
      BY <1>t, <2>1, <3>2 DEF RunRow, After
    <3> HIDE DEF new
    <3> HIDE DEF x
    <3>4. Ahead(x) /\ OneMatch(x) /\ RowReady(x)
      BY <1>t, <2>1, <2>2, <3>3 DEF RunOK, Ahead, OneMatch, RowReady, InTx, After
    <3>5. OwnTeams(x)
      BY <1>t, <2>2, <2>3, <3>1, <3>3 DEF RunOK, OwnTeams
    <3>6. \A k : Sees(run[r], k) \/ k = new.key => Sees(x, k)
      BY <3>1, <3>3 DEF Sees
    <3>7. TeamsFound(x)
      BY <1>t, <2>1, <2>2, <2>3, <3>3, <3>6 DEF RunOK, TeamsFound, After
    <3> QED
      BY <1>1, <1>t, <2>5, <3>3, <3>4, <3>5, <3>7, MoveOK DEF WriteTeam, RunOK
  <2> QED
    BY <1>1, <1>t, <2>4, <2>5 DEF WriteTeam, TypeOK
<1>2. CASE SaveMatch(r)
  <2>1. PICK e \in Entry : /\ run[r].entry = {e} /\ FixtureOf(r) = e.fixture
                           /\ e.fixture \in Fixtures
                           /\ (CHOOSE d \in run[r].entry : TRUE) = e
    BY <1>2, FixtureType DEF SaveMatch, InTx
  <2> DEFINE row == Saved(r)
             x == [run[r] EXCEPT !.pc = "commit", !.row = row]
  <2>2. /\ row \in Match /\ row.status = "scheduled"
        /\ row.home = HomeKey(e.fixture) /\ row.away = AwayKey(e.fixture)
    <3>1. SavedOdds(e, run[r].found) \in Versions \cup {NoVersion}
      BY <1>t, <2>1 DEF SavedOdds, Entry, RunRow, Match, NoMatch
    <3>2. e.version \in Versions
      BY <2>1 DEF Entry
    <3> QED
      BY <2>1, <3>1, <3>2, KeyType DEF Saved, Match, HomeKey, AwayKey
  <2>3. CASE run' = [run EXCEPT ![r] = Free(r)]
    BY <1>2, <1>t, <2>3, FreesOK DEF SaveMatch
  <2>4. CASE run' = [run EXCEPT ![r] = x]
    <3> HIDE DEF row
    <3>1. /\ x \in RunRow
          /\ x.entries = run[r].entries /\ x.entry = run[r].entry
          /\ x.teams = run[r].teams /\ x.op = run[r].op
          /\ x.pc = "commit" /\ x.row = row
      BY <1>t, <2>2 DEF RunRow
    <3> HIDE DEF x
    <3>2. OneMatch(x)
      <4>1. run[r].op = "none"
        BY <1>2, <1>t DEF SaveMatch, RunOK, OneMatch
      <4> QED
        BY <2>1, <3>1, <4>1 DEF OneMatch, InTx
    <3>3. Ahead(x) /\ OwnTeams(x)
      BY <1>t, <3>1 DEF RunOK, Ahead, OwnTeams
    <3>4. TeamsFound(x) /\ RowReady(x)
      BY <1>2, <1>t, <2>1, <2>2, <3>1
         DEF SaveMatch, RunOK, TeamsFound, Sees, RowReady
    <3> QED
      BY <1>2, <1>t, <2>4, <3>1, <3>2, <3>3, <3>4, MoveOK DEF SaveMatch, RunOK
  <2> QED
    BY <1>2, <1>t, <2>3, <2>4 DEF SaveMatch, TypeOK
<1> QED
  BY <1>1, <1>2

\* A transaction commits: its match is ahead, so that what it writes over is not
\* finished, and each team it writes is one of that match.
LEMMA CommitStep ==
    ASSUME Inv, NEW r \in Runs, CommitMatch(r)
    PROVE  Inv' /\ stored[FixtureOf(r)].status # "finished"
<1>t. /\ run[r] \in RunRow /\ RunOK(run[r]) /\ TypeOK /\ TeamsAgree /\ StoredOK
      /\ run[r].pc = "commit"
  BY DEF Inv, TypeOK, RunsOK, CommitMatch
<1>1. PICK e \in Entry : /\ run[r].entry = {e} /\ FixtureOf(r) = e.fixture
                         /\ e.fixture \in Fixtures
  BY <1>t, FixtureType DEF InTx
<1> DEFINE f == FixtureOf(r)
           row == run[r].row
           own == run[r].teams
<1>2. /\ ~feed[f].over /\ row \in Match /\ row # NoMatch /\ row.status = "scheduled"
      /\ row.home = HomeKey(f) /\ row.away = AwayKey(f) /\ f \in Fixtures
      /\ own \subseteq Team
  BY <1>t, <1>1, NoMatchType DEF RunOK, Ahead, RowReady, RunRow
<1>3. /\ Sees(run[r], HomeKey(f)) /\ Sees(run[r], AwayKey(f))
      /\ \A t, u \in own : t.key = u.key => t = u
      /\ \A t \in own : t.key = TeamKey[t.name] /\ t.key \in {HomeKey(f), AwayKey(f)}
  BY <1>t, <1>1 DEF RunOK, TeamsFound, OwnTeams
<1>4. /\ stored' = [stored EXCEPT ![f] = row]
      /\ team' = Overlaid(team, own)
      /\ run' = [run EXCEPT ![r] = Free(r)]
      /\ UNCHANGED <<feed, solo, faults>>
  BY DEF CommitMatch
<1>5. Free(r) \in RunRow /\ RunOK(Free(r))
  BY FreeOK
<1> HIDE DEF f
<1> HIDE DEF row
<1> HIDE DEF own
<1>6. /\ team' \subseteq team \cup own
      /\ \A t \in team \cup own : \E u \in team' : u.key = t.key
      /\ \A t, u \in team' : t.key = u.key => t = u
  <2>1. \A t, u \in team : t.key = u.key => t = u
    BY <1>t DEF TeamsAgree
  <2> QED
    BY <1>3, <1>4, <2>1, OverlaidKeys, OverlaidUnique
<1>7. \A g \in Fixtures : stored'[g] = IF g = f THEN row ELSE stored[g]
  BY <1>t, <1>2, <1>4 DEF TypeOK
<1>8. \A s \in Runs : run'[s] = IF s = r THEN Free(r) ELSE run[s]
  BY <1>t, <1>4 DEF TypeOK
<1>9. TypeOK'
  <2>1. stored' \in [Fixtures -> Match \cup {NoMatch}]
    BY <1>t, <1>2, <1>4 DEF TypeOK
  <2>2. run' \in [Runs -> RunRow]
    BY <1>t, <1>4, <1>5 DEF TypeOK
  <2>3. team' \subseteq Team
    BY <1>t, <1>2, <1>6 DEF TypeOK
  <2> QED
    BY <1>t, <1>4, <2>1, <2>2, <2>3 DEF TypeOK
<1>10. StoredOK'
  BY <1>t, <1>2, <1>4, <1>7 DEF StoredOK
<1>11. TeamsAgree'
  <2>1. \A t \in team' : t.key = TeamKey[t.name]
    BY <1>t, <1>3, <1>6 DEF TeamsAgree
  <2>2. \A t, u \in team' : t.key = u.key \/ t.name = u.name => t = u
    BY <1>6, <2>1
  <2>3. ASSUME NEW t \in team'
        PROVE  \E g \in Fixtures :
                   stored'[g] # NoMatch /\ t.key \in {stored'[g].home, stored'[g].away}
    <3>1. CASE t \in own
      BY <1>2, <1>3, <1>7, <3>1
    <3>2. CASE t \in team
      <4>1. PICK g \in Fixtures :
                stored[g] # NoMatch /\ t.key \in {stored[g].home, stored[g].away}
        BY <1>t, <3>2 DEF TeamsAgree
      <4>2. t.key \in {HomeKey(g), AwayKey(g)}
        BY <1>t, <4>1 DEF StoredOK
      <4> QED
        BY <1>2, <1>7, <4>1, <4>2
    <3> QED
      BY <1>6, <3>1, <3>2
  <2>4. ASSUME NEW g \in Fixtures, stored'[g] # NoMatch
        PROVE  \A k \in {stored'[g].home, stored'[g].away} : \E t \in team' : t.key = k
    <3>1. CASE g = f
      <4>1. \A k \in {HomeKey(f), AwayKey(f)} : \E t \in team \cup own : t.key = k
        BY <1>3 DEF Sees, own
      <4>2. \A k \in {HomeKey(f), AwayKey(f)} : \E t \in team' : t.key = k
        BY <1>6, <4>1
      <4>3. stored'[g].home = HomeKey(f) /\ stored'[g].away = AwayKey(f)
        BY <1>2, <1>7, <3>1
      <4> QED
        BY <4>2, <4>3
    <3>2. CASE g # f
      <4>1. stored'[g] = stored[g] /\ stored[g] # NoMatch
        BY <1>7, <2>4, <3>2
      <4>2. \A k \in {stored[g].home, stored[g].away} : \E t \in team : t.key = k
        BY <1>t, <4>1 DEF TeamsAgree
      <4>3. \A k : (\E t \in team : t.key = k) => \E t \in team' : t.key = k
        BY <1>6
      <4> QED
        BY <4>1, <4>2, <4>3
    <3> QED
      BY <3>1, <3>2
  <2> QED
    BY <2>1, <2>2, <2>3, <2>4 DEF TeamsAgree
<1>12. ASSUME NEW s \in Runs PROVE RunOK(run[s])'
  <2>1. RunOK(run'[s])
    BY <1>5, <1>8 DEF Inv, RunsOK
  <2>2. \A k : Sees(run'[s], k) => Sees(run[s], k)'
    BY <1>6 DEF Sees
  <2> QED
    BY <1>4, <2>1, <2>2 DEF RunOK, Ahead, OneMatch, OwnTeams, TeamsFound, RowReady
<1>13. stored[f].status # "finished"
  BY <1>t, <1>2 DEF StoredOK
<1> QED
  BY <1>9, <1>10, <1>11, <1>12, <1>13 DEF Inv, RunsOK, f

\* What goes on around the runs.
LEMMA OutsideSteps ==
    ASSUME Inv, (\E f \in Fixtures : News(f) \/ FinishMatch(f)) \/ Crash
    PROVE  Inv'
<1>t. TypeOK /\ TeamsAgree /\ StoredOK /\ RunsOK
  BY DEF Inv
<1>1. ASSUME NEW f \in Fixtures, News(f) PROVE Inv'
  <2>1. PICK p \in BOOLEAN :
            feed' = [feed EXCEPT ![f].version = @ + 1, ![f].priced = p]
    BY <1>1 DEF News
  <2>2. feed[f].version + 1 \in Versions
    BY <1>1, <1>t, RunsAssumption DEF News, TypeOK, Versions
  <2>3. /\ feed' \in [Fixtures -> [over : BOOLEAN, version : Versions, priced : BOOLEAN]]
        /\ \A g \in Fixtures : feed'[g].over = feed[g].over
    BY <1>t, <2>1, <2>2 DEF TypeOK
  <2>4. TypeOK' /\ TeamsAgree' /\ StoredOK'
    BY <1>1, <1>t, <2>3 DEF News, TypeOK, TeamsAgree, StoredOK
  <2>5. ASSUME NEW r \in Runs PROVE RunOK(run[r])'
    <3>1. RunOK(run[r]) /\ run[r] \in RunRow
      BY <1>t DEF RunsOK, TypeOK
    <3>2. \A e \in run[r].entries \cup run[r].entry : e.fixture \in Fixtures
      BY <3>1 DEF RunRow, Entry
    <3> QED
      BY <1>1, <2>3, <3>1, <3>2
         DEF News, RunOK, Ahead, OneMatch, OwnTeams, TeamsFound, Sees, RowReady
  <2> QED
    BY <2>4, <2>5 DEF Inv, RunsOK
<1>2. ASSUME NEW f \in Fixtures, FinishMatch(f) PROVE Inv'
  <2> DEFINE closed == IF stored[f] = NoMatch THEN NoMatch
                       ELSE [stored[f] EXCEPT !.status = "finished"]
  <2>1. /\ feed' = [feed EXCEPT ![f].over = TRUE]
        /\ stored' = [stored EXCEPT ![f] = closed]
        /\ UNCHANGED <<team, run, solo, faults>>
    BY <1>2 DEF FinishMatch
  <2>2. /\ closed \in Match \cup {NoMatch}
        /\ closed # NoMatch <=> stored[f] # NoMatch
        /\ closed # NoMatch => /\ closed.home = stored[f].home
                               /\ closed.away = stored[f].away
    BY <1>t, NoMatchType DEF TypeOK, Match
  <2> HIDE DEF closed
  <2>3. /\ feed' \in [Fixtures -> [over : BOOLEAN, version : Versions, priced : BOOLEAN]]
        /\ \A g \in Fixtures : feed'[g].over = IF g = f THEN TRUE ELSE feed[g].over
    BY <1>t, <2>1 DEF TypeOK
  <2>4. /\ stored' \in [Fixtures -> Match \cup {NoMatch}]
        /\ \A g \in Fixtures : stored'[g] = IF g = f THEN closed ELSE stored[g]
    BY <1>t, <2>1, <2>2 DEF TypeOK
  <2>5. TypeOK'
    BY <1>t, <2>1, <2>3, <2>4 DEF TypeOK
  <2>6. StoredOK'
    BY <1>t, <2>2, <2>3, <2>4 DEF StoredOK
  <2>7. /\ \A g \in Fixtures : stored'[g] # NoMatch <=> stored[g] # NoMatch
        /\ \A g \in Fixtures : stored[g] # NoMatch =>
               stored'[g].home = stored[g].home /\ stored'[g].away = stored[g].away
    BY <2>2, <2>4
  <2>8. TeamsAgree'
    BY <1>t, <2>1, <2>7 DEF TeamsAgree
  <2>9. ASSUME NEW r \in Runs PROVE RunOK(run[r])'
    <3>1. RunOK(run[r]) /\ run[r] \in RunRow
      BY <1>t DEF RunsOK, TypeOK
    <3>2. \A e \in run[r].entries \cup run[r].entry : e.fixture \in Fixtures /\ e.fixture # f
      BY <1>2, <3>1 DEF FinishMatch, RunRow, Entry
    <3>3. Ahead(run[r])'
      BY <2>1, <2>3, <3>1, <3>2 DEF RunOK, Ahead
    <3> QED
      BY <2>1, <3>1, <3>3 DEF RunOK, OneMatch, OwnTeams, TeamsFound, Sees, RowReady
  <2> QED
    BY <2>5, <2>6, <2>8, <2>9 DEF Inv, RunsOK
<1>3. CASE Crash
  <2>1. run' = [r \in Runs |-> NoRun] /\ UNCHANGED <<feed, stored, team, solo>>
    BY <1>3 DEF Crash
  <2>2. TypeOK'
    BY <1>3, <1>t, <2>1, NoRunOK, FaultsType DEF Crash, TypeOK
  <2>3. TeamsAgree' /\ StoredOK'
    BY <1>t, <2>1 DEF TeamsAgree, StoredOK
  <2>4. RunsOK'
    BY <2>1, NoRunOK
       DEF RunsOK, RunOK, Ahead, OneMatch, OwnTeams, TeamsFound, Sees, RowReady
  <2> QED
    BY <2>2, <2>3, <2>4 DEF Inv
<1> QED
  BY <1>1, <1>2, <1>3

\* Every step keeps the invariant, and no step but the end of a match touches the
\* status of a match that is over.
LEMMA NextInv ==
    ASSUME Inv, [Next]_vars
    PROVE  Inv' /\ \A f \in Fixtures :
               stored[f].status = "finished" => stored'[f].status = "finished"
<1>t. TypeOK
  BY DEF Inv
<1> DEFINE Kept == \A f \in Fixtures :
                      stored[f].status = "finished" => stored'[f].status = "finished"
<1>1. ASSUME NEW r \in Runs, CommitMatch(r) PROVE Inv' /\ Kept
  <2>1. Inv' /\ stored[FixtureOf(r)].status # "finished"
    BY <1>1, CommitStep
  <2>2. \A f \in Fixtures : f = FixtureOf(r) \/ stored'[f] = stored[f]
    BY <1>1, <1>t DEF CommitMatch, TypeOK
  <2> QED
    BY <2>1, <2>2
<1>2. ASSUME NEW r \in Runs,
             \/ StartRun(r) \/ FetchLeague(r) \/ FailLeague(r) \/ EndRun(r)
             \/ TakeEntry(r) \/ LookTeam(r) \/ WriteTeam(r) \/ SaveMatch(r)
             \/ BreakDeadlock(r) \/ FailMatch(r)
      PROVE  Inv' /\ Kept
  <2>1. Inv'
    BY <1>2, RunSteps, LookSteps, WriteSteps
  <2>2. UNCHANGED stored
    BY <1>2 DEF StartRun, FetchLeague, FailLeague, EndRun, TakeEntry, LookTeam,
       WriteTeam, SaveMatch, BreakDeadlock, FailMatch
  <2> QED
    BY <2>1, <2>2
<1>3. ASSUME NEW f \in Fixtures, FinishMatch(f) PROVE Inv' /\ Kept
  <2>1. \A g \in Fixtures : g = f \/ stored'[g] = stored[g]
    BY <1>3, <1>t DEF FinishMatch, TypeOK
  <2>2. stored[f].status = "finished" => stored'[f].status = "finished"
    BY <1>3, <1>t, NoMatchType DEF FinishMatch, TypeOK, Match
  <2> QED
    BY <1>3, <2>1, <2>2, OutsideSteps
<1>4. CASE Crash \/ \E f \in Fixtures : News(f)
  BY <1>4, OutsideSteps DEF Crash, News
<1>5. CASE UNCHANGED vars
  <2>1. TypeOK' /\ TeamsAgree' /\ StoredOK'
    BY <1>5 DEF vars, Inv, TypeOK, TeamsAgree, StoredOK
  <2>2. RunsOK'
    BY <1>5 DEF vars, Inv, RunsOK, RunOK, Ahead, OneMatch, OwnTeams, TeamsFound, Sees,
       RowReady
  <2> QED
    BY <1>5, <2>1, <2>2 DEF vars, Inv
<1> QED
  BY <1>1, <1>2, <1>3, <1>4, <1>5 DEF Next, RunStep

LEMMA Invariance == Spec => []Inv
<1>1. Inv /\ [Next]_vars => Inv'
  BY NextInv
<1> QED
  BY <1>1, InitInv, PTL DEF Spec

-----------------------------------------------------------------------------
(***************************************************************************)
(* Runs that do not overlap.  While one is in progress nobody else writes: *)
(* what it has found stays in the table, and what it still has to save is  *)
(* as new as the table and no newer than the feed.                         *)
(***************************************************************************)
Alone == \A r, s \in Runs : r # s => run[r].pc = "idle" \/ run[s].pc = "idle"

InOrder ==
    \A f \in Fixtures : /\ stored[f].odds <= stored[f].version
                        /\ stored[f].version <= feed[f].version

Fresh(x) ==
    /\ x.pc = "idle" => x.entries = {}
    /\ x.pc \notin InTx => x.entry = {}
    /\ \A e \in x.entries \cup x.entry :
           /\ stored[e.fixture].version <= e.version
           /\ e.version <= feed[e.fixture].version
    /\ \A e, d \in x.entries : e.fixture = d.fixture => e = d
    /\ \A e \in x.entry, d \in x.entries : e.fixture # d.fixture
    /\ x.pc \in InTx => \A e \in x.entry : x.found = stored[e.fixture]
    /\ x.pc = "commit" => \A e \in x.entry : /\ x.row.version = e.version
                                             /\ x.row.odds <= x.row.version
                                             /\ stored[e.fixture].odds <= x.row.odds

SoloInv == solo => Alone /\ InOrder /\ \A r \in Runs : Fresh(run[r])

NoneBack ==
    solo => \A f \in Fixtures : /\ stored'[f].version >= stored[f].version
                                /\ stored'[f].odds >= stored[f].odds

\* Versions are numbers, also those of a match that is not there.
LEMMA VersionsType ==
    ASSUME TypeOK, NEW f \in Fixtures
    PROVE  /\ stored[f].version \in Int /\ stored[f].odds \in Int
           /\ feed[f].version \in Int /\ feed[f].version >= 0
<1>1. stored[f] \in Match \cup {NoMatch} /\ feed[f].version \in 0..MaxNews
  BY DEF TypeOK, Versions
<1>2. CASE stored[f] \in Match
  BY <1>1, <1>2, RunsAssumption DEF Match, Versions, NoVersion
<1>3. CASE stored[f] = NoMatch
  BY <1>1, <1>3, RunsAssumption DEF NoMatch, NoVersion
<1> QED
  BY <1>1, <1>2, <1>3

LEMMA EntryVersion == ASSUME NEW e \in Entry PROVE e.version \in Int /\ e.fixture \in Fixtures
BY RunsAssumption DEF Entry, Versions

LEMMA NoRunFresh == Fresh(NoRun) /\ Fresh(NoRun)'
<1>1. NoRun.pc = "idle" /\ NoRun.entries = {} /\ NoRun.entry = {}
  BY DEF NoRun
<1> QED
  BY <1>1 DEF Fresh, InTx

LEMMA FreeFresh ==
    ASSUME Inv, NEW r \in Runs, Fresh(run[r])
    PROVE  Fresh(Free(r))
<1>1. /\ Free(r).pc = "between" /\ Free(r).entries = run[r].entries
      /\ Free(r).entry = {}
  BY DEF Free, Inv, TypeOK, RunRow
<1> QED
  BY <1>1 DEF Fresh, InTx

\* A step of the run in progress, or the beginning of one when there is none.
LEMMA MoveFresh ==
    ASSUME Inv, SoloInv, NEW r \in Runs, NEW x, solo => Fresh(x),
           run' = [run EXCEPT ![r] = x],
           solo /\ run[r].pc = "idle" => \A s \in Runs : run[s].pc = "idle",
           UNCHANGED <<feed, stored, solo>>
    PROVE  SoloInv' /\ NoneBack
<1> SUFFICES ASSUME solo PROVE SoloInv' /\ NoneBack
  BY DEF SoloInv, NoneBack
<1>1. \A s \in Runs : run'[s] = IF s = r THEN x ELSE run[s]
  BY DEF Inv, TypeOK
<1>2. Alone'
  BY <1>1 DEF SoloInv, Alone
<1>3. InOrder'
  BY DEF SoloInv, InOrder
<1>4. ASSUME NEW s \in Runs PROVE Fresh(run[s])'
  <2>1. Fresh(run'[s])
    BY <1>1 DEF SoloInv
  <2> QED
    BY <2>1 DEF Fresh
<1>5. NoneBack
  BY VersionsType DEF NoneBack, Inv
<1> QED
  BY <1>2, <1>3, <1>4, <1>5 DEF SoloInv

LEMMA FreesFresh ==
    ASSUME Inv, SoloInv, NEW r \in Runs, run[r].pc # "idle",
           run' = [run EXCEPT ![r] = Free(r)], UNCHANGED <<feed, stored, solo>>
    PROVE  SoloInv' /\ NoneBack
<1> DEFINE x == Free(r)
<1>1. solo => Fresh(x)
  BY FreeFresh DEF SoloInv
<1>2. run' = [run EXCEPT ![r] = x]
  OBVIOUS
<1> HIDE DEF x
<1> QED
  BY <1>1, <1>2, MoveFresh

\* The steps of a run that leave the tables alone.
LEMMA RunFresh ==
    ASSUME Inv, SoloInv, NEW r \in Runs,
           \/ StartRun(r) \/ FetchLeague(r) \/ FailLeague(r) \/ EndRun(r)
           \/ BreakDeadlock(r) \/ FailMatch(r)
    PROVE  SoloInv' /\ NoneBack
<1>t. run[r] \in RunRow /\ RunOK(run[r]) /\ TypeOK /\ (solo => Fresh(run[r]))
  BY DEF Inv, TypeOK, RunsOK, SoloInv
<1>1. CASE StartRun(r)
  <2> DEFINE x == [run[r] EXCEPT !.pc = "between", !.leagues = Leagues]
  <2>1. x.pc = "between" /\ x.entries = run[r].entries /\ x.entry = run[r].entry
    BY <1>t DEF RunRow
  <2>2. solo => Fresh(x)
    BY <1>1, <1>t, <2>1 DEF StartRun, Fresh, InTx
  <2>3. run' = [run EXCEPT ![r] = x]
    BY <1>1, <1>t DEF StartRun, TypeOK
  <2> HIDE DEF x
  <2> QED
    BY <1>1, <2>2, <2>3, MoveFresh DEF StartRun
<1>2. CASE FetchLeague(r)
  <2> DEFINE listed == Listed(r, Head(run[r].leagues))
             new == {[fixture |-> f, version |-> feed[f].version,
                      priced |-> feed[f].priced] : f \in listed}
             x == [run[r] EXCEPT !.leagues = Tail(@), !.entries = new]
  <2>1. x.pc = "between" /\ x.entries = new /\ x.entry = run[r].entry
    BY <1>2, <1>t DEF FetchLeague, RunRow
  <2>3. /\ \A e \in new : e.fixture \in Fixtures /\ e.version = feed[e.fixture].version
        /\ \A e, d \in new : e.fixture = d.fixture => e = d
    BY <1>t, RunsAssumption DEF Listed
  <2>4. run' = [run EXCEPT ![r] = x]
    BY <1>2, <1>t DEF FetchLeague, TypeOK, RunRow
  <2>5. run[r].pc = "between"
    BY <1>2 DEF FetchLeague
  <2> HIDE DEF new
  <2> HIDE DEF x
  <2>6. solo => Fresh(x)
    <3> SUFFICES ASSUME solo PROVE Fresh(x)
      OBVIOUS
    <3>1. x.entry = {}
      BY <1>t, <2>1, <2>5 DEF Fresh, InTx
    <3>2. ASSUME NEW e \in x.entries
          PROVE  /\ stored[e.fixture].version <= e.version
                 /\ e.version <= feed[e.fixture].version
      BY <1>t, <2>1, <2>3, <3>2, VersionsType DEF SoloInv, InOrder
    <3> QED
      BY <2>1, <2>3, <3>1, <3>2 DEF Fresh, InTx
  <2> QED
    BY <1>2, <2>4, <2>5, <2>6, MoveFresh DEF FetchLeague
<1>3. CASE FailLeague(r)
  <2> DEFINE x == [run[r] EXCEPT !.leagues = Tail(@)]
  <2>1. x.pc = "between" /\ x.entries = run[r].entries /\ x.entry = run[r].entry
    BY <1>3, <1>t DEF FailLeague, RunRow
  <2>2. solo => Fresh(x)
    BY <1>3, <1>t, <2>1 DEF FailLeague, Fresh, InTx
  <2>3. run' = [run EXCEPT ![r] = x]
    BY <1>3, <1>t DEF FailLeague, TypeOK
  <2> HIDE DEF x
  <2> QED
    BY <1>3, <2>2, <2>3, MoveFresh DEF FailLeague
<1>4. CASE EndRun(r)
  BY <1>4, NoRunFresh, MoveFresh DEF EndRun
<1>5. CASE BreakDeadlock(r)
  <2>1. run[r].pc # "idle"
    BY <1>5 DEF BreakDeadlock, Waits, Open
  <2> QED
    BY <1>5, <2>1, FreesFresh DEF BreakDeadlock
<1>6. CASE FailMatch(r)
  BY <1>6, FreesFresh DEF FailMatch, Open
<1> QED
  BY <1>1, <1>2, <1>3, <1>4, <1>5, <1>6

LEMMA TransactionFresh ==
    ASSUME Inv, SoloInv, NEW r \in Runs,
           TakeEntry(r) \/ LookTeam(r) \/ WriteTeam(r) \/ SaveMatch(r)
    PROVE  SoloInv' /\ NoneBack
<1>t. run[r] \in RunRow /\ RunOK(run[r]) /\ TypeOK /\ (solo => Fresh(run[r]))
  BY DEF Inv, TypeOK, RunsOK, SoloInv
<1>1. CASE TakeEntry(r)
  <2>1. PICK e \in run[r].entries :
            run' = [run EXCEPT ![r].entries = @ \ {e}, ![r].pc = "home",
                               ![r].entry = {e}, ![r].found = stored[e.fixture]]
    BY <1>1 DEF TakeEntry
  <2> DEFINE x == [run[r] EXCEPT !.entries = @ \ {e}, !.pc = "home", !.entry = {e},
                                 !.found = stored[e.fixture]]
  <2>2. /\ x.pc = "home" /\ x.entries = run[r].entries \ {e} /\ x.entry = {e}
        /\ x.found = stored[e.fixture]
    BY <1>t DEF RunRow
  <2>3. run' = [run EXCEPT ![r] = x]
    BY <1>t, <2>1 DEF TypeOK, RunRow
  <2> HIDE DEF x
  <2>4. solo => Fresh(x)
    BY <1>t, <2>1, <2>2 DEF Fresh, InTx
  <2> QED
    BY <1>1, <2>3, <2>4, MoveFresh DEF TakeEntry
<1>2. ASSUME NEW x, run' = [run EXCEPT ![r] = x],
             x.pc \in {"home", "away", "save"}, x.entries = run[r].entries,
             x.entry = run[r].entry, x.found = run[r].found,
             run[r].pc \in InTx, UNCHANGED <<feed, stored, solo>>
      PROVE  SoloInv' /\ NoneBack
  <2>1. solo => Fresh(x)
    BY <1>t, <1>2 DEF Fresh, InTx
  <2> QED
    BY <1>2, <2>1, MoveFresh DEF InTx
<1>3. CASE LookTeam(r)
  <2> DEFINE x == run'[r]
  <2>1. /\ run' = [run EXCEPT ![r] = x]
        /\ x.pc \in {"home", "away", "save"} /\ x.entries = run[r].entries
        /\ x.entry = run[r].entry /\ x.found = run[r].found
        /\ run[r].pc \in InTx
    BY <1>3, <1>t DEF LookTeam, TypeOK, RunRow, After, InTx
  <2> HIDE DEF x
  <2> QED
    BY <1>2, <1>3, <2>1 DEF LookTeam
<1>4. CASE WriteTeam(r)
  <2>1. run[r].pc \in {"home", "away"}
    BY <1>4, <1>t DEF WriteTeam, RunOK, OneMatch
  <2>2. CASE run' = [run EXCEPT ![r] = Free(r)]
    BY <1>4, <2>1, <2>2, FreesFresh DEF WriteTeam
  <2>3. CASE run' # [run EXCEPT ![r] = Free(r)]
    <3> DEFINE x == run'[r]
    <3>1. /\ run' = [run EXCEPT ![r] = x]
          /\ x.pc \in {"home", "away", "save"} /\ x.entries = run[r].entries
          /\ x.entry = run[r].entry /\ x.found = run[r].found
      BY <1>4, <1>t, <2>1, <2>3 DEF WriteTeam, TypeOK, RunRow, After
    <3> HIDE DEF x
    <3> QED
      BY <1>2, <1>4, <2>1, <3>1 DEF WriteTeam, InTx
  <2> QED
    BY <2>2, <2>3
<1>5. CASE SaveMatch(r)
  <2>1. PICK e \in Entry : /\ run[r].entry = {e} /\ e.fixture \in Fixtures
                           /\ (CHOOSE d \in run[r].entry : TRUE) = e
    BY <1>5, FixtureType DEF SaveMatch, InTx
  <2> DEFINE row == Saved(r)
             x == [run[r] EXCEPT !.pc = "commit", !.row = row]
  <2>2. row.version = e.version
        /\ row.odds = IF e.priced THEN e.version ELSE run[r].found.odds
    BY <2>1 DEF Saved, SavedOdds
  <2>3. CASE run' = [run EXCEPT ![r] = Free(r)]
    BY <1>5, <2>3, FreesFresh DEF SaveMatch
  <2>4. CASE run' = [run EXCEPT ![r] = x]
    <3> HIDE DEF row
    <3>1. /\ x.pc = "commit" /\ x.entries = run[r].entries
          /\ x.entry = {e} /\ x.found = run[r].found /\ x.row = row
      BY <1>t, <2>1 DEF RunRow
    <3> HIDE DEF x
    <3>2. ASSUME solo PROVE Fresh(x)
      <4>1. /\ run[r].found = stored[e.fixture]
            /\ stored[e.fixture].version <= e.version
            /\ stored[e.fixture].odds <= stored[e.fixture].version
        BY <1>5, <1>t, <2>1, <3>2 DEF SaveMatch, Fresh, InTx, SoloInv, InOrder
      <4>2. row.odds <= row.version /\ stored[e.fixture].odds <= row.odds
        BY <1>t, <2>1, <2>2, <4>1, VersionsType, EntryVersion
      <4> QED
        BY <1>t, <2>1, <2>2, <3>1, <3>2, <4>1, <4>2 DEF Fresh, InTx
    <3> QED
      BY <1>5, <2>4, <3>2, MoveFresh DEF SaveMatch
  <2> QED
    BY <1>5, <1>t, <2>3, <2>4 DEF SaveMatch, TypeOK
<1> QED
  BY <1>1, <1>3, <1>4, <1>5

\* The match that is committed is no older than the one it replaces, and no run
\* that goes on has found either.
LEMMA CommitFresh ==
    ASSUME Inv, SoloInv, NEW r \in Runs, CommitMatch(r)
    PROVE  SoloInv' /\ NoneBack
<1> SUFFICES ASSUME solo PROVE SoloInv' /\ NoneBack
  BY DEF SoloInv, NoneBack, CommitMatch
<1>t. /\ run[r] \in RunRow /\ RunOK(run[r]) /\ TypeOK /\ Fresh(run[r])
      /\ run[r].pc = "commit" /\ Alone /\ InOrder
  BY DEF Inv, TypeOK, RunsOK, SoloInv, CommitMatch
<1>1. PICK e \in Entry : /\ run[r].entry = {e} /\ FixtureOf(r) = e.fixture
                         /\ e.fixture \in Fixtures
  BY <1>t, FixtureType DEF InTx
<1> DEFINE f == e.fixture
           row == run[r].row
<1>2. /\ row.version = e.version /\ row.odds <= row.version
      /\ stored[f].odds <= row.odds /\ stored[f].version <= e.version
      /\ e.version <= feed[f].version /\ f \in Fixtures
  BY <1>t, <1>1 DEF Fresh
<1>3. /\ stored' = [stored EXCEPT ![f] = row]
      /\ run' = [run EXCEPT ![r] = Free(r)]
      /\ UNCHANGED <<feed, solo>>
  BY <1>1 DEF CommitMatch
<1> HIDE DEF row
<1>4. /\ \A g \in Fixtures : stored'[g] = IF g = f THEN row ELSE stored[g]
      /\ \A s \in Runs : run'[s] = IF s = r THEN Free(r) ELSE run[s]
  BY <1>t, <1>3 DEF TypeOK
<1>5. InOrder'
  BY <1>t, <1>2, <1>3, <1>4 DEF InOrder
<1>6. NoneBack
  BY <1>t, <1>2, <1>4, VersionsType DEF NoneBack
<1>7. Alone'
  BY <1>t, <1>4 DEF Alone
<1>8. ASSUME NEW s \in Runs, s # r PROVE Fresh(run[s])'
  <2>1. run[s].pc = "idle" /\ Fresh(run[s]) /\ run'[s] = run[s]
    BY <1>t, <1>4, <1>8 DEF Alone, SoloInv
  <2> QED
    BY <2>1 DEF Fresh, InTx
<1>9. Fresh(run[r])'
  <2>1. /\ run'[r].pc = "between" /\ run'[r].entry = {}
        /\ run'[r].entries = run[r].entries
    BY <1>t, <1>4 DEF Free, RunRow
  <2>2. \A d \in run[r].entries : d.fixture \in Fixtures /\ d.fixture # f
    BY <1>t, <1>1 DEF Fresh, RunRow, Entry
  <2> QED
    BY <1>t, <1>3, <1>4, <2>1, <2>2 DEF Fresh, InTx
<1> QED
  BY <1>3, <1>5, <1>6, <1>7, <1>8, <1>9 DEF SoloInv

\* The feed only gets newer, and what is closed keeps its version.
LEMMA OutsideFresh ==
    ASSUME Inv, SoloInv, (\E f \in Fixtures : News(f) \/ FinishMatch(f)) \/ Crash
    PROVE  SoloInv' /\ NoneBack
<1>1. solo' = solo
  BY DEF News, FinishMatch, Crash
<1> SUFFICES ASSUME solo PROVE SoloInv' /\ NoneBack
  BY <1>1 DEF SoloInv, NoneBack
<1>t. TypeOK /\ Alone /\ InOrder
  BY DEF Inv, SoloInv
<1>2. ASSUME NEW r \in Runs
      PROVE  /\ run[r] \in RunRow /\ Fresh(run[r])
             /\ \A e \in run[r].entries \cup run[r].entry :
                    e.fixture \in Fixtures /\ e.version \in Int
  <2>1. run[r] \in RunRow /\ Fresh(run[r])
    BY <1>t DEF TypeOK, SoloInv
  <2>2. \A e \in run[r].entries \cup run[r].entry : e \in Entry
    BY <2>1 DEF RunRow
  <2> QED
    BY <2>1, <2>2, EntryVersion
<1>3. ASSUME NEW f \in Fixtures, News(f) PROVE SoloInv' /\ NoneBack
  <2>1. /\ UNCHANGED <<stored, run, solo>>
        /\ \A g \in Fixtures : feed[g].version <= feed'[g].version /\ feed'[g].version \in Int
    BY <1>3, <1>t, VersionsType DEF News, TypeOK
  <2>2. InOrder'
    BY <1>t, <2>1, VersionsType DEF InOrder
  <2>3. ASSUME NEW r \in Runs PROVE Fresh(run[r])'
    <3>1. \A e \in run[r].entries \cup run[r].entry : e.version <= feed'[e.fixture].version
      BY <1>t, <1>2, <2>1, VersionsType DEF Fresh
    <3> QED
      BY <1>2, <2>1, <3>1 DEF Fresh
  <2>4. NoneBack
    BY <1>t, <2>1, VersionsType DEF NoneBack
  <2> QED
    BY <1>t, <2>1, <2>2, <2>3, <2>4 DEF SoloInv, Alone
<1>4. ASSUME NEW f \in Fixtures, FinishMatch(f) PROVE SoloInv' /\ NoneBack
  <2>1. UNCHANGED <<run, solo>>
    BY <1>4 DEF FinishMatch
  <2>2. \A g \in Fixtures : feed'[g].version = feed[g].version
    BY <1>4, <1>t DEF FinishMatch, TypeOK
  <2>3. \A g \in Fixtures : g = f \/ stored'[g] = stored[g]
    BY <1>4, <1>t DEF FinishMatch, TypeOK
  <2>4. stored'[f].version = stored[f].version /\ stored'[f].odds = stored[f].odds
    BY <1>4, <1>t DEF FinishMatch, TypeOK, Match
  <2>5. InOrder' /\ NoneBack
    BY <1>t, <2>2, <2>3, <2>4, VersionsType DEF InOrder, NoneBack
  <2>6. ASSUME NEW r \in Runs PROVE Fresh(run[r])'
    <3>1. \A e \in run[r].entries \cup run[r].entry :
              e.fixture # f /\ stored'[e.fixture] = stored[e.fixture]
      BY <1>4, <1>2, <2>3 DEF FinishMatch
    <3> QED
      BY <1>2, <2>1, <2>2, <3>1 DEF Fresh
  <2> QED
    BY <1>t, <2>1, <2>5, <2>6 DEF SoloInv, Alone
<1>5. CASE Crash
  <2>1. run' = [r \in Runs |-> NoRun] /\ UNCHANGED <<feed, stored, solo>>
    BY <1>5 DEF Crash
  <2>2. Alone' /\ \A r \in Runs : Fresh(run[r])'
    BY <2>1, NoRunFresh DEF Alone, NoRun, Fresh, InTx
  <2> QED
    BY <1>t, <2>1, <2>2, VersionsType DEF SoloInv, InOrder, NoneBack
<1> QED
  BY <1>3, <1>4, <1>5

LEMMA SoloInit == Init => SoloInv
<1> SUFFICES ASSUME Init PROVE SoloInv
  OBVIOUS
<1>1. Alone /\ \A r \in Runs : Fresh(run[r])
  BY NoRunFresh DEF Init, Alone, NoRun, Fresh, InTx
<1>2. InOrder
  BY DEF Init, InOrder, NoMatch, NoVersion
<1> QED
  BY <1>1, <1>2 DEF SoloInv

LEMMA SoloNext == ASSUME Inv, SoloInv, [Next]_vars PROVE SoloInv' /\ NoneBack
<1>1. ASSUME NEW r \in Runs, RunStep(r) \/ FailLeague(r) \/ FailMatch(r)
      PROVE  SoloInv' /\ NoneBack
  BY <1>1, RunFresh, TransactionFresh, CommitFresh DEF RunStep
<1>2. CASE UNCHANGED vars
  <2>1. NoneBack
    BY <1>2, VersionsType DEF NoneBack, vars, Inv
  <2>2. SoloInv'
    BY <1>2 DEF vars, SoloInv, Alone, InOrder, Fresh
  <2> QED
    BY <2>1, <2>2
<1> QED
  BY <1>1, <1>2, OutsideFresh DEF Next

-----------------------------------------------------------------------------
(* Theorems *)

\* Every reachable state of the feed, the tables and the runs is well typed.
\* (match-sync.service.ts:34-367)
THEOREM SyncTyped == Spec => []TypeOK
<1>1. Inv => TypeOK
  BY DEF Inv
<1> QED
  BY <1>1, Invariance, PTL

\* However many runs overlap and fail, the teams table has one row for each club of
\* a stored match and no other.  (match-sync.service.ts:224-245, 400-430)
THEOREM SyncTeamsAgree == Spec => []TeamsAgree
<1>1. Inv => TeamsAgree
  BY DEF Inv
<1> QED
  BY <1>1, Invariance, PTL

\* No synchronisation reopens a match that is over, although each writes
\* "scheduled" over whatever it finds.  (match-sync.service.ts:316)
THEOREM SyncFinishedStays == Spec => FinishedStays
<1>1. Inv /\ [Next]_vars =>
        [\A f \in Fixtures :
            stored[f].status = "finished" => stored'[f].status = "finished"]_vars
  BY NextInv
<1> QED
  BY <1>1, Invariance, PTL DEF Spec, FinishedStays

\* As long as no two of its runs overlap, the synchronisation never puts an older
\* answer of the provider over a newer one, and never takes the odds of a match
\* away.  (match-sync.service.ts:257-329)
THEOREM SyncNeverBackwards == Spec => NeverBackwards
<1>1. Inv /\ SoloInv /\ [Next]_vars => SoloInv' /\ [NoneBack]_vars
  BY SoloNext
<1>2. [NoneBack]_vars =>
        [solo => \A f \in Fixtures : /\ stored'[f].version >= stored[f].version
                                     /\ stored'[f].odds >= stored[f].odds]_vars
  BY DEF NoneBack
<1> QED
  BY <1>1, <1>2, SoloInit, Invariance, PTL DEF Spec, NeverBackwards

-----------------------------------------------------------------------------
(* Odds: no two bets share a key, so that none takes the price of another.   *)

\* Of one outcome with a key the price is the last, and the first.
LEMMA OnlyOne == ASSUME NEW i \in Int PROVE Max({i}) = i
BY DEF Max

LEMMA TenthsTell ==
    ASSUME NEW p \in Int, NEW q \in Int, Tenths(p) = Tenths(q), p >= 0 <=> q >= 0
    PROVE  p = q
BY DEF Tenths

\* Bets on the handicap, with a price and a line.
HandicapBet == [name : {"home", "away"}, price : Nat \ {0}, point : Int \ {NoPoint}]

LEMMA HandicapKeysTell ==
    ASSUME NEW o \in HandicapBet, NEW q \in HandicapBet,
           formatHandicapKey(o) = formatHandicapKey(q)
    PROVE  o.name = q.name /\ o.point = q.point
<1> DEFINE sign(p) == IF p >= 0 THEN "+" ELSE ""
<1>1. ASSUME NEW x \in HandicapBet
      PROVE  /\ formatHandicapKey(x)[1] = x.name
             /\ formatHandicapKey(x)[2] = sign(x.point)
             /\ formatHandicapKey(x)[3] = Tenths(x.point)
  BY DEF HandicapBet, formatHandicapKey
<1>2. o.name = q.name /\ sign(o.point) = sign(q.point) /\ Tenths(o.point) = Tenths(q.point)
  BY <1>1
<1>3. o.point >= 0 <=> q.point >= 0
  BY <1>2
<1> QED
  BY <1>2, <1>3, TenthsTell DEF HandicapBet

\* However many bets a market lists, each that is unlike the others keeps its price.
THEOREM HandicapsKept ==
    ASSUME NEW outcomes \in Seq(HandicapBet), Differ(outcomes), NEW i \in DOMAIN outcomes
    PROVE  extractHandicap(Quoting("spreads", outcomes))[formatHandicapKey(outcomes[i])]
               = outcomes[i].price
<1> DEFINE used == {j \in DOMAIN outcomes :
                       outcomes[j].price > 0 /\ formatHandicapKey(outcomes[j]) # NoKey}
           key == formatHandicapKey(outcomes[i])
<1>1. DOMAIN outcomes = 1..Len(outcomes) /\ \A j \in DOMAIN outcomes : outcomes[j] \in HandicapBet
  BY LenProperties, ElementOfSeq
<1>2. \A x \in HandicapBet : formatHandicapKey(x)[1] = x.name /\ NoKey[1] = "none"
  BY DEF HandicapBet, formatHandicapKey, NoKey
<1>3. i \in used
  <2>1. outcomes[i] \in HandicapBet /\ outcomes[i].price > 0 /\ outcomes[i].name # "none"
    BY <1>1 DEF HandicapBet
  <2>2. formatHandicapKey(outcomes[i]) # NoKey
    BY <1>2, <2>1
  <2> QED
    BY <2>1, <2>2
<1>4. \A j \in DOMAIN outcomes : formatHandicapKey(outcomes[j]) = key => j = i
  BY <1>1, HandicapKeysTell DEF Differ
<1>5. {j \in used : formatHandicapKey(outcomes[j]) = key} = {i}
  BY <1>3, <1>4
<1>6. Max({i}) = i
  BY <1>1, OnlyOne
<1>7. QuotedOr(Quoting("spreads", outcomes), "spreads", "alternate_spreads") = outcomes
  BY DEF QuotedOr, Quoted, Quoting
<1>8. extractHandicap(Quoting("spreads", outcomes))
        = [k \in {formatHandicapKey(outcomes[j]) : j \in used} |->
              outcomes[Max({j \in used : formatHandicapKey(outcomes[j]) = k})].price]
  BY <1>7 DEF extractHandicap, Priced
<1> HIDE DEF used
<1> QED
  BY <1>3, <1>5, <1>6, <1>8

\* Bets on the number of goals; the lines that are not kept have no key.
TotalsBet == [name : {"over", "under"}, price : Nat \ {0}, point : Int \ {NoPoint}]

LEMMA TotalsKeys ==
    ASSUME NEW o \in TotalsBet, OverUnderKey(o) # NoKey
    PROVE  /\ OverUnderKey(o) = <<o.name, Tenths(o.point)>> /\ o.point > 0
           /\ OverUnderKey(o)[1] = o.name /\ OverUnderKey(o)[2] = Tenths(o.point)
BY DEF TotalsBet, OverUnderKey

LEMMA TotalsKeysTell ==
    ASSUME NEW o \in TotalsBet, NEW q \in TotalsBet,
           OverUnderKey(o) # NoKey, OverUnderKey(o) = OverUnderKey(q)
    PROVE  o.name = q.name /\ o.point = q.point
<1>1. o.name = q.name /\ Tenths(o.point) = Tenths(q.point) /\ o.point > 0 /\ q.point > 0
  BY TotalsKeys
<1>2. o.point \in Int /\ q.point \in Int
  BY DEF TotalsBet
<1>3. o.point >= 0 <=> q.point >= 0
  BY <1>1, <1>2
<1> QED
  BY <1>1, <1>2, <1>3, TenthsTell

\* Of the lines that are kept each keeps its price, however many are listed.
LEMMA TotalsKept ==
    ASSUME NEW outcomes \in Seq(TotalsBet), Differ(outcomes),
           NEW i \in DOMAIN outcomes, OverUnderKey(outcomes[i]) # NoKey
    PROVE  extractOverUnder(Quoting("alternate_totals", outcomes))
               [<<outcomes[i].name, Tenths(outcomes[i].point)>>] = outcomes[i].price
<1> DEFINE used == {j \in DOMAIN outcomes :
                       outcomes[j].price > 0 /\ OverUnderKey(outcomes[j]) # NoKey}
           key == OverUnderKey(outcomes[i])
<1>1. DOMAIN outcomes = 1..Len(outcomes) /\ \A j \in DOMAIN outcomes : outcomes[j] \in TotalsBet
  BY LenProperties, ElementOfSeq
<1>2. outcomes[i].price > 0 /\ key = <<outcomes[i].name, Tenths(outcomes[i].point)>>
  BY <1>1, TotalsKeys DEF TotalsBet
<1>3. i \in used
  BY <1>2
<1>4. \A j \in DOMAIN outcomes : OverUnderKey(outcomes[j]) = key => j = i
  BY <1>1, TotalsKeysTell DEF Differ
<1>5. {j \in used : OverUnderKey(outcomes[j]) = key} = {i}
  BY <1>3, <1>4
<1>6. Max({i}) = i
  BY <1>1, OnlyOne
<1>7. QuotedOr(Quoting("alternate_totals", outcomes), "totals", "alternate_totals") = outcomes
  BY DEF QuotedOr, Quoted, Quoting
<1>8. extractOverUnder(Quoting("alternate_totals", outcomes))
        = [k \in {OverUnderKey(outcomes[j]) : j \in used} |->
              outcomes[Max({j \in used : OverUnderKey(outcomes[j]) = k})].price]
  BY <1>7 DEF extractOverUnder, Priced
<1> HIDE DEF used, key
<1>9. extractOverUnder(Quoting("alternate_totals", outcomes))[key] = outcomes[i].price
  BY <1>3, <1>5, <1>6, <1>8 DEF key
<1> QED
  BY <1>2, <1>9

LEMMA ThreeDiffer ==
    ASSUME NEW x, NEW y, NEW z
    PROVE  Cardinality({x, y, z}) = 3 <=> x # y /\ x # z /\ y # z
<1>1. IsFiniteSet({x}) /\ Cardinality({x}) = 1
  BY FS_Singleton
<1>2. /\ IsFiniteSet({x} \cup {y})
      /\ Cardinality({x} \cup {y}) = IF y \in {x} THEN 1 ELSE 1 + 1
  BY <1>1, FS_AddElement
<1>3. Cardinality({x} \cup {y} \cup {z})
        = IF z \in {x} \cup {y} THEN Cardinality({x} \cup {y}) ELSE Cardinality({x} \cup {y}) + 1
  BY <1>2, FS_AddElement
<1>4. {x} \cup {y} \cup {z} = {x, y, z}
  OBVIOUS
<1> QED
  BY <1>2, <1>3, <1>4

Sides == {"home", "away", "draw"}

LEMMA ResultKeys ==
    ASSUME NEW o, NEW q, o.name \in Sides, q.name \in Sides
    PROVE  /\ MatchResultKey(o) # NoKey
           /\ MatchResultKey(o) = MatchResultKey(q) => o.name = q.name
           /\ o.name = q.name => MatchResultKey(o) = MatchResultKey(q)
<1>1. MatchResultKey(o)[1] = CASE o.name = "home" -> "home_win"
                               [] o.name = "away" -> "away_win"
                               [] o.name = "draw" -> "draw"
  BY DEF MatchResultKey, Sides
<1>2. MatchResultKey(q)[1] = CASE q.name = "home" -> "home_win"
                               [] q.name = "away" -> "away_win"
                               [] q.name = "draw" -> "draw"
  BY DEF MatchResultKey, Sides
<1>3. NoKey[1] = "none"
  BY DEF NoKey
<1>4. o.name = q.name => MatchResultKey(o) = MatchResultKey(q)
  BY DEF MatchResultKey
<1> QED
  BY <1>1, <1>2, <1>3, <1>4 DEF Sides

\* The result of a match is quoted when each of the three has a price, and then all
\* of them keep theirs.
LEMMA ResultsKept ==
    ASSUME NEW outcomes \in Orders(Sides)
    PROVE  IF Differ(outcomes)
           THEN \A i \in DOMAIN outcomes :
                  extractMatchResult(Quoting("h2h", outcomes))[MatchResultKey(outcomes[i])]
                      = outcomes[i].price
           ELSE extractMatchResult(Quoting("h2h", outcomes)) = NoOdds
<1>1. PICK a \in Sides, b \in Sides, c \in Sides :
        outcomes = <<Outcome(a, 1, NoPoint), Outcome(b, 2, NoPoint), Outcome(c, 3, NoPoint)>>
  BY DEF Orders
<1> DEFINE key(i) == MatchResultKey(outcomes[i])
           used == {j \in DOMAIN outcomes :
                       outcomes[j].price > 0 /\ MatchResultKey(outcomes[j]) # NoKey}
           odds == [k \in {key(j) : j \in 1..3} |->
                       outcomes[Max({j \in 1..3 : key(j) = k})].price]
<1>2. /\ Len(outcomes) = 3 /\ DOMAIN outcomes = 1..3
      /\ outcomes[1].name = a /\ outcomes[2].name = b /\ outcomes[3].name = c
      /\ outcomes[1].price = 1 /\ outcomes[2].price = 2 /\ outcomes[3].price = 3
      /\ outcomes[1].point = NoPoint /\ outcomes[2].point = NoPoint /\ outcomes[3].point = NoPoint
  BY <1>1 DEF Outcome
<1>3. \A i \in 1..3 : i = 1 \/ i = 2 \/ i = 3
  OBVIOUS
<1>4. \A i \in 1..3 : outcomes[i].name \in Sides /\ outcomes[i].price > 0
  BY <1>2, <1>3
<1>5. used = 1..3
  BY <1>2, <1>4, ResultKeys
<1>6. Quoted(Quoting("h2h", outcomes), "h2h") = outcomes
  BY DEF Quoted, Quoting
<1>7. extractMatchResult(Quoting("h2h", outcomes))
        = IF Cardinality(DOMAIN odds) = 3 THEN odds ELSE NoOdds
  <2> DEFINE all == [k \in {key(j) : j \in used} |-> outcomes[Max({j \in used : key(j) = k})].price]
  <2>1. extractMatchResult(Quoting("h2h", outcomes))
          = IF Len(outcomes) >= 3 /\ Cardinality(DOMAIN all) = 3 THEN all ELSE NoOdds
    BY <1>6 DEF extractMatchResult, Priced
  <2>2. all = odds
    BY <1>5
  <2> HIDE DEF odds, all
  <2> QED
    BY <1>2, <2>1, <2>2
<1>8. DOMAIN odds = {key(1), key(2), key(3)}
  BY <1>3
<1>9. Cardinality(DOMAIN odds) = 3 <=> key(1) # key(2) /\ key(1) # key(3) /\ key(2) # key(3)
  <2>1. Cardinality({key(1), key(2), key(3)}) = 3
            <=> key(1) # key(2) /\ key(1) # key(3) /\ key(2) # key(3)
    BY ThreeDiffer
  <2> HIDE DEF odds
  <2> QED
    BY <1>8, <2>1
<1>10. Differ(outcomes) <=> a # b /\ a # c /\ b # c
  BY <1>2, <1>3 DEF Differ
<1>11. \A i, j \in 1..3 : key(i) = key(j) <=> outcomes[i].name = outcomes[j].name
  BY <1>4, ResultKeys
<1>12. Cardinality(DOMAIN odds) = 3 <=> Differ(outcomes)
  BY <1>2, <1>9, <1>10, <1>11
<1>13. ASSUME Differ(outcomes), NEW i \in 1..3 PROVE odds[key(i)] = outcomes[i].price
  <2>1. {j \in 1..3 : key(j) = key(i)} = {i}
    BY <1>2, <1>3, <1>10, <1>11, <1>13
  <2>2. Max({i}) = i
    BY OnlyOne
  <2> QED
    BY <2>1, <2>2
<1> QED
  BY <1>2, <1>7, <1>12, <1>13

\* Betway's prices are not mixed with those of another bookmaker.
LEMMA BetwayAlone ==
    ASSUME NEW first, NEW second
    PROVE  extractOddsFromMatchData(<<Bettor("other", "h2h", first),
                                      Bettor("betway", "h2h", second)>>)
               = extractOddsFromMatchData(<<Bettor("betway", "h2h", second)>>)
<1> DEFINE two == <<Bettor("other", "h2h", first), Bettor("betway", "h2h", second)>>
           one == <<Bettor("betway", "h2h", second)>>
<1>1. /\ DOMAIN two = 1..2 /\ two[1].key = "other" /\ two[2].key = "betway"
      /\ DOMAIN one = 1..1 /\ one[1].key = "betway" /\ one[1] = two[2]
  BY DEF Bettor
<1>2. /\ {i \in DOMAIN two : two[i].key = "betway"} = {2}
      /\ {i \in DOMAIN one : one[i].key = "betway"} = {1}
  BY <1>1
<1>3. Min({1}) = 1 /\ Min({2}) = 2
  BY DEF Min
<1>4. two # <<>> /\ one # <<>>
  OBVIOUS
<1> HIDE DEF one, two
<1>5. Chosen(two) = two[2] /\ Chosen(one) = one[1]
  BY <1>2, <1>3 DEF Chosen
<1>6. extractOddsFromMatchData(two) = extractOddsFromMatchData(one)
  BY <1>1, <1>4, <1>5 DEF extractOddsFromMatchData
<1> QED
  BY <1>6 DEF one, two

LEMMA TheOddsAreTrue == OddsTrue
<1>1. ASSUME NEW outcomes \in Handicaps PROVE outcomes \in Seq(HandicapBet)
  <2>1. PICK n1 \in {"home", "away"}, n2 \in {"home", "away"}, p1 \in -8..8, p2 \in -8..8 :
          outcomes = <<Outcome(n1, 1, p1), Outcome(n2, 2, p2)>>
    BY <1>1 DEF Handicaps, TwoSided
  <2>2. Outcome(n1, 1, p1) \in HandicapBet /\ Outcome(n2, 2, p2) \in HandicapBet
    BY DEF Outcome, HandicapBet, NoPoint
  <2> QED
    BY <2>1, <2>2
<1>2. ASSUME NEW outcomes \in Totals PROVE outcomes \in Seq(TotalsBet)
  <2>1. PICK n1 \in {"over", "under"}, n2 \in {"over", "under"},
             p1 \in {2, 5, 6, 9, 10, 14, 18, 22}, p2 \in {2, 5, 6, 9, 10, 14, 18, 22} :
          outcomes = <<Outcome(n1, 1, p1), Outcome(n2, 2, p2)>>
    BY <1>2 DEF Totals, TwoSided
  <2>2. Outcome(n1, 1, p1) \in TotalsBet /\ Outcome(n2, 2, p2) \in TotalsBet
    BY DEF Outcome, TotalsBet, NoPoint
  <2> QED
    BY <2>1, <2>2
<1> QED
  BY <1>1, <1>2, HandicapsKept, TotalsKept, ResultsKept, BetwayAlone DEF OddsTrue, Sides

\* The odds stored with a match say what the bookmaker says (OddsTrue): each line of
\* a market keeps its price, a market with a side missing is left out, betway's
\* prices are not mixed with others.  (match-sync.service.ts:450-787)
THEOREM SyncOddsTrue == Spec => []StoredOddsTrue
<1>1. StoredOddsTrue
  BY TheOddsAreTrue DEF StoredOddsTrue
<1> QED
  BY <1>1, PTL
=============================================================================
