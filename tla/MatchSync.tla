----------------------------- MODULE MatchSync -----------------------------
(***************************************************************************)
(* MatchSyncScheduler runs MatchSyncService.syncMatchesForAllActiveLeagues *)
(* from three intervals (the next day, week and month); nothing keeps the  *)
(* runs from overlapping.  A run fetches league after league and saves     *)
(* every match of the feed in a transaction of its own, creating the teams *)
(* it does not find.                                                       *)
(*                                                                         *)
(* The transactions are READ COMMITTED: a query sees the committed rows    *)
(* and those of its own transaction, an insert waits for the transaction   *)
(* that holds its key, an update for the one that holds its row, and       *)
(* PostgreSQL breaks a circle of waiting transactions by aborting one.     *)
(***************************************************************************)
EXTENDS OddsExtraction

CONSTANTS
    Fixtures, LeagueOf, \* the matches of the provider; the league of each
    HomeName, AwayName, \* of each fixture
    Leagues,            \* TOP_5_EUROPEAN_LEAGUES, a sequence
    TeamKey,            \* generateTeamExternalId of each name
    Runs,               \* the intervals
    Window,             \* the fixtures in the date range of each interval
    MaxNews,            \* bound on the changes of a fixture in the feed
    MaxFaults           \* bound on failed calls and crashes

ASSUME RunsAssumption ==
    /\ Window \in [Runs -> SUBSET Fixtures]
    /\ Leagues \in Seq({LeagueOf[f] : f \in Fixtures})
    /\ MaxNews \in Nat
    /\ MaxFaults \in Nat

VARIABLES
    feed,    \* what the provider would say of each fixture
    stored,  \* the match_data row of each fixture
    team,    \* the teams rows
    run,     \* the runs, with the transaction each is in
    solo,    \* whether the runs happen not to overlap; chosen once
    faults

vars == <<feed, stored, team, run, solo, faults>>

-----------------------------------------------------------------------------
(* Rows *)

Names == {HomeName[f] : f \in Fixtures} \cup {AwayName[f] : f \in Fixtures}
Keys  == {TeamKey[n] : n \in Names}

\* Time, teams and odds of a fixture are told apart by their version only.
NoVersion == -1
Versions  == 0..MaxNews

Team  == [key : Keys, name : Names]
Match == [status : {"scheduled", "finished"}, version : Versions,
          odds : Versions \cup {NoVersion}, home : Keys, away : Keys]
NoMatch == [status |-> "none", version |-> NoVersion, odds |-> NoVersion]

Entry == [fixture : Fixtures, version : Versions, priced : BOOLEAN]

NoRun == [pc |-> "idle", leagues |-> <<>>, entries |-> {}, entry |-> {},
          found |-> NoMatch, op |-> "none", teams |-> {}, row |-> NoMatch]

Free(r) == [run[r] EXCEPT !.pc = "between", !.entry = {}, !.found = NoMatch,
                          !.op = "none", !.teams = {}, !.row = NoMatch]

FixtureOf(r) == (CHOOSE e \in run[r].entry : TRUE).fixture

-----------------------------------------------------------------------------
(* A run *)

StartRun(r) ==
    /\ run[r].pc = "idle"
    /\ solo => \A s \in Runs : run[s].pc = "idle"
    /\ run' = [run EXCEPT ![r].pc = "between", ![r].leagues = Leagues]
    /\ UNCHANGED <<feed, stored, team, solo, faults>>

\* A fault for TLC to find: the feed is asked without a date range.
ListedAlways(r, league) == {f \in Window[r] : LeagueOf[f] = league}

\* The provider lists what begins between now and the end of the range.
Listed(r, league) ==
    {f \in Window[r] : LeagueOf[f] = league /\ ~feed[f].over}

FetchLeague(r) ==
    /\ run[r].pc = "between" /\ run[r].entries = {} /\ run[r].leagues # <<>>
    /\ run' = [run EXCEPT ![r].leagues = Tail(@),
                          ![r].entries = {[fixture |-> f, version |-> feed[f].version,
                                           priced |-> feed[f].priced] :
                                              f \in Listed(r, Head(run[r].leagues))}]
    /\ UNCHANGED <<feed, stored, team, solo, faults>>

\* No provider, no league, no answer: the loop goes on with the next league.  (An
\* answer that is not an array gives no entries.)
FailLeague(r) ==
    /\ faults < MaxFaults
    /\ run[r].pc = "between" /\ run[r].entries = {} /\ run[r].leagues # <<>>
    /\ run' = [run EXCEPT ![r].leagues = Tail(@)]
    /\ faults' = faults + 1
    /\ UNCHANGED <<feed, stored, team, solo>>

EndRun(r) ==
    /\ run[r].pc = "between" /\ run[r].entries = {} /\ run[r].leagues = <<>>
    /\ run' = [run EXCEPT ![r] = NoRun]
    /\ UNCHANGED <<feed, stored, team, solo, faults>>

-----------------------------------------------------------------------------
(* processAndSaveMatchInNewTransaction *)

\* A fault for TLC to find: a match that is there already is passed over.
TakeNewEntry(r) ==
    /\ run[r].pc = "between"
    /\ \E e \in run[r].entries :
         run' = [run EXCEPT ![r] =
                    IF stored[e.fixture] # NoMatch
                    THEN [@ EXCEPT !.entries = @ \ {e}]
                    ELSE [@ EXCEPT !.entries = @ \ {e}, !.pc = "home", !.entry = {e}]]
    /\ UNCHANGED <<feed, stored, team, solo, faults>>

\* The match is looked up by its external id, or created in memory.  (An entry
\* without id, time or team names is passed over: the feed has none here.)
TakeEntry(r) ==
    /\ run[r].pc = "between"
    /\ \E e \in run[r].entries :
         run' = [run EXCEPT ![r].entries = @ \ {e}, ![r].pc = "home", ![r].entry = {e},
                            ![r].found = stored[e.fixture]]
    /\ UNCHANGED <<feed, stored, team, solo, faults>>

TeamName(r) == IF run[r].pc = "home" THEN HomeName[FixtureOf(r)] ELSE AwayName[FixtureOf(r)]

After(pc) == IF pc = "home" THEN "away" ELSE "save"

Overlaid(rows, own) == {t \in rows : \A o \in own : o.key # t.key} \cup own

\* getOrCreateTeam: by name, by key, or none.
LookTeam(r) ==
    /\ run[r].pc \in {"home", "away"} /\ run[r].op = "none"
    /\ LET rows == Overlaid(team, run[r].teams)
       IN  run' = [run EXCEPT ![r] =
              IF \E t \in rows : t.name = TeamName(r)
              THEN [@ EXCEPT !.pc = After(run[r].pc)]
              ELSE [@ EXCEPT !.op = IF \E t \in rows : t.key = TeamKey[TeamName(r)]
                                    THEN "rename" ELSE "insert"]]
    /\ UNCHANGED <<feed, stored, team, solo, faults>>

Open == {r \in Runs : run[r].pc \in {"home", "away", "save", "commit"}}

\* r waits for the transaction of s.
Waits(r, s) ==
    /\ r # s /\ {r, s} \subseteq Open
    /\ \/ /\ run[r].op # "none"
          /\ \E t \in run[s].teams : t.key = TeamKey[TeamName(r)]
       \/ run[r].pc = "save" /\ run[s].pc = "commit" /\ FixtureOf(r) = FixtureOf(s)

Blocked(r) == \E s \in Runs : Waits(r, s)

\* A fault for TLC to find: teams are saved outside of the transaction.
WriteTeamAtOnce(r) ==
    /\ run[r].op # "none" /\ ~Blocked(r)
    /\ LET new == [key |-> TeamKey[TeamName(r)], name |-> TeamName(r)]
       IN  /\ team' = Overlaid(team, {new})
           /\ run' = [run EXCEPT ![r].op = "none", ![r].pc = After(@)]
    /\ UNCHANGED <<feed, stored, solo, faults>>

\* A key that was committed meanwhile ends the transaction: the team is looked
\* up again, but every query of an aborted transaction fails.
WriteTeam(r) ==
    /\ run[r].op # "none" /\ ~Blocked(r)
    /\ LET new == [key |-> TeamKey[TeamName(r)], name |-> TeamName(r)]
       IN  run' = [run EXCEPT ![r] =
              IF run[r].op = "insert" /\ \E t \in team : t.key = new.key
              THEN Free(r)
              ELSE [@ EXCEPT !.op = "none", !.pc = After(run[r].pc),
                             !.teams = Overlaid(run[r].teams, {new})]]
    /\ UNCHANGED <<feed, stored, team, solo, faults>>

\* A fault for TLC to find: odds that are not sent are removed.
SavedOddsOfFeed(e, found) == IF e.priced THEN e.version ELSE NoVersion

\* The odds of the last feed that had some.
SavedOdds(e, found) == IF e.priced THEN e.version ELSE found.odds

\* A fault for TLC to find: the status is not set.
SavedKeepingStatus(r) ==
    LET e == CHOOSE e \in run[r].entry : TRUE
    IN  [status |-> run[r].found.status, version |-> e.version,
         odds |-> SavedOdds(e, run[r].found),
         home |-> TeamKey[HomeName[e.fixture]], away |-> TeamKey[AwayName[e.fixture]]]

\* The match goes back to scheduled, whatever it was.
Saved(r) ==
    LET e == CHOOSE e \in run[r].entry : TRUE
    IN  [status |-> "scheduled", version |-> e.version,
         odds |-> SavedOdds(e, run[r].found),
         home |-> TeamKey[HomeName[e.fixture]], away |-> TeamKey[AwayName[e.fixture]]]

\* As for teams, a match that was inserted meanwhile ends the transaction.
SaveMatch(r) ==
    /\ run[r].pc = "save" /\ ~Blocked(r)
    /\ run' = [run EXCEPT ![r] =
                  IF run[r].found = NoMatch /\ stored[FixtureOf(r)] # NoMatch
                  THEN Free(r)
                  ELSE [@ EXCEPT !.pc = "commit", !.row = Saved(r)]]
    /\ UNCHANGED <<feed, stored, team, solo, faults>>

CommitMatch(r) ==
    /\ run[r].pc = "commit"
    /\ stored' = [stored EXCEPT ![FixtureOf(r)] = run[r].row]
    /\ team' = Overlaid(team, run[r].teams)
    /\ run' = [run EXCEPT ![r] = Free(r)]
    /\ UNCHANGED <<feed, solo, faults>>

\* PostgreSQL aborts a transaction of a circle; the match is counted as failed.
BreakDeadlock(r) ==
    /\ \E S \in SUBSET Runs :
         /\ r \in S
         /\ \A s \in S : (\E t \in S : Waits(s, t)) /\ (\E t \in S : Waits(t, s))
    /\ run' = [run EXCEPT ![r] = Free(r)]
    /\ UNCHANGED <<feed, stored, team, solo, faults>>

FailMatch(r) ==
    /\ faults < MaxFaults
    /\ r \in Open
    /\ run' = [run EXCEPT ![r] = Free(r)]
    /\ faults' = faults + 1
    /\ UNCHANGED <<feed, stored, team, solo>>

-----------------------------------------------------------------------------
(* Around it *)

\* The kick-off is moved, or the bookmakers quote other prices or none.
News(f) ==
    /\ ~feed[f].over
    /\ feed[f].version < MaxNews
    /\ \E p \in BOOLEAN :
         feed' = [feed EXCEPT ![f].version = @ + 1, ![f].priced = p]
    /\ UNCHANGED <<stored, team, run, solo, faults>>

\* Whoever enters results closes the match.  A match lasts longer than a run:
\* one that listed it is over by then.
FinishMatch(f) ==
    /\ ~feed[f].over
    /\ \A r \in Runs : \A e \in run[r].entries \cup run[r].entry : e.fixture # f
    /\ feed' = [feed EXCEPT ![f].over = TRUE]
    /\ stored' = [stored EXCEPT ![f] =
                     IF @ = NoMatch THEN @ ELSE [@ EXCEPT !.status = "finished"]]
    /\ UNCHANGED <<team, run, solo, faults>>

Crash ==
    /\ faults < MaxFaults
    /\ faults' = faults + 1
    /\ run' = [r \in Runs |-> NoRun]
    /\ UNCHANGED <<feed, stored, team, solo>>

-----------------------------------------------------------------------------
Init ==
    /\ feed = [f \in Fixtures |-> [over |-> FALSE, version |-> 0, priced |-> TRUE]]
    /\ stored = [f \in Fixtures |-> NoMatch]
    /\ team = {}
    /\ run = [r \in Runs |-> NoRun]
    /\ solo \in BOOLEAN
    /\ faults = 0

RunStep(r) ==
    \/ StartRun(r) \/ FetchLeague(r) \/ EndRun(r) \/ TakeEntry(r) \/ LookTeam(r)
    \/ WriteTeam(r) \/ SaveMatch(r) \/ CommitMatch(r) \/ BreakDeadlock(r)

Next ==
    \/ \E r \in Runs : RunStep(r) \/ FailLeague(r) \/ FailMatch(r)
    \/ \E f \in Fixtures : News(f) \/ FinishMatch(f)
    \/ Crash

Spec == Init /\ [][Next]_vars

\* The intervals fire again and again, every query is answered, and PostgreSQL
\* gives a lock to a transaction that waits for it.
FairSpec ==
    /\ Spec
    /\ \A r \in Runs : WF_vars(RunStep(r)) /\ SF_vars(WriteTeam(r) \/ SaveMatch(r))

-----------------------------------------------------------------------------
(* Properties *)

RunRow == [pc : {"idle", "between", "home", "away", "save", "commit"},
           leagues : Seq({LeagueOf[f] : f \in Fixtures}), entries : SUBSET Entry,
           entry : SUBSET Entry, found : Match \cup {NoMatch},
           op : {"none", "rename", "insert"}, teams : SUBSET Team,
           row : Match \cup {NoMatch}]

TypeOK ==
    /\ feed \in [Fixtures -> [over : BOOLEAN, version : Versions, priced : BOOLEAN]]
    /\ stored \in [Fixtures -> Match \cup {NoMatch}]
    /\ team \subseteq Team
    /\ run \in [Runs -> RunRow]
    /\ solo \in BOOLEAN
    /\ faults \in 0..MaxFaults

\* However runs overlap and fail, the teams table has one row for each club, under
\* a name of that club, and a club only because a stored match is played by it:
\* no row is left behind by a match that could not be saved.
\* (match-sync.service.ts:224-245, 400-430)
TeamsAgree ==
    /\ \A t, u \in team : t.key = u.key \/ t.name = u.name => t = u
    /\ \A t \in team :
         /\ t.key = TeamKey[t.name]
         /\ \E f \in Fixtures : stored[f] # NoMatch /\ t.key \in {stored[f].home, stored[f].away}
    /\ \A f \in Fixtures : stored[f] # NoMatch =>
         \A k \in {stored[f].home, stored[f].away} : \E t \in team : t.key = k

\* A synchronisation writes "scheduled" over whatever status a match has; it never
\* reopens one that is over, or its tips would be stuck or judged again.
\* (match-sync.service.ts:316, tip-outcome-determination.scheduler.ts:180)
FinishedStays ==
    [][\A f \in Fixtures :
           stored[f].status = "finished" => stored'[f].status = "finished"]_vars

\* As long as runs do not overlap, the table never goes back to an older answer of
\* the provider, and a match that has had odds keeps some.
\* (match-sync.service.ts:257-329)
NeverBackwards ==
    [][solo => \A f \in Fixtures :
           /\ stored'[f].version >= stored[f].version
           /\ stored'[f].odds >= stored[f].odds]_vars

\* The odds that are stored with a match say what the feed says (OddsTrue, a fact
\* about the extraction alone, looked at before any match is stored).
\* (match-sync.service.ts:450-787)
StoredOddsTrue == (\A f \in Fixtures : stored[f] = NoMatch) => OddsTrue

\* Overlapping runs, unique-key failures, deadlocks, lost answers and crashes only
\* delay it: a match that is still ahead gets into the table, and what the
\* provider says of it last stays there.
EventuallyFresh ==
    \A f \in (UNION {Window[r] : r \in Runs}) :
        <>[](~solo /\ ~feed[f].over) => <>[](stored[f].version = feed[f].version)

\* The same with overlapping runs.  (Refuted: the run with the older answer may
\* save last.)
NeverBackwardsAtAll ==
    [][\A f \in Fixtures : stored'[f].version >= stored[f].version]_vars

\* "already exists in database (unique constraint violation), fetching existing
\* match" (match-sync.service.ts:344): a match does not fail because another run
\* has stored it.  (Refuted: the transaction is aborted by then.)
RecoversFromRace ==
    [][\A r \in Runs : run[r].pc = "save" /\ run[r].found = NoMatch /\ run'[r].pc = "between"
           => faults' > faults]_vars

=============================================================================
