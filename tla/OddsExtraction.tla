--------------------------- MODULE OddsExtraction ---------------------------
(***************************************************************************)
(* What MatchSyncService keeps of the odds the provider sends for a match  *)
(* (extractOddsFromMatchData and the five extractors below it).            *)
(*                                                                         *)
(* A bookmaker is [key, markets], its markets a function from the names it *)
(* quotes to sequences of outcomes [name, price, point].  The name of an   *)
(* outcome is reduced to what the code makes of it: "home" and "away" are  *)
(* the names of the two teams, "one" is the away team when its name begins *)
(* with "1", "missing" is no name at all.  A price of 0 is none; points    *)
(* are in quarter goals.  Odds are a function from keys to prices.         *)
(***************************************************************************)
EXTENDS Integers, Sequences, FiniteSetsExt

NoPoint == 1000
NoOdds  == <<>>
NoKey   == <<"none">>

Outcome(name, price, point) == [name |-> name, price |-> price, point |-> point]

\* The loops of the extractors: outcomes without a price are passed over, and of
\* two with the same key the last one counts.
Priced(outcomes, Key(_)) ==
    LET used == {i \in DOMAIN outcomes :
                    outcomes[i].price > 0 /\ Key(outcomes[i]) # NoKey}
        At(k) == Max({i \in used : Key(outcomes[i]) = k})
    IN  [k \in {Key(outcomes[i]) : i \in used} |-> outcomes[At(k)].price]

Quoted(markets, name) == IF name \in DOMAIN markets THEN markets[name] ELSE <<>>

QuotedOr(markets, name, other) ==
    Quoted(markets, IF name \in DOMAIN markets THEN name ELSE other)

\* An outcome with a price and no name makes the extractor throw.
Nameless(outcomes) ==
    \E i \in DOMAIN outcomes : outcomes[i].price > 0 /\ outcomes[i].name = "missing"

-----------------------------------------------------------------------------
MatchResultKey(o) ==
    CASE o.name = "home"            -> <<"home_win">>
      [] o.name \in {"away", "one"} -> <<"away_win">>
      [] o.name = "draw"            -> <<"draw">>
      [] OTHER                      -> NoKey

extractMatchResult(markets) ==
    LET outcomes == Quoted(markets, "h2h")
        odds     == Priced(outcomes, MatchResultKey)
    IN  IF Len(outcomes) >= 3 /\ Cardinality(DOMAIN odds) = 3 THEN odds ELSE NoOdds

\* toFixed(1) of a number of quarters without its sign, in tenths: 2.25 becomes
\* "2.3".
Tenths(quarters) == (5 * (IF quarters < 0 THEN -quarters ELSE quarters) + 1) \div 2

\* Only the lines 0.5 to 4.5 are kept.
OverUnderKey(o) ==
    IF /\ o.name \in {"over", "under"}
       /\ o.point # NoPoint
       /\ o.point > 0 /\ Tenths(o.point) \in {5, 15, 25, 35, 45}
    THEN <<o.name, Tenths(o.point)>> ELSE NoKey

extractOverUnder(markets) ==
    Priced(QuotedOr(markets, "totals", "alternate_totals"), OverUnderKey)

\* "yes" is tried first, and "not both teams to score" contains its text.
BttsKey(o) ==
    CASE o.name \in {"yes", "both", "not both"} -> <<"yes">>
      [] o.name = "no"                          -> <<"no">>
      [] OTHER                                  -> NoKey

extractBtts(markets) ==
    LET odds == Priced(Quoted(markets, "btts"), BttsKey)
    IN  IF Cardinality(DOMAIN odds) = 2 THEN odds ELSE NoOdds

DoubleChanceKey(o) ==
    CASE o.name = "1x" -> <<"home_draw">>
      [] o.name = "12" -> <<"home_away">>
      [] o.name = "x2" -> <<"away_draw">>
      [] OTHER         -> NoKey

extractDoubleChance(markets) == Priced(Quoted(markets, "double_chance"), DoubleChanceKey)

\* A fault for TLC to find: the key has no sign.
HandicapKeyUnsigned(o) ==
    IF o.point = NoPoint THEN NoKey
    ELSE <<IF o.name \in {"home", "one"} THEN "home" ELSE "away", "", Tenths(o.point)>>

\* A point at or above zero is marked "+", a negative one loses its sign.  A name
\* that begins with "1" is the home team's; one that is neither team's is told
\* by the sign.
formatHandicapKey(o) ==
    LET sign == IF o.point >= 0 THEN "+" ELSE ""
        side == CASE o.name \in {"home", "one"} -> "home"
                  [] o.name = "away"            -> "away"
                  [] OTHER -> IF o.point >= 0 THEN "home" ELSE "away"
    IN  IF o.point = NoPoint THEN NoKey ELSE <<side, sign, Tenths(o.point)>>

extractHandicap(markets) ==
    Priced(QuotedOr(markets, "spreads", "alternate_spreads"), formatHandicapKey)

-----------------------------------------------------------------------------
Extracted(markets) ==
    [match_result  |-> extractMatchResult(markets),
     over_under    |-> extractOverUnder(markets),
     btts          |-> extractBtts(markets),
     double_chance |-> extractDoubleChance(markets),
     handicap      |-> extractHandicap(markets)]

\* The first "betway", or else the first bookmaker of all.
Chosen(bookmakers) ==
    LET betway == {i \in DOMAIN bookmakers : bookmakers[i].key = "betway"}
    IN  bookmakers[IF betway = {} THEN 1 ELSE Min(betway)]

\* An exception in one extractor leaves the match without any odds.
Breaks(markets) ==
    \/ Len(Quoted(markets, "h2h")) >= 3 /\ Nameless(Quoted(markets, "h2h"))
    \/ Nameless(SelectSeq(QuotedOr(markets, "totals", "alternate_totals"),
                          LAMBDA o : o.point # NoPoint))
    \/ Nameless(Quoted(markets, "btts"))
    \/ Nameless(Quoted(markets, "double_chance"))
    \/ Nameless(SelectSeq(QuotedOr(markets, "spreads", "alternate_spreads"),
                          LAMBDA o : o.point # NoPoint))

extractOddsFromMatchData(bookmakers) ==
    IF bookmakers = <<>> \/ Breaks(Chosen(bookmakers).markets) THEN NoOdds
    ELSE LET found == Extracted(Chosen(bookmakers).markets)
             some  == {m \in DOMAIN found : found[m] # NoOdds}
         IN  IF some = {} THEN NoOdds ELSE [m \in some |-> found[m]]

-----------------------------------------------------------------------------
(* What the odds should say *)

\* Every price is a number of its own, so that it tells where it came from.
TwoSided(names, points) ==
    {<<Outcome(n1, 1, p1), Outcome(n2, 2, p2)>> :
        n1 \in names, n2 \in names, p1 \in points, p2 \in points}

Orders(names) ==
    {<<Outcome(a, 1, NoPoint), Outcome(b, 2, NoPoint), Outcome(c, 3, NoPoint)>> :
        a \in names, b \in names, c \in names}

Handicaps == TwoSided({"home", "away"}, -8..8)
Totals    == TwoSided({"over", "under"}, {2, 5, 6, 9, 10, 14, 18, 22})

Quoting(market, outcomes) == [m \in {market} |-> outcomes]

Bettor(key, market, outcomes) == [key |-> key, markets |-> Quoting(market, outcomes)]

Differ(outcomes) == \A i, j \in DOMAIN outcomes :
    i # j => <<outcomes[i].name, outcomes[i].point>> # <<outcomes[j].name, outcomes[j].point>>

\* No price is lost or given to another prediction: two bets that differ have
\* keys that differ, in whatever order they are listed; a market of which a side
\* is missing is not quoted; and betway's prices are never mixed with others.
\* (match-sync.service.ts:451-788)
OddsTrue ==
    /\ \A outcomes \in Handicaps : Differ(outcomes) =>
           LET odds == extractHandicap(Quoting("spreads", outcomes))
           IN  \A i \in DOMAIN outcomes : odds[formatHandicapKey(outcomes[i])] = outcomes[i].price
    /\ \A outcomes \in Totals : Differ(outcomes) =>
           LET odds == extractOverUnder(Quoting("alternate_totals", outcomes))
           IN  \A i \in DOMAIN outcomes :
                   OverUnderKey(outcomes[i]) # NoKey =>
                       odds[<<outcomes[i].name, Tenths(outcomes[i].point)>>] = outcomes[i].price
    /\ \A outcomes \in Orders({"home", "away", "draw"}) :
           LET odds == extractMatchResult(Quoting("h2h", outcomes))
           IN  IF Differ(outcomes)
               THEN \A i \in DOMAIN outcomes : odds[MatchResultKey(outcomes[i])] = outcomes[i].price
               ELSE odds = NoOdds
    /\ \A first, second \in Orders({"home", "away", "draw"}) :
           extractOddsFromMatchData(<<Bettor("other", "h2h", first),
                                      Bettor("betway", "h2h", second)>>)
               = extractOddsFromMatchData(<<Bettor("betway", "h2h", second)>>)

\* The price of a team's handicap is kept as that team's.  (Refuted: "1. FC
\* Koeln" away from home is read as the home team.)
SidesKept ==
    \A o \in {Outcome(n, 1, p) : n \in {"home", "away", "one"}, p \in -8..8} :
        formatHandicapKey(o)[1] = "home" <=> o.name = "home"

=============================================================================
