------------------------------ MODULE TipViews ------------------------------
(***************************************************************************)
(* What TipsService shows of the tip of TipLifecycle: the public list and  *)
(* its counters, the tipster's own list, the page of a tip with and        *)
(* without its selections, and the streak of the tipster.  Every view is a *)
(* function of the tables; searching, sorting, pages and the wording of a  *)
(* tip are left out.                                                       *)
(***************************************************************************)
EXTENDS TipLifecycle, SequencesExt

CONSTANTS
    Tipster,
    Prices   \* prices the tip may have had all along

\* purchaseTip turns the tipster away.
ASSUME TipsterAssumption == Tipster \notin Buyers

Users == Buyers \cup {Tipster}

HasPurchased(u) == u \in Buyers /\ purchase[u].status = "COMPLETED"

\* A decimal column is read as a text, which is no number to === and !==.
ReadPrice(p)      == <<"text", p>>
Equals(column, n) == column = <<"number", n>>

\* The tipster's own list passes no user on: its tips say neither whose they are nor
\* who has bought them.
mapWithoutUser == [status |-> tip.status, totals |-> tip.totals]

\* The list says of a tip whose it is and whether the user has bought it.
mapToResponse(u) ==
    [status |-> tip.status, totals |-> tip.totals, isCreator |-> u = Tipster,
     hasPurchased |-> u # Tipster /\ HasPurchased(u)]

getTips(u)   == IF tip.published THEN {mapToResponse(u)} ELSE {}
getMyTips(u) == IF tip # NoTip /\ u = Tipster THEN {mapWithoutUser} ELSE {}

countFreeTips(p) == IF tip.published /\ p = 0 THEN 1 ELSE 0

\* A fault for TLC to find: one match that is ahead is enough.
CountPartly ==
    IF tip.published /\ \E r \in rows : match[r.match] \in Scheduled THEN 1 ELSE 0

countAvailableTips ==
    IF tip.published /\ \A r \in rows : match[r.match] \in Scheduled THEN 1 ELSE 0

\* The selections, for the tipster alone.
getTipForEditing(u) == IF tip # NoTip /\ u = Tipster THEN rows ELSE {}

\* The selections, for the tipster, for who has paid, and for everybody when the
\* published tip is free.
getTipDetails(u, p) ==
    IF /\ tip # NoTip
       /\ u = Tipster \/ HasPurchased(u) \/ (Equals(ReadPrice(p), 0) /\ tip.published)
    THEN rows ELSE {}

\* The status of each published tip, the last one first.
getTipsterTips(earlier) ==
    IF tip.published THEN <<tip.status>> \o earlier ELSE earlier

calculateStreak(statuses) ==
    LET ends == {i \in DOMAIN statuses : statuses[i] \in {"lost", "pending"}}
    IN  Cardinality({i \in DOMAIN statuses :
                        statuses[i] = "won" /\ \A e \in ends : i < e})

-----------------------------------------------------------------------------
(* Properties *)

Histories == UNION {[1..n -> Decided \cup {"pending"}] : n \in 0..2}

\* What is counted as available is not decided and has all its matches ahead.
AvailableIsOpen ==
    countAvailableTips > 0 =>
        /\ tip.status = "pending"
        /\ \A r \in rows : r.verdict = "none"

\* Whoever has paid gets the selections whose odds and date the list shows, and
\* finds the tip in the list.
BuyersGetTheListed ==
    \A u \in Users, p \in Prices : HasPurchased(u) =>
        /\ getTipDetails(u, p) # {}
        /\ \E shown \in getTips(u) :
              shown.hasPurchased /\ shown.totals = KeysOf(getTipDetails(u, p))

\* Nobody but the tipster sees the selections of a draft.
DraftsAreHidden ==
    ~tip.published =>
        \A u \in Users \ {Tipster}, p \in Prices :
            getTipDetails(u, p) = {} /\ getTips(u) = {}

\* Of the tips that are decided only a lost one costs the tipster the streak.
StreakKept ==
    tip.published /\ tip.status \in Decided \ {"lost"} =>
        \A earlier \in Histories :
            calculateStreak(getTipsterTips(earlier)) >= calculateStreak(earlier)

\* The pages agree with each other and with the life of the tip, as long as the
\* tipster does one thing at a time, whatever the crons and the buyers do
\* meanwhile.  (tips.service.ts:192-218, 347-370, 1805-1821, 2925-2950)
PagesAgree ==
    tabs = 1 => AvailableIsOpen /\ BuyersGetTheListed /\ DraftsAreHidden /\ StreakKept

\* "Free tips (price = 0) are accessible to all authenticated users when
\* published." (tips.controller.ts:444)  (Refuted: the price is read as a text.)
FreeTipsAreOpen ==
    tip.published /\ 0 \in Prices =>
        \A u \in Users : getTipDetails(u, 0) = rows
=============================================================================
