------------------------------ MODULE MCAiTips ------------------------------
(* Small instances of AiTips for TLC. *)
EXTENDS AiTips, TLC

CONSTANTS m1, m2, startup, daily, elsewhere

\* The start-up run of the weekend job, and the daily job of two competitions.
TwoJobs == [j \in Jobs |-> IF j = startup THEN <<Weekend>> ELSE <<"afcon", "euros">>]

\* A match of each competition; the first is played first.
Cups  == (m1 :> "afcon") @@ (m2 :> "euros")
Order == (m1 :> {}) @@ (m2 :> {m1})

\* Little is known of one match and more of the other; the mean is 29.5.
Known == (m1 :> [maturity |-> 9, has |-> {"odds", "form"}, tokens |-> 400])
      @@ (m2 :> [maturity |-> 50, has |-> Sections, tokens |-> 1900])

\* Over 2.5 goals, or a text nothing reads, of one match, and a double chance of the
\* other; two of them with blanks around the text.
SomePredictions ==
    LET over == Text("OVER_UNDER", "over", 10, TRUE)
    IN  (m1 :> {over, Text("DOUBLE_CHANCE", "double_text", NoLine, FALSE)})
     @@ (m2 :> {Text("DOUBLE_CHANCE", "home_draw", NoLine, TRUE)})
     @@ (elsewhere :> {over})
=============================================================================
