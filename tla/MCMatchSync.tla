---------------------------- MODULE MCMatchSync ----------------------------
(* Small instances of MatchSync. *)
EXTENDS MatchSync, TLC

CONSTANTS f1, f2, daily, weekly

\* Two matches that share both clubs in opposite order, one club under two
\* spellings, and a fixture that cannot be used.
Home       == f1 :> "Arsenal FC" @@ f2 :> "Chelsea"
Away       == f1 :> "Chelsea" @@ f2 :> "Arsenal-FC"
LeagueName == f1 :> "epl" @@ f2 :> "epl"
Key        == "Arsenal FC" :> "arsenal_fc" @@ "Arsenal-FC" :> "arsenal_fc" @@ "Chelsea" :> "chelsea"
Windows    == daily :> {f1} @@ weekly :> {f1, f2}
OneLeague  == <<"epl">>
=============================================================================
