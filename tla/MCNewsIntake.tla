---------------------------- MODULE MCNewsIntake ----------------------------
(* NewsIntake for TLC: an article, and two texts at another url.             *)
EXTENDS NewsIntake

MCItem == {"a", "b", "c"}
MCUrlOf == [i \in MCItem |-> IF i = "a" THEN "url1" ELSE "url2"]
MCTitleOf == [i \in MCItem |-> ""]

=============================================================================
