---------------------------- MODULE MCNewsPoller ----------------------------
(* NewsPoller for TLC: articles a and b carry the same headline at different *)
(* urls; b and c are two texts at one url, c under a headline too generic to *)
(* compare.                                                                  *)
EXTENDS NewsPoller

MCItem == {"a", "b", "c"}
MCUrlOf == [i \in MCItem |-> IF i = "a" THEN "url1" ELSE "url2"]
MCTitleOf == [i \in MCItem |-> IF i = "c" THEN "" ELSE "story"]

=============================================================================
