--------------------------- MODULE MCEventSignals ---------------------------
(* EventSignals for TLC.  Times are in steps of the window: a story is told  *)
(* by two outlets, retold an hour on, and resembles another in its symbol    *)
(* only, which is exactly the threshold.                                     *)
EXTENDS EventSignals

Text(symbols, reasons, title) ==
    [symbols |-> symbols, reasons |-> reasons, assets |-> {}, title |-> title]

Story == {Text({"aapl"}, {}, {"cut"}), Text({"AAPL", "TSLA"}, {"rates"}, {"cut", "deal"}),
          Text({"AAPL"}, {}, {"deal"})}

MCShape == {[pub |-> t, domain |-> d] @@ s : t \in {0, 2, 4}, d \in {"cnbc", "wsj"}, s \in Story}
MCUpper == [s \in {"aapl", "AAPL", "TSLA"} |-> IF s = "aapl" THEN "AAPL" ELSE s]
MCAlphabet == [cnbc |-> 1, wsj |-> 2]
MCLog10 == 0 :> 0 @@ 1 :> 3010 @@ 2 :> 4771 @@ 3 :> 6021

=============================================================================
