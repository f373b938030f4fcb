------------------------------ MODULE MCSignals ------------------------------
(* The reports of SurgeSignals, SentimentSignals and MixSignals for TLC: a   *)
(* run picks one, and fills its corpus with the rows that tell its cases     *)
(* apart.                                                                    *)
EXTENDS Reports

Plain == [at |-> 0, assets |-> {}, reasons |-> {}, symbols |-> {}, label |-> "none",
          relevance |-> 7, score |-> 0]

Quote(last, prev, error) == [last |-> last, prev |-> prev, error |-> error]
Quotes == {[y \in {"A", "SPY", "BTC-USD"} |-> IF y = "SPY" THEN b ELSE q] :
              q \in {Quote(11, 10, "none"), Quote(9, 10, "rate_limited"), Quote(None, 10, "none"),
                     Quote(5, 0, "none")},
              b \in {Quote(20, 10, "none"), Quote(None, 10, "none")}}

(* A small language for Pipeline. *)
Word == [keyword |-> FALSE, blocked |-> FALSE, footer |-> FALSE, denied |-> FALSE, labels |-> {},
         halves |-> 2, tone |-> "none", kinds |-> {}, found |-> "none", symbol |-> "none", says |-> {}]
Found(way, y) == [Word EXCEPT !.found = way, !.symbol = y, !.says = {y}]

MCLexicon ==
    [beat |-> [Word EXCEPT !.tone = "positive"],
     miss |-> [Word EXCEPT !.tone = "negative"],
     shares |-> [Word EXCEPT !.labels = {"equities"}, !.keyword = TRUE],
     inflation |-> [Word EXCEPT !.labels = {"inflation", "macro"}, !.keyword = TRUE, !.says = {"inflation"}],
     movie |-> [Word EXCEPT !.labels = {"celebrity"}, !.blocked = TRUE],
     wedding |-> [Word EXCEPT !.labels = {"celebrity"}, !.blocked = TRUE],
     subscribe |-> [Word EXCEPT !.footer = TRUE],
     Apple |-> [Found("alias", "AAPL") EXCEPT !.says = {"Apple"}],
     Microsft |-> Found("drift", "MSFT"),
     Bitcoin |-> [Found("alias", "BTC-USD") EXCEPT !.kinds = {"crypto"}, !.labels = {"crypto"},
                                                   !.says = {"Bitcoin"}]]
    @@ ("Federal Reserve" :> [Word EXCEPT !.kinds = {"central_bank"}, !.labels = {"central_bank"},
                                          !.halves = 3, !.keyword = TRUE, !.says = {"Federal Reserve"}])
    @@ ("$TSLA" :> Found("cashtag", "TSLA")) @@ ("(TSLA)" :> Found("paren", "TSLA"))
    @@ ("$SEC" :> [Found("cashtag", "SEC") EXCEPT !.denied = TRUE])
    @@ ("(NASDAQ: LI)" :> Found("exchange", "LI"))

MCShareTicker == {"AAPL", "TSLA", "MSFT", "LI", "SEC"}

MCDomainPrior == [reuters |-> 950, tmz |-> 100]
Headline(W) == [title |-> TRUE, at |-> 0, words |-> W]
Sentence(n, W) == [title |-> FALSE, at |-> n, words |-> W]
MCSentences ==
    {Headline({"Apple"}), Headline({"movie"}), Headline({"Federal Reserve", "(TSLA)"}),
     Sentence(1, {"Apple", "beat"}), Sentence(2, {"$TSLA", "shares"}), Sentence(3, {"inflation", "miss"}),
     Sentence(4, {"subscribe", "$TSLA", "miss"}), Sentence(5, {"(NASDAQ: LI)", "Bitcoin"}),
     Sentence(6, {"movie", "wedding"}), Sentence(7, {"$SEC", "Microsft"})}

MCLower == [t \in {"AAPL", "aapl", "T", "gold"} |->
                CASE t = "AAPL" -> "aapl" [] t = "T" -> "t" [] OTHER -> t]
Answer(last, prev, change) == [fails |-> FALSE, last |-> last, prev |-> prev, change |-> change]
MCSpelling == [AAPL |-> 1, T |-> 2, aapl |-> 3, gold |-> 4]
MCQuoteFor == [AAPL |-> Answer(11, 10, None), aapl |-> Answer(11, 0, None),
               T |-> [Answer(None, None, None) EXCEPT !.fails = TRUE], gold |-> Answer(None, 5, 7)]
MCWatch == <<"AAPL", "T", "aapl", "gold">>

Story(n, published, y, a) ==
    [nth |-> n, published |-> published, offset |-> n, domain |-> "wsj", words |-> {y}, assets |-> a,
     reasons |-> {"war"}, symbols |-> {y}, label |-> "positive", relevant |-> TRUE, score |-> n + 2]

SaysOf(a, v, l) == [relevant |-> a # {}, score |-> v, assets |-> a, reasons |-> {"war"},
                    symbols |-> {"A"}, label |-> l]
SaysNothing == [relevant |-> FALSE, score |-> 0, assets |-> {}, reasons |-> {}, symbols |-> {}, label |-> "none"]
Review(capture, reviewer, at, says) ==
    [capture |-> capture, reviewer |-> reviewer, at |-> at, says |-> says,
     error |-> says = SaysNothing, cost |-> IF reviewer = "deepseek" THEN at ELSE 0]

Feed(n, name, url, prefix) ==
    [nth |-> n, name |-> name, url |-> url, prefix |-> prefix, parser |-> "rss", domain |-> "other",
     polls |-> n, ok |-> TRUE, backedOff |-> FALSE]

MCShape ==
    [anomalies |->
        {[Plain EXCEPT !.at = t, !.label = "positive", !.symbols = {"A"}] : t \in 0 .. 3}
        \cup {[Plain EXCEPT !.at = t, !.label = "negative"] : t \in 0 .. 3},
     spillover |-> {[Plain EXCEPT !.at = t, !.assets = {a}] : t \in 0 .. 4, a \in {"fx", "rates"}},
     velocity |-> {[Plain EXCEPT !.at = t] : t \in 0 .. 5},
     regime |->
        {[Plain EXCEPT !.at = t, !.assets = a, !.reasons = {"rates"}] :
            t \in 0 .. 2, a \in {{"fx"}, {"fx", "equities"}}}
        \cup {[Plain EXCEPT !.at = t, !.assets = {"crypto"}] : t \in 0 .. 2},
     momentum |->
        {[Plain EXCEPT !.at = t, !.symbols = {"A"}, !.label = l] :
            t \in 0 .. 2, l \in {"positive", "neutral", "negative"}}
        \cup {[Plain EXCEPT !.at = 1, !.symbols = {"A", "B"}, !.label = l] :
                l \in {"positive", "negative"}},
     scopes |->
        {[Plain EXCEPT !.assets = {"fx"}, !.label = l, !.score = v] :
            l \in {"positive", "negative"}, v \in {-8, 5}}
        \cup {[Plain EXCEPT !.assets = {"fx", "rates"}, !.label = l, !.score = 10, !.relevance = 5] :
                l \in {"neutral", "positive", "negative", "none"}},
     tone |->
        {[theme |-> "fed", at |-> t, nth |-> 0, value |-> v] : t \in {1, 2}, v \in {-1, 1}}
        \cup {[theme |-> "fed", at |-> None, nth |-> k, value |-> 2 * k - 5] : k \in {1, 2, 4}}
        \cup {[theme |-> "crypto", at |-> 1, nth |-> 0, value |-> 4],
              [theme |-> "crypto", at |-> None, nth |-> 1, value |-> -4]},
     mix |->
        {[Plain EXCEPT !.at = t, !.symbols = {y}] : t \in {0, 3}, y \in {"A", "B"}}
        \cup {[Plain EXCEPT !.at = 1, !.symbols = {"A", "B"}, !.assets = {"fx"}, !.reasons = {"war"}],
              [Plain EXCEPT !.at = 3, !.assets = {"fx", "rates"}, !.reasons = {"rates", "war"}],
              [Plain EXCEPT !.at = 2, !.symbols = {"A"}, !.assets = {"rates"}]},
     sources |->
        {[day |-> d, domain |-> m, symbols |-> {"A"}, assets |-> {"fx"}, reasons |-> {"war"},
          label |-> "positive", relevant |-> TRUE, relevance |-> 9, top |-> "A"] :
            d \in {1, 4, 9}, m \in {"cnbc", "wsj"}}
        \cup {[day |-> d, domain |-> "wsj", symbols |-> {"A", "B"}, assets |-> {"fx", "rates"},
               reasons |-> {}, label |-> "negative", relevant |-> FALSE, relevance |-> 2,
               top |-> "B"] : d \in {4, 5}},
     clock |->
        {[weekday |-> x[1], minute |-> x[2], relevance |-> 6] :
            x \in {<<0, 239>>, <<0, 240>>, <<2, 600>>, <<4, 1199>>, <<4, 1200>>, <<5, 0>>,
                   <<5, 1439>>, <<6, 1079>>, <<6, 1080>>, <<6, 1300>>}},
     reaction |->
        {[symbols |-> {"A"}, assets |-> {}, quotes |-> q] : q \in Quotes}
        \cup {[symbols |-> {}, assets |-> {"crypto"}, quotes |-> q] :
                q \in {x \in Quotes : x["A"].last = 11 /\ x["SPY"].last = 20}}]
    @@ [r \in DOMAIN MCDomainPrior |-> MCSentences]
    @@ [gaps |->
        {[nth |-> 2 * t + (IF y = {"t"} THEN 1 ELSE 0), at |-> t, symbols |-> y, words |-> {}, score |-> t + 20,
          label |-> "negative"] :
            t \in {None, 1, 2, 5, 6}, y \in {{"aapl"}, {"t"}}}
        \cup {[nth |-> 7, at |-> 5, symbols |-> {}, words |-> {"gold", "aapl"}, score |-> 9, label |-> "positive"],
              [nth |-> 8, at |-> 2, symbols |-> {}, words |-> {"gold"}, score |-> 9, label |-> "none"]},
     golden |->
        {[wanted |-> w, relevant |-> g, want |-> x, got |-> y, symbols |-> {"A"}, found |-> {"A", "B"},
          tone |-> IF w THEN "positive" ELSE "none", label |-> IF g THEN "positive" ELSE "neutral"] :
            w \in BOOLEAN, g \in BOOLEAN, x \in {{"fx"}}, y \in {{}, {"fx", "rates"}}},
     backtest |->
        {[stub |-> p, expert |-> e, stubError |-> FALSE, expertError |-> FALSE] :
            p \in {0, 20, 59, 100}, e \in {0, 60}}
        \cup {[stub |-> None, expert |-> 5, stubError |-> FALSE, expertError |-> FALSE],
              [stub |-> 0, expert |-> 0, stubError |-> FALSE, expertError |-> TRUE],
              [stub |-> 120, expert |-> 100, stubError |-> FALSE, expertError |-> FALSE]},
     panels |->
        {Story(1, 9, "A", {"fx"}), Story(2, None, "A", {"fx", "rates"}), Story(3, 3, "B", {"fx"}),
         [Story(4, 8, "A", {"rates"}) EXCEPT !.relevant = FALSE, !.reasons = {}, !.label = "none"],
         [Story(5, 5, "B", {"fx"}) EXCEPT !.reasons = {"rates"}, !.symbols = {"A", "B"}, !.label = "negative"],
         [Story(6, 1, "B", {}) EXCEPT !.score = 1, !.domain = "A"]},
     compare |->
        {Review(1, "stub", 3, SaysOf({"fx"}, 400, "positive")),
         Review(1, "deepseek", 6, SaysOf({"fx"}, 400, "positive")),
         Review(1, "deepseek", 9, SaysOf({"fx", "rates"}, 900, "positive")),
         Review(1, "deepseek", 11, SaysNothing),
         Review(2, "stub", 4, SaysNothing), Review(2, "deepseek", 5, SaysNothing),
         Review(2, "deepseek", 10, [SaysOf({}, 100, "none") EXCEPT !.symbols = {"B"}]),
         Review(2, "stub", 8, [SaysOf({}, 100, "none") EXCEPT !.symbols = {}])},
     health |-> {"clock_is_off", "no_supervisor", "database_fails", "poller", "polled_before",
                 "last_poll_is_old", "schema_is_old", "disk_fails", "disk_is_low"},
     feeds |->
        {Feed(0, "f", "u", "none"), Feed(1, "f", "v", "gnews-"), Feed(2, "g", "u", "macro-"),
         [Feed(3, "h", "v", "none") EXCEPT !.ok = FALSE, !.domain = "regulator"],
         [Feed(4, "g", "w", "yt-") EXCEPT !.backedOff = TRUE, !.parser = "gdelt"],
         [Feed(5, "k", "w", "gnews-tkr-") EXCEPT !.parser = "reddit"]}]

MCMaxRows == [r \in DOMAIN MCShape |-> CASE r = "velocity" -> 7 [] r = "reaction" -> 3
                                      [] r \in DOMAIN MCDomainPrior \cup {"gaps", "golden", "backtest"} -> 4
                                      [] OTHER -> 6]

=============================================================================
