------------------------------ MODULE Pipeline ------------------------------
(***************************************************************************)
(* From the text of a capture to its record (src/catchem/service.py and    *)
(* the stages it calls).  The rows of the corpus are here the sentences of *)
(* one capture: those of its title, and those of its body, which have a    *)
(* place in it and may be repeated.  A sentence is the words in it, and    *)
(* what the stages know of a word is in a lexicon.  Scores are thousandths.*)
(***************************************************************************)
EXTENDS Corpus

CONSTANTS
    Lexicon,        \* word -> what the word lists, patterns and the taxonomy say of it
    AssetClass, ReasonCode, NegativeClass,
    ShareTicker,          \* symbols spelt as those of shares are
    DomainPrior,    \* report -> thousandths
    SourcePrior,
    MinText,        \* words a text needs for its keywords to count
    WordLen,        \* characters of a word, with its space
    SymbolSpan,     \* sentences the symbol mapper reads, after the title
    MaxSymbols, EvidenceTopK

Pipelines == DOMAIN DomainPrior     \* the reports that are captures

(* The shipped taxonomy (configs/taxonomy.yaml): every class has its channel *)
(* and every reason its horizon.                                             *)
Channelled == {"equities", "indices", "rates", "credit", "fx", "commodities", "crypto", "macro"}
ShortTerm == {"central_bank", "earnings", "guidance", "cyber_outage", "natural_disaster",
              "fraud_governance", "litigation", "product_launch"}
OneWeek == {"m_and_a", "regulation", "sanctions_trade", "supply_chain", "energy", "metals"}
Structural == {"inflation", "growth_recession", "employment", "esg_reputation",
               "funding_liquidity", "geopolitics"}

(* A sentence of a body has its place; a symbol is on the denylist or not,   *)
(* however it is written.                                                    *)
ASSUME PipelineAssumption ==
    /\ {SymbolSpan, MaxSymbols} \subseteq Nat
    /\ AssetClass \subseteq Channelled /\ ReasonCode \subseteq ShortTerm \cup OneWeek \cup Structural
    /\ \A w \in DOMAIN Lexicon :
          /\ Lexicon[w].halves \in Nat \ {0} /\ IsFiniteSet(Lexicon[w].labels)
          /\ \A v \in DOMAIN Lexicon :
                Lexicon[v].symbol = Lexicon[w].symbol => Lexicon[v].denied = Lexicon[w].denied
    /\ \A r \in DOMAIN Shape \cap Pipelines : \A s \in Shape[r] :
          /\ s.title \in BOOLEAN /\ s.words \in SUBSET DOMAIN Lexicon /\ IsFiniteSet(s.words)
          /\ ~s.title => s.at \in Int
          /\ \A t \in Shape[r] : ~s.title /\ ~t.title /\ s.at = t.at => s = t

Title(c) == {s \in Filled(c) : s.title}
Body(c) == {s \in Filled(c) : ~s.title}
Words(S) == UNION {s.words : s \in S}
Those(W, field) == {w \in W : Lexicon[w][field]}

(* Mutant: the footers of a publisher stay in. *)
CleanedNot(c) == InOrder(Body(c), LAMBDA s, t : s.at < t.at)

(* clean_boilerplate_text: no footers, and no sentence twice. *)
Cleaned(c) ==
    InOrder({s \in Body(c) : Those(s.words, "footer") = {}}, LAMBDA s, t : s.at < t.at)

CleanWords(c) == Words(Title(c)) \cup Words(Range(Cleaned(c)))
Length(c, S) == Total(c, S, LAMBDA s : Cardinality(s.words))

-----------------------------------------------------------------------------
(* Stage A, the gate. *)

Prefilter(c) ==
    LET W == Words(Filled(c))
        prior == DomainPrior[report]
        cashtag == \E w \in Words(Body(c)) : Lexicon[w].found = "cashtag"
        matched == Cardinality(Those(W, "keyword")) + (IF cashtag THEN 1 ELSE 0)
        dropped == Cardinality(Those(W, "blocked")) >= 2 /\ matched = 0 /\ prior < 300
    IN  [keep |-> ~dropped,
         rule |-> IF dropped THEN 50
                  ELSE IF Length(c, Filled(c)) < MinText THEN Max({prior, 200})
                  ELSE (45 * prior + 20 * SourcePrior + 35 * Min({1000, 250 * matched})) \div 100]

(* Stage B, the stub: labels by their aliases.  A word of the title counts   *)
(* three times, and is not counted in the body.                              *)
Sigmoid(halves) ==  \* of halves / 2 - 1
    <<378, 500, 622, 731, 818, 881, 924, 953, 971, 982, 989, 993, 996, 998, 999>>[Min({15, halves})]

Occurrences(c, S, w) == Total(c, S, LAMBDA s : IF w \in s.words THEN 1 ELSE 0)

Weight(c, w) ==
    LET titled == Occurrences(c, Title(c), w)
    IN  IF titled > 0 THEN 3 * titled ELSE Occurrences(c, Body(c), w)

LabelScores(c) ==
    LET W == Words(Filled(c))
        About(l) == {w \in W : l \in Lexicon[w].labels}
    IN  [l \in UNION {Lexicon[w].labels : w \in W} |->
            Sigmoid(AddUp([w \in About(l) |-> Lexicon[w].halves * Weight(c, w)]))]

(* Stage C, the stub: more words of one tone than of the other. *)
Sentiment(c) ==
    LET W == Words(Filled(c))
        pos == Cardinality({w \in W : Lexicon[w].tone = "positive"})
        neg == Cardinality({w \in W : Lexicon[w].tone = "negative"})
    IN  IF pos = neg THEN [label |-> "neutral", score |-> IF pos = 0 THEN 500 ELSE 550]
        ELSE [label |-> IF pos > neg THEN "positive" ELSE "negative",
              score |-> Min({1000, 500 + 100 * Abs(pos - neg)})]

-----------------------------------------------------------------------------
(* Stage F: entities by pattern and lexicon, symbols by pattern, alias and   *)
(* resemblance.  A token in parentheses that is an acronym of a list is no   *)
(* ticker; a cashtag that is one is an entity, though no symbol.  A ticker   *)
(* behind the name of its exchange is a symbol, though no entity.            *)

Hit(text, kind) == [text |-> text, kind |-> kind]

Extract(c) ==
    UNION {LET x == Lexicon[w]
           IN  {Hit(w, k) : k \in x.kinds}
               \cup (CASE x.found = "cashtag" -> {Hit(x.symbol, "cashtag")}
                     [] x.found = "paren" /\ ~x.denied -> {Hit(x.symbol, "ticker")}
                     [] x.found = "alias" -> {Hit(w, "company"), Hit(x.symbol, "ticker")}
                     [] OTHER -> {})
           : w \in CleanWords(c)}

Within(s, n) == SubSeq(s, 1, IF Len(s) < n THEN Len(s) ELSE n)

(* map_text: exact finds first, a resemblance only while there are few. *)
MapText(c) ==
    LET W == Words(Title(c)) \cup Words(Range(Within(Cleaned(c), SymbolSpan)))
        By(ways) == {Lexicon[w].symbol : w \in {v \in W : Lexicon[v].found \in ways /\ ~Lexicon[v].denied}}
        tagged == By({"cashtag"})
        bracketed == By({"paren", "exchange"}) \ tagged
        named == By({"alias"}) \ (tagged \cup bracketed)
        exact == SetToSeq(tagged) \o SetToSeq(bracketed) \o SetToSeq(named)
    IN  IF Len(exact) < 3 THEN exact \o SetToSeq(By({"drift"}) \ Range(exact)) ELSE exact

(* The stub reranker: what the title says comes first, in the order it had.  *)
Rank(title, symbols) ==
    LET named == {n \in DOMAIN symbols : \E w \in Words(title) :
                    Lexicon[w].symbol = symbols[n] /\ Lexicon[w].found \in {"cashtag", "paren", "exchange"}}
    IN  At(symbols, named) \o At(symbols, DOMAIN symbols \ named)

(* Mutant: only a cashtag says that a story is about a share. *)
BridgeCashtags(scores, hits) ==
    IF \E h \in hits : h.kind = "cashtag"
    THEN [l \in DOMAIN scores \cup {"equities"} |->
            IF l = "equities" THEN Max({600} \cup {scores[k] : k \in DOMAIN scores \cap {l}}) ELSE scores[l]]
    ELSE scores

(* A hit that is a share makes a story one about equities. *)
Bridge(scores, hits) ==
    IF \E h \in hits : h.kind = "cashtag" \/ (h.kind = "ticker" /\ h.text \in ShareTicker)
    THEN [l \in DOMAIN scores \cup {"equities"} |->
            IF l = "equities" THEN Max({600} \cup {scores[k] : k \in DOMAIN scores \cap {l}}) ELSE scores[l]]
    ELSE scores

(* estimate_entity_density, over the body alone. *)
Density(hits, chars) == IF chars = 0 THEN 0 ELSE Min({1000, (1000000 * hits) \div (3 * chars)})

-----------------------------------------------------------------------------
(* Stage H, the score; the evidence; the record. *)

FinanceKinds == {"cashtag", "ticker", "currency", "central_bank", "index", "commodity", "crypto"}

Verdict(pre, ac, rc, neg, tone, density) ==
    LET Top(scores) == Max({0} \cup Range(scores))
        final == Min({1000, (30 * Top(ac) + 30 * Top(rc) + 15 * pre.rule + 10 * DomainPrior[report]
                             + 5 * SourcePrior + 5 * tone + 5 * density) \div 100})
        vetoed == Top(neg) >= 650 /\ Top(ac) < 500 /\ Top(rc) < 500
        unplaced == Top(ac) = 0 /\ Top(rc) < 750
        Passed(scores) == {l \in DOMAIN scores : scores[l] >= 250}
    IN  [relevant |-> final >= 350 /\ ~vetoed /\ ~unplaced, score |-> final,
         assets |-> Passed(ac), reasons |-> Passed(rc)]

(* The channels, by asset class and reason; every class has one for any.     *)
ChannelRules ==
    (Channelled \X {"*"})
    \cup ({"equities"} \X {"earnings", "guidance", "m_and_a", "product_launch", "fraud_governance",
                           "litigation", "regulation", "esg_reputation"})
    \cup ({"rates"} \X {"central_bank", "inflation", "employment", "growth_recession"})
    \cup ({"commodities"} \X {"energy", "metals", "supply_chain", "geopolitics"})
    \cup ({"macro"} \X {"inflation", "central_bank", "employment", "labor_market",
                        "growth_recession", "geopolitics", "sanctions_trade"})
    \cup {<<"credit", "funding_liquidity">>, <<"fx", "central_bank">>}

(* map_channels *)
Channels(assets, reasons) == ChannelRules \cap (assets \X (reasons \cup {"*"}))

Horizons(reasons) ==
    (IF reasons \cap ShortTerm # {} THEN {"intraday", "one_day"} ELSE {})
    \cup (IF reasons \cap OneWeek # {} THEN {"one_week"} ELSE {})
    \cup (IF reasons \cap Structural # {} THEN {"structural"} ELSE {})

(* extract_evidence: by terms matched, half a point for what comes first,    *)
(* and the earlier of two.                                                   *)
Evidence(title, body, terms) ==
    LET lines == (IF Words(title) = {} THEN <<>> ELSE <<Words(title)>>) \o [n \in DOMAIN body |-> body[n].words]
        Says(words, t) == \E w \in words : t \in Lexicon[w].says
        Points(n) == 2 * Cardinality({t \in terms : Says(lines[n], t)}) + (IF n = 1 THEN 1 ELSE 0)
        Above(n, k) == Points(n) > Points(k) \/ (Points(n) = Points(k) /\ n < k)
        order == SetToSortSeq({n \in DOMAIN lines : Points(n) > 0}, Above)
    IN  IF lines = <<>> THEN <<>>
        ELSE IF terms = {} THEN <<1>>
        ELSE Within(order, EvidenceTopK)

(* The record of a capture, from what the stages found. *)
Record(c, keep, verdict, sentiment, entities, symbols) ==
    [relevant |-> verdict.relevant /\ keep,
     score |-> verdict.score,
     assets |-> verdict.assets,
     reasons |-> verdict.reasons,
     symbols |-> Within(IF Len(symbols) > 1 THEN Rank(Title(c), symbols) ELSE symbols, MaxSymbols),
     entities |-> entities,
     horizons |-> Horizons(verdict.reasons),
     channels |-> Channels(verdict.assets, verdict.reasons),
     sentiment |-> sentiment.label,
     evidence |-> Evidence(Title(c), Cleaned(c), verdict.assets \cup verdict.reasons \cup entities)]

(* What the text stages found goes into the score, and all of it into the    *)
(* record.                                                                   *)
Scored(c, pre, labels, hits, sentiment) ==
    LET Of(group) == [l \in DOMAIN labels \cap group |-> labels[l]]
        finance == {h \in hits : h.kind \in FinanceKinds}
        tone == IF sentiment.label = "neutral" THEN 0 ELSE sentiment.score
    IN  Record(c, pre.keep,
               Verdict(pre, Bridge(Of(AssetClass), hits), Of(ReasonCode), Of(NegativeClass), tone,
                       Density(Cardinality(finance), WordLen * Length(c, Body(c)))),
               sentiment, {h.text : h \in hits}, MapText(c))

(* CatchemService.process *)
Process(c) == Scored(c, Prefilter(c), LabelScores(c), Extract(c), Sentiment(c))

-----------------------------------------------------------------------------
(* What the record says of its text. *)

AgreesWith(r) ==
    LET Ways(y) == {Lexicon[w].found : w \in {v \in CleanWords(corpus) : Lexicon[v].symbol = y}}
    IN  /\ \A y \in Range(r.symbols) :
              y \in ShareTicker /\ Ways(y) \cap {"cashtag", "paren", "alias"} # {} =>
                  /\ "equities" \in r.assets
                  /\ \E x \in r.channels : x[1] = "equities"
        /\ r.relevant => \/ r.channels # {}
                         \/ \E l \in r.reasons : LabelScores(corpus)[l] >= 750
        /\ (r.channels = {}) = (r.assets = {}) /\ (r.horizons = {}) = (r.reasons = {})

NoMoreThan(old, new) ==
    \A s \in {x \in DOMAIN corpus : corpus'[x] > corpus[x]} :
        LET retold == corpus[s] > 0
            footer == ~s.title /\ Those(s.words, "footer") # {}
        IN  /\ retold \/ footer => new.entities = old.entities /\ new.symbols = old.symbols
            /\ retold => /\ new.assets = old.assets /\ new.reasons = old.reasons
                         /\ new.sentiment = old.sentiment /\ new.evidence = old.evidence

(* The stages agree: a share found as a symbol by cashtag, by parentheses or *)
(* by name makes the story one about equities, with a channel of theirs,     *)
(* (behind an exchange it does not); a relevant story is placed in a channel *)
(* or has a strong reason; and no asset class is without a channel, no       *)
(* reason without a horizon.                                                 *)
LayersAgree == report \in Pipelines => AgreesWith(Process(corpus))

(* A sentence told again, or a footer, changes the weight of a story and not *)
(* what it is about: the same entities, symbols, tone and quotes.  (A footer *)
(* may add labels and tone, which are read off the whole text.)              *)
RetoldIsNotMore ==
    [][ (report \in Pipelines) => NoMoreThan(Process(corpus), Process(corpus')) ]_vars

=============================================================================
