----------------------------- MODULE NewsPoller -----------------------------
(***************************************************************************)
(* The HTTP poller's way from a fetched feed to a stored record            *)
(* (src/catchem/news_poller.py): the memory of canonical URLs, the memory  *)
(* of titles, the storage guard, the ingest pool, and the rollback of both *)
(* memories when an ingest fails.  Passes are scheduled ticks, "Poll now"  *)
(* presses and feed probes; asyncio.Lock `_lock` makes them exclusive.     *)
(*                                                                         *)
(* An item stands for its text and url, hence for its capture id; two      *)
(* items may share a canonical url or a normalized title.  When a feed is  *)
(* fetched at all is the business of FeedSchedule.                         *)
(***************************************************************************)
EXTENDS Naturals, SequencesExt

CONSTANTS
    Item,           \* the articles the feeds may serve
    UrlOf,          \* _canonical_url of an item
    TitleOf,        \* _normalize_title of an item
    NoTitle,        \* the title that is too generic to compare
    SeenCap,        \* _SeenCache.capacity
    TitleCap,       \* _seen_titles_cap
    TitleWindow,    \* _dedup_title_window, in clock units; 0 disables
    MaxServed,      \* bound: items one pass fetches
    MaxTime,        \* bound: clock units of one behaviour
    ReadFaults      \* may storage.get_record raise?

ASSUME PollerAssumption ==
    /\ UrlOf \in [Item -> STRING]
    /\ TitleOf \in [Item -> STRING] /\ NoTitle \in STRING
    /\ SeenCap \in Nat \ {0} /\ TitleCap \in Nat \ {0}
    /\ TitleWindow \in Nat /\ MaxServed \in Nat /\ MaxTime \in Nat
    /\ ReadFaults \in BOOLEAN

VARIABLES
    seen,       \* _seen: canonical urls, least recently used first
    titles,     \* _seen_titles: [key, at] records, least recently used first
    pass,       \* who holds _lock: nobody ("idle"), a "tick" or a "probe"
    batch,      \* new_items of the pass
    outcome,    \* batch position -> "due", "ok" or "failed"
    passTime,   \* the `now` of the pass
    now,        \* the clock
    stored,     \* items that have a row in SQLite
    landed,     \* history: items that ever had one
    passedAt,   \* history, since start: when the poller let a landed item pass
    faulted     \* history, since start: a read of the store has raised in a pass

passVars == <<pass, batch, outcome, passTime>>
memory == <<seen, titles>>
storeVars == <<stored, landed>>
pollerVars == <<memory, passVars, now, passedAt, faulted>>
vars == <<pollerVars, storeVars>>

Never == MaxTime + 1

PollerTypeOK ==
    /\ seen \in Seq({UrlOf[i] : i \in Item}) /\ Len(seen) <= SeenCap
    /\ titles \in Seq([key : {TitleOf[i] : i \in Item}, at : 0..MaxTime])
    /\ Len(titles) <= TitleCap
    /\ pass \in {"idle", "tick", "probe"}
    /\ batch \in Seq(Item)
    /\ outcome \in [DOMAIN batch -> {"due", "ok", "failed"}]
    /\ passTime \in 0..MaxTime
    /\ now \in 0..MaxTime
    /\ stored \in SUBSET Item /\ landed \in SUBSET Item
    /\ passedAt \in [Item -> 0..Never]
    /\ faulted \in BOOLEAN

Init ==
    /\ seen = <<>> /\ titles = <<>>
    /\ pass = "idle" /\ batch = <<>> /\ outcome = <<>> /\ passTime = 0
    /\ now = 0
    /\ stored = {} /\ landed = {}
    /\ passedAt = [i \in Item |-> Never]
    /\ faulted = FALSE

-----------------------------------------------------------------------------
(* _SeenCache: a bounded set of keys in order of use. *)

Has(cache, key) == key \in ToSet(cache)
Discard(cache, key) == RemoveFirst(cache, key)

Touch(cache, key) == Append(Discard(cache, key), key)
Add(cache, key) ==
    LET longer == Touch(cache, key) IN
    IF Len(longer) > SeenCap THEN Tail(longer) ELSE longer

(* _seen_titles: the same for titles, with the time of the first sighting. *)
Sighting(memo, key) == {s \in ToSet(memo) : s.key = key}
ForgetTitle(memo, key) == RemoveFirstMatch(memo, LAMBDA s : s.key = key)

RecordTitle(memo, sighting) ==
    LET longer == Append(ForgetTitle(memo, sighting.key), sighting) IN
    IF Len(longer) > TitleCap THEN Tail(longer) ELSE longer

(* Mutant: the end of the window is already outside it. *)
WithinWindowExclusive(at) == now - at < TitleWindow

WithinWindow(at) == now - at <= TitleWindow

(* _is_duplicate_title. *)
IsDuplicateTitle(memo, key) ==
    TitleWindow > 0 /\ key # NoTitle /\ \E s \in Sighting(memo, key) : WithinWindow(s.at)

-----------------------------------------------------------------------------
(* The filter loop of _poll_once and probe_feed_async.  It runs on the event *)
(* loop without an await, so it is one step; `st` is its running state.      *)

SkipSeen(st, i) == [st EXCEPT !.seen = Touch(@, UrlOf[i])]
SkipStored(st, i) == [st EXCEPT !.seen = Add(@, UrlOf[i])]
SkipTitle(st, i) ==
    [st EXCEPT !.seen = Add(@, UrlOf[i]),
               !.titles = LET old == CHOOSE s \in Sighting(@, TitleOf[i]) : TRUE IN
                          RecordTitle(@, old)]
Accept(st, i) ==
    [seen |-> Add(st.seen, UrlOf[i]),
     titles |-> IF TitleWindow > 0 /\ TitleOf[i] # NoTitle
                THEN RecordTitle(st.titles, [key |-> TitleOf[i], at |-> now])
                ELSE st.titles,
     new |-> Append(st.new, i)]

(* Mutant: the canonical url is remembered only after the ingest. *)
ConsiderForgetfully(st, i) ==
    IF Has(st.seen, UrlOf[i]) THEN SkipSeen(st, i)
    ELSE IF i \in stored THEN SkipStored(st, i)
    ELSE IF IsDuplicateTitle(st.titles, TitleOf[i]) THEN SkipTitle(st, i)
    ELSE [Accept(st, i) EXCEPT !.seen = st.seen]

Consider(st, i) ==
    IF Has(st.seen, UrlOf[i]) THEN SkipSeen(st, i)
    ELSE IF i \in stored THEN SkipStored(st, i)
    ELSE IF IsDuplicateTitle(st.titles, TitleOf[i]) THEN SkipTitle(st, i)
    ELSE Accept(st, i)

Filter(served) ==
    LET after[n \in 0..Len(served)] ==
            IF n = 0 THEN [seen |-> seen, titles |-> titles, new |-> <<>>]
            ELSE Consider(after[n - 1], served[n])
    IN  after[Len(served)]

(* What the feeds of a pass parse to, in the order they are looked at.       *)
Servings == BoundedSeq(Item, MaxServed)

(* A pass takes the lock, fetches, filters, and starts to ingest. *)
StartPass(kind, served) ==
    /\ pass = "idle"
    /\ LET st == Filter(served) IN
        /\ seen' = st.seen /\ titles' = st.titles
        /\ batch' = st.new
        /\ outcome' = [n \in DOMAIN st.new |-> "due"]
        /\ pass' = IF st.new = <<>> THEN "idle" ELSE kind
    /\ passTime' = now
    /\ UNCHANGED <<now, passedAt, faulted, storeVars>>

(* get_record raises at one item: the exception leaves the pass, whatever it *)
(* had already accepted is dropped, and both memories stay as they are.      *)
AbortPass ==
    /\ ReadFaults
    /\ pass = "idle"
    /\ \E served \in Servings : \E i \in Item :
        LET st == Filter(served) IN
        /\ ~Has(st.seen, UrlOf[i])
        /\ seen' = Add(st.seen, UrlOf[i])
        /\ titles' = st.titles
    /\ faulted' = TRUE
    /\ UNCHANGED <<passVars, now, passedAt, storeVars>>

-----------------------------------------------------------------------------
(* Ingest.  A tick runs its batch on up to four pool threads, a probe one    *)
(* item after the other.                                                     *)

(* process_capture commits the item's row. *)
CommitRow(i) == stored' = stored \cup {i} /\ landed' = landed \cup {i}

MayIngest(n) ==
    /\ pass # "idle"
    /\ outcome[n] = "due"
    /\ pass = "probe" => \A m \in 1..n - 1 : outcome[m] # "due"

Ingested(n) ==
    /\ MayIngest(n)
    /\ CommitRow(batch[n])
    /\ passedAt' = [passedAt EXCEPT ![batch[n]] = passTime]
    /\ outcome' = [outcome EXCEPT ![n] = "ok"]
    /\ UNCHANGED <<memory, pass, batch, passTime, now, faulted>>

(* Mutant: only the title is rolled back, the url is not. *)
RollbackTitleOnly(st, i) == [st EXCEPT !.titles = ForgetTitle(@, TitleOf[i])]

(* Mutant: only the url is rolled back, the title is not. *)
RollbackUrlOnly(st, i) == [st EXCEPT !.seen = Discard(@, UrlOf[i])]

(* Both memories forget an item whose ingest failed, in the order of the     *)
(* batch.                                                                    *)
Rollback(st, i) ==
    [seen |-> Discard(st.seen, UrlOf[i]), titles |-> ForgetTitle(st.titles, TitleOf[i])]

Forget(failed) ==
    LET after[n \in 0..Len(batch)] ==
            IF n = 0 THEN [seen |-> seen, titles |-> titles]
            ELSE IF n \in failed THEN Rollback(after[n - 1], batch[n])
            ELSE after[n - 1]
    IN  seen' = after[Len(batch)].seen /\ titles' = after[Len(batch)].titles

(* Any exception of _ingest_one; a probe rolls back at once. *)
IngestFails(n) ==
    /\ MayIngest(n)
    /\ outcome' = [outcome EXCEPT ![n] = "failed"]
    /\ IF pass = "probe" THEN Forget({n}) ELSE UNCHANGED memory
    /\ UNCHANGED <<pass, batch, passTime, now, passedAt, faulted, storeVars>>

(* The pass is over: a tick rolls back its failures, and the lock goes. *)
EndPass ==
    /\ pass # "idle"
    /\ \A n \in DOMAIN batch : outcome[n] # "due"
    /\ IF pass = "tick" THEN Forget({n \in DOMAIN batch : outcome[n] = "failed"})
       ELSE UNCHANGED memory
    /\ pass' = "idle" /\ batch' = <<>> /\ outcome' = <<>>
    /\ UNCHANGED <<passTime, now, passedAt, faulted, storeVars>>

-----------------------------------------------------------------------------
(* The world around it: time passes, the archiver drains rows, the process   *)
(* restarts with empty memories.                                             *)

ClockTick ==
    /\ now < MaxTime
    /\ now' = now + 1
    /\ UNCHANGED <<memory, passVars, passedAt, faulted, storeVars>>

DrainRow(i) ==
    /\ i \in stored
    /\ stored' = stored \ {i}
    /\ UNCHANGED <<pollerVars, landed>>

RestartPoller ==
    /\ seen' = <<>> /\ titles' = <<>>
    /\ pass' = "idle" /\ batch' = <<>> /\ outcome' = <<>>
    /\ passedAt' = [i \in Item |-> Never]
    /\ faulted' = FALSE
    /\ UNCHANGED <<passTime, now, storeVars>>

PollerNext ==
    \/ \E served \in Servings : StartPass("tick", served) \/ StartPass("probe", served)
    \/ AbortPass
    \/ \E n \in DOMAIN batch : Ingested(n) \/ IngestFails(n)
    \/ EndPass
    \/ ClockTick

Next ==
    \/ PollerNext
    \/ \E i \in Item : DrainRow(i)
    \/ RestartPoller

Spec == Init /\ [][Next]_vars

-----------------------------------------------------------------------------
(* What dedup promises. *)

(* A title is remembered only on behalf of a story that landed: when no pass *)
(* is running, a later outlet is suppressed only behind a copy that exists   *)
(* (_rollback_title).  What a read that raised left behind is excepted.      *)
TitlesHaveLanded ==
    pass = "idle" /\ ~faulted => \A s \in ToSet(titles) : \E i \in landed : TitleOf[i] = s.key

(* The same of urls: without title dedup, a url is remembered only once an   *)
(* article of that url landed.                                               *)
UrlsHaveLanded ==
    pass = "idle" => \A u \in ToSet(seen) : \E i \in landed : UrlOf[i] = u

(* With title dedup: a url is remembered once an article of that url, or one *)
(* with the title of such an article, landed: a later sighting gets a chance *)
(* instead of being suppressed behind a story that never landed.             *)
SuppressionIsEarned ==
    pass = "idle" => \A u \in ToSet(seen) : \E i \in landed, j \in Item :
        UrlOf[j] = u /\ (UrlOf[i] = u \/ (TitleOf[i] = TitleOf[j] /\ TitleOf[i] # NoTitle))

(* Near-duplicate suppression: two articles with one title never both pass   *)
(* within the window, whichever pass, probe or retry brought them.           *)
OneStoryPerWindow ==
    \A i, j \in Item :
        /\ i # j /\ TitleOf[i] = TitleOf[j] /\ TitleOf[i] # NoTitle
        /\ passedAt[i] # Never /\ passedAt[j] # Never
        /\ passedAt[i] <= passedAt[j]
        => passedAt[j] - passedAt[i] > TitleWindow

(* The poller never processes a capture that already has a row, and never    *)
(* two articles of one url in one pass.                                      *)
NoReprocess ==
    \A n \in DOMAIN batch : outcome[n] = "due" =>
        /\ batch[n] \notin stored
        /\ \A m \in DOMAIN batch : UrlOf[batch[m]] = UrlOf[batch[n]] => m = n

(* A story that a feed keeps serving lands, though any one ingest may fail.  *)
ServedStoryLands ==
    \A i \in Item : <>(\E j \in landed : UrlOf[j] = UrlOf[i])

(* Feeds go on serving every item, and an ingest tried again and again       *)
(* succeeds at last.                                                         *)
Served(i) == \E served \in Servings : i \in ToSet(served) /\ StartPass("tick", served)

=============================================================================
