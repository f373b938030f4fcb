------------------------------ MODULE QuantCache ------------------------------
(***************************************************************************)
(* The cache of the quant engine (quant/engine.py): one dictionary for the *)
(* corpus of recent records and for every signal computed from it, a TTL,  *)
(* one builder per key with an event the others wait on, and invalidate()  *)
(* from the "Poll now" button.  Request threads run signals as chains of   *)
(* _cached calls: first the records, then what is built from them.         *)
(*                                                                         *)
(* A value is abstracted to old, the time since the records it comes from  *)
(* were read, and pre, whether that was before the last invalidate.  Time  *)
(* passes in ticks; ages are kept up to the largest one that matters.      *)
(***************************************************************************)
EXTENDS Integers, Sequences

CONSTANTS Threads, Keys,
          Records,        \* the key of the corpus, built from the store
          Chains,         \* the sequences of keys the requests ask for
          Joins,          \* keys built from the last two values of the chain
          TTL,            \* cache_ttl_seconds
          MaxLate,        \* bound: ticks one _cached call may take
          Levels,         \* cached levels between the store and an answer
          NoThread

ASSUME CacheAssumption ==
    /\ Records \in Keys /\ Joins \subseteq Keys
    /\ \A chain \in Chains : /\ chain \in Seq(Keys) /\ chain # <<>>
                             /\ chain[1] = Records
    /\ TTL \in Nat \ {0} /\ MaxLate \in Nat /\ Levels \in Nat \ {0}
    /\ NoThread \notin Threads

\* The levels: the value a key is built from ranks below it, so do both values
\* of a join, and nothing is built from a join.
RankedBy(rank, chain) ==
    \A i \in DOMAIN chain :
        /\ i > 1 /\ chain[i] # Records => rank[chain[i - 1]] < rank[chain[i]]
        /\ chain[i] \in Joins => /\ i = Len(chain)
                                 /\ i > 2 => rank[chain[i - 2]] < rank[chain[i]]

ASSUME LevelsAssumption ==
    \E rank \in [Keys -> 1..Levels] : \A chain \in Chains : RankedBy(rank, chain)

\* One level: an entry is served before its age reaches TTL, by a call that may
\* have been late, from a build that may have been late.
LevelBound == TTL - 1 + 2 * MaxLate
StaleBound == Levels * LevelBound + (IF Joins = {} THEN 0 ELSE MaxLate)

\* Bounds: ages from here on are not told apart.
AgeCap == TTL + MaxLate
OldCap == StaleBound + 1

VARIABLES cache,    \* _cache: key -> an entry, or Absent
          pending,  \* _pending_events: key -> its builder, or NoThread
          thread    \* the requests

quantVars == <<cache, pending, thread>>

-----------------------------------------------------------------------------
Values == [old : 0..OldCap, pre : BOOLEAN]
Absent == [age |-> AgeCap, value |-> [old |-> OldCap, pre |-> TRUE], in |-> FALSE]
Entries == [age : 0..AgeCap, value : Values, in : BOOLEAN]

JustRead == [old |-> 0, pre |-> FALSE]
Older(u, v) == IF u.old >= v.old THEN u ELSE v

Idle == [pc |-> "idle", chain |-> <<>>, late |-> 0, last |-> JustRead,
         before |-> JustRead, val |-> JustRead, fresh |-> FALSE]

Phases == {"idle", "look", "lock", "wait", "woken", "alone", "build", "publish", "done"}

Requests == [pc : Phases, chain : Seq(Keys), late : 0..MaxLate, last : Values,
             before : Values, val : Values, fresh : BOOLEAN]

QuantTypeOK ==
    /\ cache \in [Keys -> Entries]
    /\ pending \in [Keys -> Threads \cup {NoThread}]
    /\ thread \in [Threads -> Requests]
    /\ \A t \in Threads : thread[t].pc = "idle" <=> thread[t].chain = <<>>

QuantInit ==
    /\ cache = [k \in Keys |-> Absent]
    /\ pending = [k \in Keys |-> NoThread]
    /\ thread = [t \in Threads |-> Idle]

At(t, pc) == thread[t].pc = pc
Key(t) == Head(thread[t].chain)
Goto(t, pc) == thread' = [thread EXCEPT ![t].pc = pc]

\* Mutant: an entry of exactly the TTL is still served.
HitInclusive(t) ==
    cache[Key(t)].in /\ cache[Key(t)].age <= TTL + thread[t].late

\* `hit is not None and (now - hit[0]) < ttl`, with the now of the call's start.
Hit(t) == cache[Key(t)].in /\ cache[Key(t)].age < TTL + thread[t].late

\* _cached returns v: the request goes on to its next key or is complete.
Returned(t, v) ==
    LET rest == Tail(thread[t].chain)
    IN  [thread[t] EXCEPT !.pc = IF rest = <<>> THEN "done" ELSE "look",
                          !.chain = IF rest = <<>> THEN @ ELSE rest,
                          !.late = 0, !.before = thread[t].last,
                          !.last = v, !.val = JustRead]

Return(t, v) == thread' = [thread EXCEPT ![t] = Returned(t, v)]

\* What build() computes from: the store, the last value of the chain, or (lead
\* and lag, from clusters and records) the last two.
Built(t) ==
    IF Key(t) = Records THEN JustRead
    ELSE IF Key(t) \in Joins THEN Older(thread[t].last, thread[t].before)
    ELSE thread[t].last

-----------------------------------------------------------------------------
Request(t, chain) ==
    /\ At(t, "idle")
    /\ thread' = [thread EXCEPT ![t] =
                    [pc |-> "look", chain |-> chain, late |-> 0, last |-> JustRead,
                     before |-> JustRead, val |-> JustRead, fresh |-> TRUE]]
    /\ UNCHANGED <<cache, pending>>

\* The lock-free fast path.
Look(t) ==
    /\ At(t, "look")
    /\ IF Hit(t) THEN Return(t, cache[Key(t)].value) ELSE Goto(t, "lock")
    /\ UNCHANGED <<cache, pending>>

\* Mutant: the builder of the key is not looked for.
EnrolBlindly(t) ==
    /\ At(t, "lock")
    /\ IF Hit(t)
       THEN Return(t, cache[Key(t)].value) /\ UNCHANGED pending
       ELSE Goto(t, "build") /\ pending' = [pending EXCEPT ![Key(t)] = t]
    /\ UNCHANGED cache

\* Under _cache_lock: look again, then wait for the builder or become it.
Enrol(t) ==
    /\ At(t, "lock")
    /\ \/ /\ Hit(t)
          /\ Return(t, cache[Key(t)].value)
          /\ UNCHANGED pending
       \/ /\ ~Hit(t)
          /\ pending[Key(t)] # NoThread
          /\ Goto(t, "wait")
          /\ UNCHANGED pending
       \/ /\ ~Hit(t)
          /\ pending[Key(t)] = NoThread
          /\ Goto(t, "build")
          /\ pending' = [pending EXCEPT ![Key(t)] = t]
    /\ UNCHANGED cache

\* After the event: whatever entry is there, or a build of one's own that is
\* neither registered nor cached.
Woken(t) ==
    /\ At(t, "woken")
    /\ IF cache[Key(t)].in THEN Return(t, cache[Key(t)].value) ELSE Goto(t, "alone")
    /\ UNCHANGED <<cache, pending>>

BuildAlone(t) ==
    /\ At(t, "alone")
    /\ Return(t, Built(t))
    /\ UNCHANGED <<cache, pending>>

\* build() reads its input ...
Build(t) ==
    /\ At(t, "build")
    /\ thread' = [thread EXCEPT ![t].pc = "publish", ![t].val = Built(t)]
    /\ UNCHANGED <<cache, pending>>

\* The threads with the event of t's build in hand find it set.
WithWaitersWoken(t, next) ==
    [u \in Threads |-> IF u = t THEN next
                       ELSE IF thread[u].pc = "wait" /\ Key(u) = Key(t)
                         THEN [thread[u] EXCEPT !.pc = "woken"]
                         ELSE thread[u]]

\* ... and its result is stored with the time of the store, the event popped
\* and set.
Publish(t) ==
    /\ At(t, "publish")
    /\ cache' = [cache EXCEPT ![Key(t)] =
                    [age |-> 0, value |-> thread[t].val, in |-> TRUE]]
    /\ pending' = [pending EXCEPT ![Key(t)] = NoThread]
    /\ thread' = WithWaitersWoken(t, Returned(t, thread[t].val))

\* Mutant: the event is set only when there is a value.
FailsSilently(t) ==
    /\ pending' = [pending EXCEPT ![Key(t)] = NoThread]
    /\ thread' = [thread EXCEPT ![t] = Idle]
    /\ UNCHANGED cache

\* The finally block of a build that raised: no entry, the event popped and set.
Fails(t) ==
    /\ pending' = [pending EXCEPT ![Key(t)] = NoThread]
    /\ thread' = WithWaitersWoken(t, Idle)
    /\ UNCHANGED cache

\* storage.recent_records raises; signals are wrapped in _safe_call.
ReadFails(t) ==
    /\ thread[t].chain # <<>>
    /\ Key(t) = Records
    /\ \/ At(t, "build") /\ Fails(t)
       \/ /\ At(t, "alone")
          /\ thread' = [thread EXCEPT ![t] = Idle]
          /\ UNCHANGED <<cache, pending>>

Reply(t) ==
    /\ At(t, "done")
    /\ thread' = [thread EXCEPT ![t] = Idle]
    /\ UNCHANGED <<cache, pending>>

Forgotten(v) == [v EXCEPT !.pre = TRUE]

\* invalidate(): the entries go; builds and values in hand do not.
Invalidate ==
    /\ cache' = [k \in Keys |-> Absent]
    /\ thread' = [t \in Threads |->
                    [thread[t] EXCEPT !.fresh = FALSE, !.last = Forgotten(@),
                                      !.before = Forgotten(@), !.val = Forgotten(@)]]
    /\ UNCHANGED pending

Aged(v) == [v EXCEPT !.old = IF @ < OldCap THEN @ + 1 ELSE @]

\* Time passes, for no call by more than MaxLate; replies take none.
Tick ==
    /\ \A t \in Threads : thread[t].pc # "done"
                          /\ (thread[t].pc # "idle" => thread[t].late < MaxLate)
    /\ cache' = [k \in Keys |->
                    IF cache[k].in
                    THEN [cache[k] EXCEPT !.age = IF @ < AgeCap THEN @ + 1 ELSE @,
                                          !.value = Aged(@)]
                    ELSE Absent]
    /\ thread' = [t \in Threads |->
                    IF At(t, "idle") THEN Idle
                    ELSE [thread[t] EXCEPT !.late = @ + 1, !.last = Aged(@),
                                           !.before = Aged(@), !.val = Aged(@)]]
    /\ UNCHANGED pending

\* A thread goes on while the store answers.
Serve(t) ==
    \/ Look(t)
    \/ Enrol(t)
    \/ Woken(t)
    \/ BuildAlone(t)
    \/ Build(t)
    \/ Publish(t)
    \/ Reply(t)

Step(t) == Serve(t) \/ ReadFails(t)

SteadyNext ==
    \/ \E t \in Threads : (\E chain \in Chains : Request(t, chain)) \/ Serve(t)
    \/ Invalidate
    \/ Tick

QuantNext == SteadyNext \/ \E t \in Threads : ReadFails(t)

\* A store that always answers, and one that may raise.
SteadySpec == QuantInit /\ [][SteadyNext]_quantVars
QuantSpec == QuantInit /\ [][QuantNext]_quantVars

\* Request threads are run.
QuantFairness == \A t \in Threads : WF_quantVars(Step(t))

-----------------------------------------------------------------------------
(* Properties *)

\* A key has a registered builder exactly while one thread builds it, and only
\* a registered builder publishes.
OneBuilder ==
    \A k \in Keys :
        {t \in Threads : thread[t].pc \in {"build", "publish"} /\ Key(t) = k} = {pending[k]} \ {NoThread}

\* Nobody waits for an event that nobody will set.
WaitersHaveBuilder == \A t \in Threads : At(t, "wait") => pending[Key(t)] # NoThread

\* Two builders would overwrite each other, none would leave the waiters to an
\* event nobody sets (_pending_events).
SingleFlight == OneBuilder /\ WaitersHaveBuilder

\* Every request is answered, also when the build it waits for raises.
EveryRequestEnds == \A t \in Threads : ~At(t, "idle") ~> At(t, "idle")

\* The answer to a request: the last value of its chain.
Answer(t) == thread[t].last

\* While the store answers, no answer is older than its levels allow: each level
\* hands on a value that was already one TTL old and keeps it for another.
StalenessBounded == \A t \in Threads : At(t, "done") => Answer(t).old <= StaleBound

\* "the signals refresh via the cache_ttl_seconds (30s) expiry" (engine.py,
\* invalidate): an answer is no older than one level allows.
RefreshedByExpiry == \A t \in Threads : At(t, "done") => Answer(t).old <= LevelBound

\* "A call past the TTL window must rebuild" (test_quant_engine.py): no call
\* returns an entry that had expired when the call began.
ExpiredIsRebuilt ==
    [][\A t \in Threads :
        (Look(t) \/ Enrol(t) \/ Woken(t)) /\ thread'[t].pc \in {"look", "done"}
            => cache[Key(t)].age < TTL + thread[t].late]_quantVars

\* "drop the quant cache so the dashboard/signals refresh immediately instead of
\* serving the prior snapshot" (api.py, news_poll_now).
InvalidateForgets ==
    \A t \in Threads : At(t, "done") /\ thread[t].fresh => ~Answer(t).pre
=============================================================================
