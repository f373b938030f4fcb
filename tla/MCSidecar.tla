------------------------------ MODULE MCSidecar -----------------------------
(* The small machines of the sidecar for TLC, one after the other: `part`    *)
(* says which of them a behaviour is about, and the others stand still.      *)
EXTENDS FeedSchedule, PushReconnect, Lifespan, TruthStore, RateLimit, QuantCache

VARIABLE part

machines == <<scheduleVars, pushVars, spanVars, storeVars, rateVars, quantVars>>
vars == <<part, machines>>

(* FeedSchedule and PushReconnect: ladders with the shape of the code's. *)
ShortLadder == <<1, 2, 4>>
ShortCadence == <<<<0, 1>>, <<1, 2>>, <<2, 3>>>>
ShortBackoff == <<1, 2, 5>>

(* TruthStore: the bootstrap, the empty baseline and one table with an       *)
(* index; a snapshot from before the versions, and one whose boot was cut    *)
(* short in the middle of version 2.                                         *)
Scripts == << <<"records", "text_excerpt">>, <<>>, <<"record_tags", "tag_index">> >>
OldSnapshots ==
    {[rows |-> {}, schema |-> {"records"}, version |-> 0],
     [rows |-> {}, schema |-> {"records", "text_excerpt", "record_tags"}, version |-> 1]}

(* QuantCache: one signal over cached records. *)
SignalChain == {<<"records", "clusters">>}

Init ==
    /\ part \in {"feeds", "push", "life", "store", "limiter", "quant"}
    /\ ScheduleInit /\ PushInit /\ SpanInit /\ StoreInit /\ RateInit /\ QuantInit

Next ==
    /\ part' = part
    /\ \/ part = "feeds" /\ ScheduleNext /\ UNCHANGED <<pushVars, spanVars, storeVars, rateVars, quantVars>>
       \/ part = "push" /\ PushNext /\ UNCHANGED <<scheduleVars, spanVars, storeVars, rateVars, quantVars>>
       \/ part = "life" /\ SpanNext /\ UNCHANGED <<scheduleVars, pushVars, storeVars, rateVars, quantVars>>
       \/ part = "store" /\ StoreNext /\ UNCHANGED <<scheduleVars, pushVars, spanVars, rateVars, quantVars>>
       \/ part = "limiter" /\ RateNext /\ UNCHANGED <<scheduleVars, pushVars, spanVars, storeVars, quantVars>>
       \/ part = "quant" /\ QuantNext /\ UNCHANGED <<scheduleVars, pushVars, spanVars, storeVars, rateVars>>

(* Nothing is asked of a machine that stands still at its start. *)
Spec == Init /\ [][Next]_vars
FairSpec ==
    /\ Spec
    /\ SF_scheduleVars(part = "feeds" /\ BeginTick)
    /\ WF_scheduleVars(EndTick \/ AbortTick) /\ WF_scheduleVars(EndProbe) /\ WF_scheduleVars(ClockTick)
    /\ PushFairness /\ QuantFairness

(* NeverSilent, of the behaviours that are about the feeds: every feed is    *)
(* fetched again and again, whatever it brings (news_poller.py _run).        *)
FeedsNeverSilent == part = "feeds" => NeverSilent

=============================================================================
