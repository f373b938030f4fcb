----------------------------- MODULE NewsIntake -----------------------------
(***************************************************************************)
(* The poller and the push channel side by side (src/catchem/ws_push.py):  *)
(* one task per push source, each handling one frame at a time, with a     *)
(* memory of urls that all sources share and the poller does not.  Both    *)
(* channels look at the same store before they ingest.                     *)
(***************************************************************************)
EXTENDS NewsPoller

CONSTANTS
    Source,     \* push sources
    NoItem      \* a source that handles no frame

ASSUME IntakeAssumption == NoItem \notin Item

VARIABLES
    wsSeen,     \* the channel's own _seen
    flight      \* source -> the item its frame is ingesting

intakeVars == <<wsSeen, flight>>
allVars == <<vars, intakeVars>>

IntakeTypeOK ==
    /\ PollerTypeOK
    /\ wsSeen \in Seq({UrlOf[i] : i \in Item}) /\ Len(wsSeen) <= SeenCap
    /\ flight \in [Source -> Item \cup {NoItem}]

IntakeInit ==
    /\ Init
    /\ wsSeen = <<>>
    /\ flight = [s \in Source |-> NoItem]

-----------------------------------------------------------------------------
(* _handle_frame up to its await: the memory, then the store.                *)

(* A frame whose url is remembered, or whose capture has a row, goes no      *)
(* further.                                                                  *)
SkipFrame(s, i) ==
    /\ flight[s] = NoItem
    /\ \/ Has(wsSeen, UrlOf[i]) /\ wsSeen' = Touch(wsSeen, UrlOf[i])
       \/ ~Has(wsSeen, UrlOf[i]) /\ i \in stored /\ wsSeen' = Add(wsSeen, UrlOf[i])
    /\ UNCHANGED <<vars, flight>>

(* Mutant: the look at the store fails, and the url stays remembered. *)
FrameReadFailsRemembering(s, i) ==
    /\ flight[s] = NoItem
    /\ ~Has(wsSeen, UrlOf[i])
    /\ wsSeen' = Add(wsSeen, UrlOf[i])
    /\ UNCHANGED <<vars, flight>>

(* get_record raises: the url just remembered is forgotten again.            *)
FrameReadFails(s, i) ==
    /\ flight[s] = NoItem
    /\ ~Has(wsSeen, UrlOf[i])
    /\ wsSeen' = Discard(Add(wsSeen, UrlOf[i]), UrlOf[i])
    /\ UNCHANGED <<vars, flight>>

(* Mutant: the url is remembered once the ingest is over. *)
AcceptFrameForgetfully(s, i) ==
    /\ flight[s] = NoItem
    /\ ~Has(wsSeen, UrlOf[i])
    /\ i \notin stored
    /\ flight' = [flight EXCEPT ![s] = i]
    /\ UNCHANGED <<vars, wsSeen>>

AcceptFrame(s, i) ==
    /\ flight[s] = NoItem
    /\ ~Has(wsSeen, UrlOf[i])
    /\ i \notin stored
    /\ wsSeen' = Add(wsSeen, UrlOf[i])
    /\ flight' = [flight EXCEPT ![s] = i]
    /\ UNCHANGED vars

(* After the await: the row is committed, or the url is forgotten.           *)
FrameIngested(s) ==
    /\ flight[s] # NoItem
    /\ CommitRow(flight[s])
    /\ flight' = [flight EXCEPT ![s] = NoItem]
    /\ UNCHANGED <<pollerVars, wsSeen>>

FrameFails(s) ==
    /\ flight[s] # NoItem
    /\ wsSeen' = Discard(wsSeen, UrlOf[flight[s]])
    /\ flight' = [flight EXCEPT ![s] = NoItem]
    /\ UNCHANGED vars

Frame(s) ==
    \/ \E i \in Item : SkipFrame(s, i) \/ FrameReadFails(s, i) \/ AcceptFrame(s, i)
    \/ FrameIngested(s) \/ FrameFails(s)

(* The process restarts: both memories and every flight are gone.            *)
RestartAll ==
    /\ RestartPoller
    /\ wsSeen' = <<>>
    /\ flight' = [s \in Source |-> NoItem]

IntakeNext ==
    \/ (PollerNext \/ \E i \in Item : DrainRow(i)) /\ UNCHANGED intakeVars
    \/ \E s \in Source : Frame(s)
    \/ RestartAll

IntakeSpec == IntakeInit /\ [][IntakeNext]_allVars

(* Feeds go on serving every item, every ingest comes to an end, a pass ends *)
(* once its ingests have, and an ingest that is tried again and again        *)
(* succeeds at last.  Of the push channel nothing is assumed.                *)
IntakeFairness ==
    /\ \A i \in Item :
        /\ SF_allVars(Served(i) /\ UNCHANGED intakeVars)
        /\ SF_allVars((\E n \in DOMAIN batch : batch[n] = i /\ Ingested(n))
                      /\ UNCHANGED intakeVars)
    /\ WF_allVars((\E n \in DOMAIN batch : Ingested(n) \/ IngestFails(n)) /\ UNCHANGED intakeVars)
    /\ WF_allVars(EndPass /\ UNCHANGED intakeVars)

IntakeFairSpec == IntakeSpec /\ IntakeFairness

-----------------------------------------------------------------------------
(* What the two channels promise together. *)

(* A url the channel remembers is being ingested or landed: no failure, of   *)
(* an ingest or of a read, leaves a url suppressed behind nothing.           *)
PushedUrlsHaveLanded ==
    \A u \in ToSet(wsSeen) :
        \/ \E i \in landed : UrlOf[i] = u
        \/ \E s \in Source : flight[s] # NoItem /\ UrlOf[flight[s]] = u

(* No failure leaves a url suppressed behind a story that never landed, in   *)
(* the memory of either channel.                                             *)
NothingSuppressed == UrlsHaveLanded /\ PushedUrlsHaveLanded

(* Two push sources never ingest one url at the same time. *)
OneFlightPerUrl ==
    \A s, t \in Source :
        s # t /\ flight[s] # NoItem /\ flight[t] # NoItem => UrlOf[flight[s]] # UrlOf[flight[t]]

(* "an article that arrives on BOTH the WS firehose and a polled RSS feed is *)
(* ingested exactly once regardless of which lands first" (ws_push.py): what *)
(* either channel is about to commit has no row yet.                         *)
IngestedOnce ==
    /\ \A s \in Source : flight[s] # NoItem => flight[s] \notin stored
    /\ \A n \in DOMAIN batch : outcome[n] = "due" => batch[n] \notin stored

=============================================================================
