------------------------------- MODULE Reports -------------------------------
(***************************************************************************)
(* The reports that add up rows, beside each other: each is a computation  *)
(* over the same corpus, and none looks at another.                        *)
(***************************************************************************)
EXTENDS SurgeSignals, SentimentSignals, MixSignals, Pipeline, Audits, Views

(* What the reports add up is what the rows say: the books of the spillover  *)
(* edges, the arrivals of a velocity report, the scopes of tone and          *)
(* intensity, the tables of the mix, of the sources and of the clock, the    *)
(* two legs of a reaction; and mentions far apart are no opposites.          *)
BooksBalance ==
    /\ EdgesAddUp /\ VelocityCounts /\ ScopesAddUp
    /\ TablesAddUp /\ ExcessNeedsBothLegs /\ ApartIsNotOpposite

(* What two parts of the code say of one thing is the same: the layers of    *)
(* the pipeline, the audits and what they are computed from, and the panels  *)
(* that each count the same rows in a loop of their own.                     *)
ReportsAgree == LayersAgree /\ AuditsAgree /\ ViewsAgree

(* A new row changes nothing outside its place: not what was said of earlier *)
(* buckets, not the order of dated points if it has no date, and not what a  *)
(* story is about if it only tells it again.                                 *)
NewRowKeepsItsPlace == NoPeekAhead /\ UndatedHasNoPlace /\ RetoldIsNotMore

=============================================================================
