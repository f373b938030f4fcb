---------------------------- MODULE CaptureLedger ----------------------------
(***************************************************************************)
(* What the store and its archiver promise together, with no file, lock or *)
(* sweep in sight: an admitted capture is live, filed for good, or both,   *)
(* and only a filed capture may be let go (module docstring of             *)
(* src/catchem/archive.py).                                                *)
(***************************************************************************)
CONSTANT CaptureId

VARIABLES
    live,   \* captures with a row
    filed   \* captures the archive holds durably

Init == live = {} /\ filed = {}

Admit(id) == live' = live \cup {id} /\ UNCHANGED filed

File(ids) == ids \subseteq live \cup filed /\ filed' = filed \cup ids /\ UNCHANGED live

Release(ids) == ids \subseteq live \cap filed /\ live' = live \ ids /\ UNCHANGED filed

Next ==
    \/ \E id \in CaptureId : Admit(id)
    \/ \E ids \in SUBSET CaptureId : File(ids) \/ Release(ids)

Spec == Init /\ [][Next]_<<live, filed>>

=============================================================================
