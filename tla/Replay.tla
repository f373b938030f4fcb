------------------------------- MODULE Replay -------------------------------
(***************************************************************************)
(* Resumable replay of the capture files (src/catchem/awareness_replay.py, *)
(* awareness_reader.py, and their callers in supervisor.py): a pass goes   *)
(* over the files, resumes each behind a persisted line offset, hands      *)
(* every line that parses to a handler, and persists the offset now and    *)
(* then.  Runners are passes of POST /replay, of `catchem replay` and of   *)
(* the live tail; any of them may run side by side on one database.        *)
(*                                                                         *)
(* The writer of the files is external: it appends lines, or puts other    *)
(* lines in place of a file, as iter_captures expects it to do.            *)
(***************************************************************************)
EXTENDS Naturals, Sequences, FiniteSets

CONSTANTS
    Path,           \* the finalized files
    Capture,        \* the captures a line may hold
    Garbage,        \* a line that does not parse
    Runner,         \* passes that may run side by side
    InTail,         \* the runners in live tail
    Limit,          \* max_records; 0 is no limit
    MaxLen,         \* bound: lines of a file
    MaxRewrites     \* bound: files replaced in place

ASSUME ReplayAssumption ==
    /\ IsFiniteSet(Path) /\ Garbage \notin Capture
    /\ InTail \subseteq Runner
    /\ Limit \in Nat /\ MaxLen \in Nat /\ MaxRewrites \in Nat

VARIABLES
    file,       \* path -> its lines
    rewrites,   \* files replaced so far
    offset,     \* table offsets: path -> line_offset
    stored,     \* captures that were ever inserted
    buried,     \* captures that ever went to the dlq
    pc,         \* runner -> "idle", "between" files, "reading", "handled", "dead"
    todo,       \* runner -> the files still ahead, the current one first
    text,       \* runner -> the lines of the file it opened
    line,       \* runner -> lines of it consumed
    mark,       \* runner -> line_offset of the local ReplayOffset
    count,      \* runner -> processed
    runs,       \* history: capture -> times it was handled, up to 2
    alerts,     \* history: capture -> webhooks dispatched, up to 2
    noticed     \* history: paths found shorter than their offset, and read to the end

fileVars == <<file, rewrites>>
tables == <<offset, stored, buried>>
runner == <<pc, todo, text, line, mark, count>>
vars == <<fileVars, tables, runner, runs, alerts, noticed>>

Line == Capture \cup {Garbage}
Lines == UNION {[1..n -> Line] : n \in 0..MaxLen}

ReplayTypeOK ==
    /\ file \in [Path -> Lines]
    /\ rewrites \in 0..MaxRewrites
    /\ offset \in [Path -> 0..MaxLen]
    /\ stored \in SUBSET Capture /\ buried \in SUBSET Capture
    /\ pc \in [Runner -> {"idle", "between", "reading", "handled", "dead"}]
    /\ todo \in [Runner -> Seq(Path)] /\ text \in [Runner -> Lines]
    /\ line \in [Runner -> 0..MaxLen] /\ mark \in [Runner -> 0..MaxLen]
    /\ count \in [Runner -> Nat]
    /\ \A r \in Runner :
        pc[r] \in {"reading", "handled"} => todo[r] # <<>> /\ line[r] <= Len(text[r])
    /\ runs \in [Capture -> 0..2] /\ alerts \in [Capture -> 0..2]
    /\ noticed \in SUBSET Path

Init ==
    /\ file = [p \in Path |-> <<>>]
    /\ rewrites = 0
    /\ offset = [p \in Path |-> 0]
    /\ stored = {} /\ buried = {}
    /\ pc = [r \in Runner |-> "idle"]
    /\ todo = [r \in Runner |-> <<>>]
    /\ text = [r \in Runner |-> <<>>]
    /\ line = [r \in Runner |-> 0]
    /\ mark = [r \in Runner |-> 0]
    /\ count = [r \in Runner |-> 0]
    /\ runs = [c \in Capture |-> 0]
    /\ alerts = [c \in Capture |-> 0]
    /\ noticed = {}

-----------------------------------------------------------------------------
(* The writer. *)

(* A capture is written once: a fresh line is a capture of no file, and not  *)
(* one that was handled before its file was replaced.                        *)
Fresh(l) == l \in Capture => l \notin stored \cup buried /\ \A p \in Path : \A i \in DOMAIN file[p] : file[p][i] # l

AppendLine(p, l) ==
    /\ Len(file[p]) < MaxLen
    /\ Fresh(l)
    /\ file' = [file EXCEPT ![p] = Append(@, l)]
    /\ UNCHANGED <<rewrites, tables, runner, runs, alerts, noticed>>

(* The file is emptied in place; other lines come after it. *)
Rewrite(p) ==
    /\ rewrites < MaxRewrites
    /\ file[p] # <<>>
    /\ rewrites' = rewrites + 1
    /\ file' = [file EXCEPT ![p] = <<>>]
    /\ noticed' = noticed \ {p}
    /\ UNCHANGED <<tables, runner, runs, alerts>>

-----------------------------------------------------------------------------
(* A pass. *)

(* iter_finalized_files: the files by age, which may be any order. *)
Orders == {o \in [1..Cardinality(Path) -> Path] : \A i, j \in DOMAIN o : o[i] = o[j] => i = j}

(* All but the current file. *)
Rest(order) == SubSeq(order, 2, Len(order))

Update(var, r, value) == [var EXCEPT ![r] = value]

StartPass(r) ==
    /\ pc[r] \in {"idle", "dead"}
    /\ pc' = Update(pc, r, "between")
    /\ \E o \in Orders : todo' = Update(todo, r, o)
    /\ count' = Update(count, r, 0)
    /\ UNCHANGED <<text, line, mark, fileVars, tables, runs, alerts, noticed>>

(* iter_captures starts over when the file has become shorter than the       *)
(* offset.                                                                   *)
ResumeAt(saved, lines) == IF saved > Len(lines) THEN 0 ELSE saved

OpenFile(r) ==
    /\ pc[r] = "between" /\ todo[r] # <<>>
    /\ LET p == Head(todo[r]) IN
        /\ text' = Update(text, r, file[p])
        /\ line' = Update(line, r, ResumeAt(offset[p], file[p]))
        /\ mark' = Update(mark, r, offset[p])
    /\ pc' = Update(pc, r, "reading")
    /\ UNCHANGED <<todo, count, fileVars, tables, runs, alerts, noticed>>

(* The lines ahead that parse, and the next of them. *)
Ahead(r) == {i \in line[r] + 1..Len(text[r]) : text[r][i] # Garbage}
NextLine(r) == CHOOSE i \in Ahead(r) : \A j \in Ahead(r) : i <= j

Handle(r, processed) ==
    /\ pc[r] = "reading" /\ Ahead(r) # {}
    /\ pc' = Update(pc, r, "handled")
    /\ line' = Update(line, r, NextLine(r))
    /\ mark' = Update(mark, r, NextLine(r))
    /\ count' = Update(count, r, count[r] + processed)
    /\ LET c == text[r][NextLine(r)] IN
        runs' = [runs EXCEPT ![c] = IF @ < 2 THEN @ + 1 ELSE 2]
    /\ UNCHANGED <<todo, text, offset, fileVars, noticed>>

(* Mutant: replay alerts whether the row is new or not. *)
AlertedAlways(r, c) == alerts' = [alerts EXCEPT ![c] = IF @ < 2 THEN @ + 1 ELSE 2]

(* The live tail alerts for every row, a replay for a new one only.          *)
Alerted(r, c) ==
    alerts' = [alerts EXCEPT ![c] = IF @ < 2 /\ (r \in InTail \/ c \notin stored) THEN @ + 1 ELSE @]

(* The handler processes the capture and commits its row. *)
HandleOk(r) ==
    /\ Handle(r, 1)
    /\ LET c == text[r][NextLine(r)] IN
        /\ stored' = stored \cup {c}
        /\ Alerted(r, c)
    /\ UNCHANGED buried

(* The handler raises before its commit: the capture goes to the dlq.  The   *)
(* tail's handler sees to that itself and counts as processed.               *)
HandleFails(r) ==
    /\ Handle(r, IF r \in InTail THEN 1 ELSE 0)
    /\ buried' = buried \cup {text[r][NextLine(r)]}
    /\ UNCHANGED <<stored, alerts>>

AtLimit(r) == Limit # 0 /\ count[r] >= Limit

(* Mutant: at the limit the pass ends without saving where it is. *)
SaveAndStopUnsaved(r) ==
    /\ pc[r] = "handled" /\ AtLimit(r)
    /\ pc' = Update(pc, r, "idle")
    /\ UNCHANGED <<offset, todo, text, line, mark, count, fileVars, stored, buried, runs, alerts, noticed>>

(* max_records is reached: save and return. *)
SaveAndStop(r) ==
    /\ pc[r] = "handled" /\ AtLimit(r)
    /\ offset' = [offset EXCEPT ![Head(todo[r])] = mark[r]]
    /\ pc' = Update(pc, r, "idle")
    /\ UNCHANGED <<todo, text, line, mark, count, fileVars, stored, buried, runs, alerts, noticed>>

(* Else go on, and save if offset_persist_seconds have passed. *)
GoOn(r) ==
    /\ pc[r] = "handled" /\ ~AtLimit(r)
    /\ \/ offset' = [offset EXCEPT ![Head(todo[r])] = mark[r]]
       \/ offset' = offset
    /\ pc' = Update(pc, r, "reading")
    /\ UNCHANGED <<todo, text, line, mark, count, fileVars, stored, buried, runs, alerts, noticed>>

(* Mutant: the end of the file is taken for its length at this moment. *)
EndFileAtLength(r) ==
    /\ pc[r] = "reading" /\ Ahead(r) = {}
    /\ LET p == Head(todo[r]) IN
        /\ offset' = [offset EXCEPT ![p] = Len(file[p])]
        /\ noticed' = IF offset[p] > Len(text[r]) /\ text[r] = file[p] THEN noticed \cup {p} ELSE noticed
    /\ pc' = Update(pc, r, "between")
    /\ todo' = Update(todo, r, Rest(todo[r]))
    /\ UNCHANGED <<text, line, mark, count, fileVars, stored, buried, runs, alerts>>

(* No line is left: save, and on to the next file.  A file of which nothing  *)
(* was yielded keeps the offset that was read.                               *)
EndFile(r) ==
    /\ pc[r] = "reading" /\ Ahead(r) = {}
    /\ LET p == Head(todo[r]) IN
        /\ offset' = [offset EXCEPT ![p] = mark[r]]
        /\ noticed' = IF offset[p] > Len(text[r]) /\ text[r] = file[p] THEN noticed \cup {p} ELSE noticed
    /\ pc' = Update(pc, r, "between")
    /\ todo' = Update(todo, r, Rest(todo[r]))
    /\ UNCHANGED <<text, line, mark, count, fileVars, stored, buried, runs, alerts>>

EndPass(r) ==
    /\ pc[r] = "between" /\ todo[r] = <<>>
    /\ pc' = Update(pc, r, "idle")
    /\ UNCHANGED <<todo, text, line, mark, count, fileVars, tables, runs, alerts, noticed>>

(* The process dies, or an exception of record_failure or save_offset leaves *)
(* the pass.                                                                 *)
Abandon(r) ==
    /\ pc[r] \notin {"idle", "dead"}
    /\ pc' = Update(pc, r, "dead")
    /\ UNCHANGED <<todo, text, line, mark, count, fileVars, tables, runs, alerts, noticed>>

PassStep(r) ==
    \/ OpenFile(r) \/ HandleOk(r) \/ HandleFails(r)
    \/ SaveAndStop(r) \/ GoOn(r) \/ EndFile(r) \/ EndPass(r)

Next ==
    \/ \E p \in Path : (\E l \in Line : AppendLine(p, l)) \/ Rewrite(p)
    \/ \E r \in Runner : StartPass(r) \/ PassStep(r) \/ Abandon(r)

Spec == Init /\ [][Next]_vars

(* The tail goes over the files again and again, and is not killed in the    *)
(* middle of a pass for ever.                                                *)
Uninterrupted == \A r \in Runner : <>[][~Abandon(r)]_vars
Fairness == \A r \in Runner : WF_vars(StartPass(r)) /\ WF_vars(PassStep(r))

-----------------------------------------------------------------------------
(* What replay promises. *)

Settled == stored \cup buried

(* The next pass over p resumes behind line i though it was never handled.   *)
Lost(p, i) ==
    /\ i <= offset[p] /\ offset[p] <= Len(file[p])
    /\ file[p][i] \in Capture \ Settled

(* At least once: no pass, in whatever order passes save their offsets, die  *)
(* or reach their limit, leaves an offset behind a line that was neither     *)
(* handled nor dead-lettered (files that only grow).                         *)
NothingSkipped ==
    rewrites = 0 => \A p \in Path : \A i \in DOMAIN file[p] : ~Lost(p, i)

(* "replaying the same JSONL shouldn't spam the channel with duplicate       *)
(* alerts" (supervisor.run_replay).                                          *)
AlertedOnce == \A c \in Capture : alerts[c] <= 1

(* Every line that parses is settled in the end, though a pass handles only  *)
(* Limit of them and starts over with the first file.                        *)
EveryLineSettles ==
    Uninterrupted => \A c \in Capture :
        (\E p \in Path : \E i \in DOMAIN file[p] : file[p][i] = c) ~> c \in Settled

(* "each capture is processed exactly once across restarts"                  *)
(* (awareness_replay.py).                                                    *)
ProcessedOnce == \A c \in Capture : runs[c] <= 1

(* "failed captures go to dlq and do not advance the offset"                 *)
(* (SYSTEM_OVERVIEW.md).                                                     *)
FailureHoldsOffset ==
    \A p \in Path : \A i \in DOMAIN file[p] : file[p][i] \in buried \ stored => offset[p] < i

(* "reset to 0 and reprocess from line 1 rather than dropping the captures": *)
(* a file that a pass has read as shorter than its offset loses no line that *)
(* comes later.                                                              *)
ShrinkingIsNoticed == \A p \in noticed : \A i \in DOMAIN file[p] : ~Lost(p, i)

=============================================================================
