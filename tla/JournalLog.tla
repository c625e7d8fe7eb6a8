------------------------------ MODULE JournalLog ------------------------------
(***************************************************************************)
(* events.jsonl of one run (Journal and replay in src/simcairn/journal.py) *)
(* as the processes that run and resume it see it: an append-only file of  *)
(* numbered lines whose last append a crash or an error can cut short.     *)
(*                                                                         *)
(* A line is an event's identity, its sequence number, and whether it is   *)
(* JSON: a line that landed behind an unfinished one is not.               *)
(***************************************************************************)
EXTENDS Integers, Sequences, SequencesExt

CONSTANTS
    Writers,    \* processes that run or resume the run, once each
    MaxAppends, \* bound: appends one of them attempts
    MaxErrors,  \* bound: OSErrors of write or fsync
    MaxForced   \* bound: forced unlocks of a live run

ASSUME BoundsAssumption == {MaxAppends, MaxErrors, MaxForced} \subseteq Nat

VARIABLES
    lines, tail,   \* the file: complete lines, and what follows the last one
    holder,        \* who holds the run's lock
    pc, sequence,  \* per process; sequence is Journal.sequence
    attempts,      \* appends attempted, which name the events
    acked,         \* the events whose append returned, in that order
    errors, forced, erred \* history: OSErrors, forced unlocks, who met an error

file  == <<lines, tail>>
hist  == <<errors, forced, erred>>
vars  == <<lines, tail, holder, pc, sequence, attempts, acked, errors, forced, erred>>

Labels == {"out", "open", "ready", "sync", "done", "dead"}
Events == [by : Writers, n : 1 .. MaxAppends]
NoTail == [kind |-> "none", event |-> <<>>, seq |-> 0]
-----------------------------------------------------------------------------
(* replay: every complete line is the JSON of its own number; a last line *)
(* without its newline counts if it is JSON and is ignored if it is not.   *)
Readable == /\ \A i \in DOMAIN lines : lines[i].json /\ lines[i].seq = i - 1
            /\ tail.kind = "whole" => tail.seq = Len(lines)

Replayed == [i \in DOMAIN lines |-> lines[i].event]
            \o (IF tail.kind = "whole" THEN <<tail.event>> ELSE <<>>)

Init ==
    /\ lines = <<>> /\ tail = NoTail
    /\ holder = "none"
    /\ pc = [w \in Writers |-> "out"]
    /\ sequence = [w \in Writers |-> 0]
    /\ attempts = [w \in Writers |-> 0]
    /\ acked = <<>>
    /\ errors = 0 /\ forced = 0 /\ erred = {}

Goto(w, l) == pc' = [pc EXCEPT ![w] = l]
Event(w)   == [by |-> w, n |-> attempts[w]]

(* Mutant: the run's lock is not looked at *)
AcquireAnyway(w) ==
    /\ pc[w] = "out"
    /\ holder' = w
    /\ Goto(w, "open")
    /\ UNCHANGED <<file, sequence, attempts, acked, hist>>

(* RunLock: one process at a time, after those that died *)
Acquire(w) ==
    /\ pc[w] = "out"
    /\ \A v \in Writers : holder = v => pc[v] = "dead"
    /\ holder' = w
    /\ Goto(w, "open")
    /\ UNCHANGED <<file, sequence, attempts, acked, hist>>

Unlocked(w) == holder' = IF holder = w THEN "none" ELSE holder

(* Mutant: a last line without its newline is not counted *)
OpenCountingLines(w) ==
    /\ pc[w] = "open" /\ Readable
    /\ sequence' = [sequence EXCEPT ![w] = Len(lines)]
    /\ Goto(w, "ready")
    /\ UNCHANGED <<file, holder, attempts, acked, hist>>

(* Mutant: the last line is dropped, finished or not *)
OpenTruncating(w) ==
    /\ pc[w] = "open" /\ Readable
    /\ lines' = IF tail.kind = "none" /\ lines # <<>> THEN Front(lines) ELSE lines
    /\ tail' = NoTail
    /\ sequence' = [sequence EXCEPT ![w] = Len(lines')]
    /\ Goto(w, "ready")
    /\ UNCHANGED <<holder, attempts, acked, hist>>

(* Journal.__init__ *)
Open(w) ==
    /\ pc[w] = "open" /\ Readable
    /\ sequence' = [sequence EXCEPT ![w] = Len(Replayed)]
    /\ Goto(w, "ready")
    /\ UNCHANGED <<file, holder, attempts, acked, hist>>

OpenFails(w) ==
    /\ pc[w] = "open" /\ ~Readable
    /\ Unlocked(w)
    /\ Goto(w, "done")
    /\ UNCHANGED <<file, sequence, attempts, acked, hist>>

(* Journal.append writes a line in one piece ... *)
Write(w) ==
    /\ pc[w] = "ready" /\ attempts[w] < MaxAppends
    /\ attempts' = [attempts EXCEPT ![w] = @ + 1]
    /\ lines' = Append(lines, [event |-> Event(w)', seq |-> sequence[w],
                               json |-> tail.kind = "none"])
    /\ tail' = NoTail
    /\ Goto(w, "sync")
    /\ UNCHANGED <<holder, sequence, acked, hist>>

(* ... or some of it, all but the newline, or nothing, and then an error  *)
(* or the end of the process                                               *)
PartLands(w) ==
    \/ UNCHANGED tail
    \/ \E kind \in {"cut", "whole"} :
          tail' = IF tail.kind = "none"
                  THEN [kind |-> kind, event |-> Event(w)', seq |-> sequence[w]]
                  ELSE [NoTail EXCEPT !.kind = "cut"]

WriteFails(w) ==
    /\ pc[w] = "ready" /\ attempts[w] < MaxAppends /\ errors < MaxErrors
    /\ attempts' = [attempts EXCEPT ![w] = @ + 1]
    /\ PartLands(w)
    /\ errors' = errors + 1 /\ erred' = erred \cup {w}
    /\ UNCHANGED <<lines, holder, pc, sequence, acked, forced>>

DieWriting(w) ==
    /\ pc[w] = "ready" /\ attempts[w] < MaxAppends
    /\ attempts' = [attempts EXCEPT ![w] = @ + 1]
    /\ PartLands(w)
    /\ Goto(w, "dead")
    /\ UNCHANGED <<lines, holder, sequence, acked, hist>>

(* fsync returned: the append returns its event *)
Synced(w) ==
    /\ pc[w] = "sync"
    /\ acked' = Append(acked, Event(w))
    /\ sequence' = [sequence EXCEPT ![w] = @ + 1]
    /\ Goto(w, "ready")
    /\ UNCHANGED <<file, holder, attempts, hist>>

SyncFails(w) ==
    /\ pc[w] = "sync" /\ errors < MaxErrors
    /\ errors' = errors + 1 /\ erred' = erred \cup {w}
    /\ Goto(w, "ready")
    /\ UNCHANGED <<file, holder, sequence, attempts, acked, forced>>

(* The run is over, or an exception ends it *)
Finish(w) ==
    /\ pc[w] \in {"open", "ready"}
    /\ Unlocked(w)
    /\ Goto(w, "done")
    /\ UNCHANGED <<file, sequence, attempts, acked, hist>>

Die(w) ==
    /\ pc[w] \in {"open", "ready", "sync"}
    /\ Goto(w, "dead")
    /\ UNCHANGED <<file, holder, sequence, attempts, acked, hist>>

(* The host goes down before the last line, the only one that is not      *)
(* synced unless a forced unlock let two writers in, is on the disk        *)
PowerLoss(w) ==
    /\ pc[w] = "sync" /\ Last(lines).event = Event(w)
    /\ lines' = Front(lines)
    /\ \E kind \in {"none", "cut", "whole"} :
          tail' = IF kind # "none" /\ Last(lines).json
                  THEN [kind |-> kind, event |-> Event(w), seq |-> sequence[w]]
                  ELSE [NoTail EXCEPT !.kind = IF Last(lines).json THEN "none" ELSE "cut"]
    /\ pc' = [v \in Writers |-> IF pc[v] \in {"out", "done"} THEN pc[v] ELSE "dead"]
    /\ UNCHANGED <<holder, sequence, attempts, acked, hist>>

(* `simcairn unlock --force` of a run that is alive *)
ForceUnlock ==
    /\ \E w \in Writers : holder = w /\ pc[w] # "dead"
    /\ forced < MaxForced
    /\ holder' = "none"
    /\ forced' = forced + 1
    /\ UNCHANGED <<file, pc, sequence, attempts, acked, errors, erred>>

Next == \/ \E w \in Writers :
              \/ Acquire(w) \/ Open(w) \/ OpenFails(w)
              \/ Write(w) \/ WriteFails(w) \/ DieWriting(w)
              \/ Synced(w) \/ SyncFails(w)
              \/ Finish(w) \/ Die(w) \/ PowerLoss(w)
        \/ ForceUnlock

Spec == Init /\ [][Next]_vars
-----------------------------------------------------------------------------
(* Every variable has its type.                                            *)
Lines == [event : Events, seq : Nat, json : BOOLEAN]
Tails == [kind : {"none", "cut", "whole"}, event : Events \cup {<<>>}, seq : Nat]

TypeOK ==
    /\ lines \in Seq(Lines)
    /\ tail \in Tails
    /\ holder \in Writers \cup {"none"}
    /\ pc \in [Writers -> Labels]
    /\ sequence \in [Writers -> Nat]
    /\ attempts \in [Writers -> 0 .. MaxAppends]
    /\ acked \in Seq(Events)
    /\ errors \in 0 .. MaxErrors /\ forced \in 0 .. MaxForced
    /\ erred \subseteq Writers

(* What replay accepts is the truth: every event whose append returned is *)
(* there, once, also after crashes and next to a second writer that a      *)
(* forced unlock let in; without one, in the order the appends returned.   *)
AcknowledgedKept ==
    Readable => /\ \A i \in DOMAIN acked : \E j \in DOMAIN Replayed : Replayed[j] = acked[i]
                /\ \A i, j \in DOMAIN Replayed : Replayed[i] = Replayed[j] => i = j
                /\ forced = 0 => \A i, j \in DOMAIN acked, k, l \in DOMAIN Replayed :
                       Replayed[k] = acked[i] /\ Replayed[l] = acked[j] /\ i < j => k < l

(* A process that appends without an error numbers on where the readable  *)
(* file ends, across crashes of its predecessors.                          *)
NumbersContinue ==
    \A w \in Writers :
        pc[w] = "ready" /\ Readable /\ forced = 0 /\ w \notin erred =>
            sequence[w] = Len(Replayed)

(* One writer that meets no error cannot make a journal unreadable, unless *)
(* it appends behind a line that its predecessor left unfinished.          *)
OnlyUnfinishedBreaks ==
    [][Readable /\ ~Readable' =>
          \/ tail.kind # "none"
          \/ forced > 0
          \/ \E w \in erred : pc[w] = "ready"]_vars

(* README: "Recovery of an incomplete final journal record", "Resume       *)
(* ignores only a truncated final JSON line": a journal that only crashes  *)
(* cut short stays readable when the run is resumed.                        *)
CrashRecoverable == errors = 0 /\ forced = 0 => Readable
=============================================================================
