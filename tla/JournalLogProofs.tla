-------------------------- MODULE JournalLogProofs --------------------------
(***************************************************************************)
(* Proofs about JournalLog for any number of processes, appends, errors    *)
(* and forced unlocks: where the lines of the file come from, what the     *)
(* acknowledged ones among them are, and what the only writer knows.       *)
(***************************************************************************)
EXTENDS JournalLog, TLAPS

(* The events of the lines are different, and none is from an append that  *)
(* has not been attempted                                                  *)
Listed ==
    /\ \A i \in DOMAIN lines : lines[i].event.n <= attempts[lines[i].event.by]
    /\ \A i, j \in DOMAIN lines : lines[i].event = lines[j].event => i = j
    /\ tail.kind = "whole" =>
          /\ tail.event \in Events /\ tail.event.n <= attempts[tail.event.by]
          /\ \A i \in DOMAIN lines : lines[i].event # tail.event

(* The acknowledged events are in complete lines, in their order *)
Kept ==
    /\ \A i \in DOMAIN acked : \E j \in DOMAIN lines : lines[j].event = acked[i]
    /\ forced = 0 => \A i, j \in DOMAIN acked, k, l \in DOMAIN lines :
          lines[k].event = acked[i] /\ lines[l].event = acked[j] /\ i < j => k < l

(* A line that waits for fsync is not acknowledged *)
Syncing(w) == pc[w] = "sync" =>
    /\ attempts[w] >= 1 /\ \A i \in DOMAIN acked : acked[i] # Event(w)
    /\ \E j \in DOMAIN lines : lines[j].event = Event(w)
    /\ forced = 0 => /\ tail.kind = "none" /\ lines[Len(lines)].event = Event(w)
                     /\ lines[Len(lines)].seq = sequence[w]

(* Without a forced unlock there is one writer, and it knows its number *)
Counted == IF tail.kind = "whole" THEN Len(lines) + 1 ELSE Len(lines)
Alone(w) == forced = 0 =>
    /\ pc[w] \in {"open", "ready", "sync"} => holder = w
    /\ w \notin erred /\ Readable =>
          /\ pc[w] = "ready" => sequence[w] = Counted
          /\ pc[w] = "sync" => sequence[w] = Len(lines) - 1

IInv == TypeOK /\ Listed /\ Kept /\ \A w \in Writers : Syncing(w) /\ Alone(w)

(* What is replayed are the lines, and a tail that is whole.               *)
LEMMA ReplayedIs ==
    ASSUME TypeOK
    PROVE  /\ Len(Replayed) = Counted /\ Counted \in Nat
           /\ DOMAIN lines = 1 .. Len(lines) /\ Len(lines) \in Nat
           /\ DOMAIN Replayed = 1 .. Counted
           /\ \A i \in DOMAIN lines : Replayed[i] = lines[i].event
           /\ tail.kind = "whole" => Replayed[Counted] = tail.event
<1> DEFINE R == [i \in DOMAIN lines |-> lines[i].event]
<1>1. /\ lines \in Seq(Lines) /\ Len(lines) \in Nat /\ DOMAIN lines = 1 .. Len(lines)
  BY DEF TypeOK
<1>2. R \in Seq({lines[i].event : i \in DOMAIN lines}) /\ Len(R) = Len(lines)
  BY <1>1
<1>3. CASE tail.kind = "whole"
  <2>1. Replayed = R \o <<tail.event>>
    BY <1>3 DEF Replayed
  <2>2. /\ Len(Replayed) = Len(lines) + 1 /\ DOMAIN Replayed = 1 .. Len(lines) + 1
        /\ \A i \in DOMAIN lines : Replayed[i] = lines[i].event
        /\ Replayed[Len(lines) + 1] = tail.event
    BY <1>1, <1>2, <2>1
  <2> QED
    BY <1>1, <1>3, <2>2 DEF Counted
<1>4. CASE tail.kind # "whole"
  <2>1. Replayed = R \o << >>
    BY <1>4 DEF Replayed
  <2>2. /\ Len(Replayed) = Len(lines) /\ DOMAIN Replayed = 1 .. Len(lines)
        /\ \A i \in DOMAIN lines : Replayed[i] = lines[i].event
    BY <1>1, <1>2, <2>1
  <2> QED
    BY <1>1, <1>4, <2>2 DEF Counted
<1> QED
  BY <1>3, <1>4

(* An append adds one line.                                                *)
LEMMA AppendLine ==
    ASSUME TypeOK, NEW x \in Lines, lines' = Append(lines, x)
    PROVE  /\ lines' \in Seq(Lines) /\ Len(lines) \in Nat /\ Len(lines') = Len(lines) + 1
           /\ DOMAIN lines = 1 .. Len(lines) /\ DOMAIN lines' = 1 .. Len(lines) + 1
           /\ \A i \in 1 .. Len(lines) : lines'[i] = lines[i]
           /\ lines'[Len(lines) + 1] = x
BY DEF TypeOK

(* The loss of the last line leaves the others.                            *)
LEMMA DropLine ==
    ASSUME TypeOK, lines # <<>>, lines' = Front(lines)
    PROVE  /\ lines' \in Seq(Lines) /\ Len(lines) \in Nat \ {0} /\ Len(lines') = Len(lines) - 1
           /\ DOMAIN lines = 1 .. Len(lines) /\ DOMAIN lines' = 1 .. Len(lines) - 1
           /\ \A i \in 1 .. Len(lines) - 1 : lines'[i] = lines[i]
<1>1. lines \in Seq(Lines) /\ Len(lines) \in Nat \ {0}
  BY DEF TypeOK
<1>2. lines' = [i \in 1 .. Len(lines) - 1 |-> lines[i]]
  BY <1>1 DEF Front
<1> QED
  BY <1>1, <1>2

(* A process takes the lock from nobody, or from the dead. *)
LEMMA AcquireDoes ==
    ASSUME NEW p \in Writers, IInv, Acquire(p)
    PROVE  IInv'
<1>s. TypeOK /\ Listed /\ Kept
  BY DEF IInv
<1>f. UNCHANGED <<lines, tail, attempts, acked>>
  BY DEF Acquire, Goto, file, hist
<1>1. TypeOK'
  BY <1>s, BoundsAssumption DEF TypeOK, Labels, Acquire, Goto, file, hist
<1>z. forced' = 0 => forced = 0
  BY <1>s, <1>1 DEF TypeOK, Acquire, Goto, file, hist
<1>2. Listed'
  BY <1>s, <1>f DEF Listed
<1>3. Kept'
  BY <1>s, <1>f, <1>z DEF Kept
<1>4. ASSUME NEW w \in Writers PROVE Syncing(w)' /\ Alone(w)'
  <2>s. Syncing(w) /\ Alone(w)
    BY DEF IInv
  <2>1. pc'[w] = "sync" => pc[w] = "sync" /\ sequence'[w] = sequence[w]
    BY <1>s DEF TypeOK, Acquire, Goto, file, hist
  <2>2. Syncing(w)'
    BY <1>f, <1>z, <2>s, <2>1 DEF Syncing, Event
  <2>3. Readable' = Readable
    BY <1>f DEF Readable
  <2>4. Counted' = Counted
    BY <1>f DEF Counted
  <2>5. Alone(w)'
    BY <1>s, <1>f, <1>z, <2>s, <2>3, <2>4 DEF Alone, TypeOK, IInv, Acquire, Goto, file, hist
  <2> QED
    BY <2>2, <2>5
<1> QED
  BY <1>1, <1>2, <1>3, <1>4 DEF IInv

(* A journal that cannot be read is left alone. *)
LEMMA OpenFailsDoes ==
    ASSUME NEW p \in Writers, IInv, OpenFails(p)
    PROVE  IInv'
<1>s. TypeOK /\ Listed /\ Kept
  BY DEF IInv
<1>f. UNCHANGED <<lines, tail, attempts, acked>>
  BY DEF OpenFails, Goto, Unlocked, file, hist
<1>1. TypeOK'
  BY <1>s, BoundsAssumption DEF TypeOK, Labels, OpenFails, Goto, Unlocked, file, hist
<1>z. forced' = 0 => forced = 0
  BY <1>s, <1>1 DEF TypeOK, OpenFails, Goto, Unlocked, file, hist
<1>2. Listed'
  BY <1>s, <1>f DEF Listed
<1>3. Kept'
  BY <1>s, <1>f, <1>z DEF Kept
<1>4. ASSUME NEW w \in Writers PROVE Syncing(w)' /\ Alone(w)'
  <2>s. Syncing(w) /\ Alone(w)
    BY DEF IInv
  <2>1. pc'[w] = "sync" => pc[w] = "sync" /\ sequence'[w] = sequence[w]
    BY <1>s DEF TypeOK, OpenFails, Goto, Unlocked, file, hist
  <2>2. Syncing(w)'
    BY <1>f, <1>z, <2>s, <2>1 DEF Syncing, Event
  <2>3. Readable' = Readable
    BY <1>f DEF Readable
  <2>4. Counted' = Counted
    BY <1>f DEF Counted
  <2>5. Alone(w)'
    BY <1>s, <1>f, <1>z, <2>s, <2>3, <2>4 DEF Alone, TypeOK, IInv, OpenFails, Goto, Unlocked, file, hist
  <2> QED
    BY <2>2, <2>5
<1> QED
  BY <1>1, <1>2, <1>3, <1>4 DEF IInv

(* An append that fails to sync has not returned. *)
LEMMA SyncFailsDoes ==
    ASSUME NEW p \in Writers, IInv, SyncFails(p)
    PROVE  IInv'
<1>s. TypeOK /\ Listed /\ Kept
  BY DEF IInv
<1>f. UNCHANGED <<lines, tail, attempts, acked>>
  BY DEF SyncFails, Goto, file
<1>1. TypeOK'
  BY <1>s, BoundsAssumption DEF TypeOK, Labels, SyncFails, Goto, file
<1>z. forced' = 0 => forced = 0
  BY <1>s, <1>1 DEF TypeOK, SyncFails, Goto, file
<1>2. Listed'
  BY <1>s, <1>f DEF Listed
<1>3. Kept'
  BY <1>s, <1>f, <1>z DEF Kept
<1>4. ASSUME NEW w \in Writers PROVE Syncing(w)' /\ Alone(w)'
  <2>s. Syncing(w) /\ Alone(w)
    BY DEF IInv
  <2>1. pc'[w] = "sync" => pc[w] = "sync" /\ sequence'[w] = sequence[w]
    BY <1>s DEF TypeOK, SyncFails, Goto, file
  <2>2. Syncing(w)'
    BY <1>f, <1>z, <2>s, <2>1 DEF Syncing, Event
  <2>3. Readable' = Readable
    BY <1>f DEF Readable
  <2>4. Counted' = Counted
    BY <1>f DEF Counted
  <2>5. Alone(w)'
    BY <1>s, <1>f, <1>z, <2>s, <2>3, <2>4 DEF Alone, TypeOK, IInv, SyncFails, Goto, file
  <2> QED
    BY <2>2, <2>5
<1> QED
  BY <1>1, <1>2, <1>3, <1>4 DEF IInv

(* A process that finishes lets the lock go. *)
LEMMA FinishDoes ==
    ASSUME NEW p \in Writers, IInv, Finish(p)
    PROVE  IInv'
<1>s. TypeOK /\ Listed /\ Kept
  BY DEF IInv
<1>f. UNCHANGED <<lines, tail, attempts, acked>>
  BY DEF Finish, Goto, Unlocked, file, hist
<1>1. TypeOK'
  BY <1>s, BoundsAssumption DEF TypeOK, Labels, Finish, Goto, Unlocked, file, hist
<1>z. forced' = 0 => forced = 0
  BY <1>s, <1>1 DEF TypeOK, Finish, Goto, Unlocked, file, hist
<1>2. Listed'
  BY <1>s, <1>f DEF Listed
<1>3. Kept'
  BY <1>s, <1>f, <1>z DEF Kept
<1>4. ASSUME NEW w \in Writers PROVE Syncing(w)' /\ Alone(w)'
  <2>s. Syncing(w) /\ Alone(w)
    BY DEF IInv
  <2>1. pc'[w] = "sync" => pc[w] = "sync" /\ sequence'[w] = sequence[w]
    BY <1>s DEF TypeOK, Finish, Goto, Unlocked, file, hist
  <2>2. Syncing(w)'
    BY <1>f, <1>z, <2>s, <2>1 DEF Syncing, Event
  <2>3. Readable' = Readable
    BY <1>f DEF Readable
  <2>4. Counted' = Counted
    BY <1>f DEF Counted
  <2>5. Alone(w)'
    BY <1>s, <1>f, <1>z, <2>s, <2>3, <2>4 DEF Alone, TypeOK, IInv, Finish, Goto, Unlocked, file, hist
  <2> QED
    BY <2>2, <2>5
<1> QED
  BY <1>1, <1>2, <1>3, <1>4 DEF IInv

(* A process that dies keeps the lock. *)
LEMMA DieDoes ==
    ASSUME NEW p \in Writers, IInv, Die(p)
    PROVE  IInv'
<1>s. TypeOK /\ Listed /\ Kept
  BY DEF IInv
<1>f. UNCHANGED <<lines, tail, attempts, acked>>
  BY DEF Die, Goto, file, hist
<1>1. TypeOK'
  BY <1>s, BoundsAssumption DEF TypeOK, Labels, Die, Goto, file, hist
<1>z. forced' = 0 => forced = 0
  BY <1>s, <1>1 DEF TypeOK, Die, Goto, file, hist
<1>2. Listed'
  BY <1>s, <1>f DEF Listed
<1>3. Kept'
  BY <1>s, <1>f, <1>z DEF Kept
<1>4. ASSUME NEW w \in Writers PROVE Syncing(w)' /\ Alone(w)'
  <2>s. Syncing(w) /\ Alone(w)
    BY DEF IInv
  <2>1. pc'[w] = "sync" => pc[w] = "sync" /\ sequence'[w] = sequence[w]
    BY <1>s DEF TypeOK, Die, Goto, file, hist
  <2>2. Syncing(w)'
    BY <1>f, <1>z, <2>s, <2>1 DEF Syncing, Event
  <2>3. Readable' = Readable
    BY <1>f DEF Readable
  <2>4. Counted' = Counted
    BY <1>f DEF Counted
  <2>5. Alone(w)'
    BY <1>s, <1>f, <1>z, <2>s, <2>3, <2>4 DEF Alone, TypeOK, IInv, Die, Goto, file, hist
  <2> QED
    BY <2>2, <2>5
<1> QED
  BY <1>1, <1>2, <1>3, <1>4 DEF IInv

(* A process that opens the journal counts what it replays. *)
LEMMA OpenDoes ==
    ASSUME NEW p \in Writers, IInv, Open(p)
    PROVE  IInv'
<1>s. TypeOK /\ Listed /\ Kept
  BY DEF IInv
<1>f. UNCHANGED <<lines, tail, attempts, acked>>
  BY DEF Open, Goto, file, hist
<1>1. TypeOK'
  BY <1>s, BoundsAssumption, <1>s, ReplayedIs DEF TypeOK, Labels, Open, Goto, file, hist
<1>z. forced' = 0 => forced = 0
  BY <1>s, <1>1 DEF TypeOK, Open, Goto, file, hist
<1>2. Listed'
  BY <1>s, <1>f DEF Listed
<1>3. Kept'
  BY <1>s, <1>f, <1>z DEF Kept
<1>4. ASSUME NEW w \in Writers PROVE Syncing(w)' /\ Alone(w)'
  <2>s. Syncing(w) /\ Alone(w)
    BY DEF IInv
  <2>1. pc'[w] = "sync" => pc[w] = "sync" /\ sequence'[w] = sequence[w]
    BY <1>s DEF TypeOK, Open, Goto, file, hist
  <2>2. Syncing(w)'
    BY <1>f, <1>z, <2>s, <2>1 DEF Syncing, Event
  <2>3. Readable' = Readable
    BY <1>f DEF Readable
  <2>4. Counted' = Counted
    BY <1>f DEF Counted
  <2>5. Alone(w)'
    BY <1>s, <1>f, <1>z, <2>s, <2>3, <2>4, <1>s, ReplayedIs DEF Alone, TypeOK, IInv, Open, Goto, file, hist
  <2> QED
    BY <2>2, <2>5
<1> QED
  BY <1>1, <1>2, <1>3, <1>4 DEF IInv

(* A forced unlock touches no journal. *)
LEMMA ForceUnlockDoes ==
    ASSUME IInv, ForceUnlock
    PROVE  IInv'
<1>s. TypeOK /\ Listed /\ Kept
  BY DEF IInv
<1>f. UNCHANGED <<lines, tail, attempts, acked>>
  BY DEF ForceUnlock, file
<1>1. TypeOK'
  BY <1>s, BoundsAssumption DEF TypeOK, Labels, ForceUnlock, file
<1>z. forced' = 0 => forced = 0
  BY <1>s, <1>1 DEF TypeOK, ForceUnlock, file
<1>2. Listed'
  BY <1>s, <1>f DEF Listed
<1>3. Kept'
  BY <1>s, <1>f, <1>z DEF Kept
<1>4. ASSUME NEW w \in Writers PROVE Syncing(w)' /\ Alone(w)'
  <2>s. Syncing(w) /\ Alone(w)
    BY DEF IInv
  <2>1. pc'[w] = "sync" => pc[w] = "sync" /\ sequence'[w] = sequence[w]
    BY <1>s DEF TypeOK, ForceUnlock, file
  <2>2. Syncing(w)'
    BY <1>f, <1>z, <2>s, <2>1 DEF Syncing, Event
  <2>3. Readable' = Readable
    BY <1>f DEF Readable
  <2>4. Counted' = Counted
    BY <1>f DEF Counted
  <2>5. Alone(w)'
    BY <1>s, <1>f, <1>z, <2>s, <2>3, <2>4 DEF Alone, TypeOK, IInv, ForceUnlock, file
  <2> QED
    BY <2>2, <2>5
<1> QED
  BY <1>1, <1>2, <1>3, <1>4 DEF IInv

(* The event of the next append is new.                                    *)
LEMMA NewEvent ==
    ASSUME NEW p \in Writers, IInv, attempts[p] < MaxAppends,
           attempts' = [attempts EXCEPT ![p] = @ + 1]
    PROVE  /\ attempts' \in [Writers -> 0 .. MaxAppends] /\ attempts'[p] = attempts[p] + 1
           /\ Event(p)' \in Events /\ Event(p)'.by = p /\ Event(p)'.n = attempts'[p]
           /\ \A e \in Events : e.n <= attempts[e.by] => e # Event(p)' /\ e.n <= attempts'[e.by]
           /\ \A i \in DOMAIN lines : lines[i].event \in Events /\ lines[i].event # Event(p)'
           /\ \A i \in DOMAIN acked : acked[i] \in Events /\ acked[i] # Event(p)'
           /\ tail.kind = "whole" => tail.event # Event(p)'
<1>s. TypeOK /\ Listed /\ Kept
  BY DEF IInv
<1>1. /\ attempts' \in [Writers -> 0 .. MaxAppends] /\ attempts'[p] = attempts[p] + 1
      /\ attempts'[p] \in 1 .. MaxAppends
      /\ \A w \in Writers : attempts[w] <= attempts'[w]
  BY <1>s, BoundsAssumption DEF TypeOK
<1>2. Event(p)' \in Events /\ Event(p)'.by = p /\ Event(p)'.n = attempts'[p]
  BY <1>1 DEF Event, Events
<1>3. ASSUME NEW e \in Events, e.n <= attempts[e.by]
      PROVE  e # Event(p)' /\ e.n <= attempts'[e.by]
  <2>1. e.by \in Writers /\ e.n \in Nat
    BY DEF Events
  <2>2. attempts[e.by] \in Nat /\ attempts'[e.by] \in Nat /\ attempts[p] \in Nat
    BY <1>s, <1>1, <2>1, BoundsAssumption DEF TypeOK
  <2> QED
    BY <1>1, <1>2, <1>3, <2>1, <2>2
<1>4. \A i \in DOMAIN lines : lines[i].event \in Events /\ lines[i].event # Event(p)'
  <2> SUFFICES ASSUME NEW i \in DOMAIN lines
               PROVE  lines[i].event \in Events /\ lines[i].event # Event(p)'
    OBVIOUS
  <2>1. lines[i] \in Lines
    BY <1>s DEF TypeOK
  <2>2. lines[i].event \in Events
    BY <2>1 DEF Lines
  <2> QED
    BY <1>s, <1>3, <2>2 DEF Listed
<1>5. \A i \in DOMAIN acked : acked[i] \in Events /\ acked[i] # Event(p)'
  <2> SUFFICES ASSUME NEW i \in DOMAIN acked PROVE acked[i] \in Events /\ acked[i] # Event(p)'
    OBVIOUS
  <2>1. PICK j \in DOMAIN lines : lines[j].event = acked[i]
    BY <1>s DEF Kept
  <2> QED
    BY <1>4, <2>1
<1>6. tail.kind = "whole" => tail.event # Event(p)'
  BY <1>s, <1>3 DEF Listed
<1> QED
  BY <1>1, <1>2, <1>3, <1>4, <1>5, <1>6

(* An append adds its line, which is JSON where no unfinished line was.    *)
LEMMA WriteDoes ==
    ASSUME NEW p \in Writers, IInv, Write(p)
    PROVE  IInv'
<1> DEFINE x == [event |-> Event(p)', seq |-> sequence[p], json |-> tail.kind = "none"]
<1>s. TypeOK /\ Listed /\ Kept /\ pc[p] = "ready"
  BY DEF IInv, Write
<1>f. /\ attempts[p] < MaxAppends /\ attempts' = [attempts EXCEPT ![p] = @ + 1]
      /\ lines' = Append(lines, x) /\ tail' = NoTail
      /\ pc' = [pc EXCEPT ![p] = "sync"]
      /\ UNCHANGED <<holder, sequence, acked, errors, forced, erred>>
  BY DEF Write, Goto, hist
<1>e. /\ attempts' \in [Writers -> 0 .. MaxAppends] /\ attempts'[p] = attempts[p] + 1
      /\ Event(p)' \in Events /\ Event(p)'.by = p /\ Event(p)'.n = attempts'[p]
      /\ \A e \in Events : e.n <= attempts[e.by] => e # Event(p)' /\ e.n <= attempts'[e.by]
      /\ \A i \in DOMAIN lines : lines[i].event \in Events /\ lines[i].event # Event(p)'
      /\ \A i \in DOMAIN acked : acked[i] \in Events /\ acked[i] # Event(p)'
  BY <1>f, NewEvent
<1>x. x \in Lines /\ x.event = Event(p)' /\ x.seq = sequence[p] /\ (x.json <=> tail.kind = "none")
  <2>1. sequence[p] \in Nat /\ (tail.kind = "none") \in BOOLEAN
    BY <1>s DEF TypeOK
  <2> QED
    BY <1>e, <2>1 DEF Lines
<1> HIDE DEF x
<1>a. /\ lines' \in Seq(Lines) /\ Len(lines) \in Nat /\ Len(lines') = Len(lines) + 1
      /\ DOMAIN lines = 1 .. Len(lines) /\ DOMAIN lines' = 1 .. Len(lines) + 1
      /\ \A i \in 1 .. Len(lines) : lines'[i] = lines[i]
      /\ lines'[Len(lines) + 1] = x
  BY <1>s, <1>f, <1>x, AppendLine
<1>t. tail' \in Tails /\ tail'.kind = "none"
  BY <1>f DEF NoTail, Tails
<1>1. TypeOK'
  BY <1>s, <1>f, <1>e, <1>a, <1>t DEF TypeOK, Labels
<1>2. Listed'
  <2>1. \A i \in DOMAIN lines' : lines'[i].event.n <= attempts'[lines'[i].event.by]
    <3>1. attempts'[p] \in Nat
      BY <1>e, BoundsAssumption
    <3>2. x.event.n <= attempts'[x.event.by]
      BY <1>e, <1>x, <3>1
    <3>3. \A i \in 1 .. Len(lines) : lines[i].event.n <= attempts'[lines[i].event.by]
      BY <1>s, <1>e, <1>a DEF Listed
    <3> QED
      BY <1>a, <3>2, <3>3
  <2>2. \A i, j \in DOMAIN lines' : lines'[i].event = lines'[j].event => i = j
    BY <1>s, <1>e, <1>a, <1>x DEF Listed
  <2> QED
    BY <1>t, <2>1, <2>2 DEF Listed
<1>3. Kept'
  <2>1. \A i \in DOMAIN acked' : \E j \in DOMAIN lines' : lines'[j].event = acked'[i]
    BY <1>s, <1>f, <1>a DEF Kept
  <2>2. forced' = 0 => \A i, j \in DOMAIN acked', k, l \in DOMAIN lines' :
          lines'[k].event = acked'[i] /\ lines'[l].event = acked'[j] /\ i < j => k < l
    <3> SUFFICES ASSUME forced' = 0, NEW i \in DOMAIN acked, NEW j \in DOMAIN acked,
                        NEW k \in DOMAIN lines', NEW l \in DOMAIN lines',
                        lines'[k].event = acked[i], lines'[l].event = acked[j], i < j
                 PROVE  k < l
      BY <1>f
    <3>1. k \in DOMAIN lines /\ l \in DOMAIN lines /\ lines'[k] = lines[k] /\ lines'[l] = lines[l]
      BY <1>e, <1>a, <1>x
    <3> QED
      BY <1>s, <1>f, <3>1 DEF Kept
  <2> QED
    BY <2>1, <2>2 DEF Kept
<1>r. Readable' => Readable /\ tail.kind = "none"
  <2> SUFFICES ASSUME Readable' PROVE Readable /\ tail.kind = "none"
    OBVIOUS
  <2>1. \A i \in 1 .. Len(lines) + 1 : lines'[i].json /\ lines'[i].seq = i - 1
    BY <1>a DEF Readable
  <2>2. tail.kind = "none"
    BY <1>a, <1>x, <2>1
  <2> QED
    BY <1>a, <2>1, <2>2 DEF Readable
<1>4. ASSUME NEW w \in Writers PROVE Syncing(w)' /\ Alone(w)'
  <2>s. Syncing(w) /\ Alone(w)
    BY DEF IInv
  <2>1. CASE w = p
    <3>1. pc'[p] = "sync" /\ lines'[Len(lines')] = x
      BY <1>s, <1>a, <1>f DEF TypeOK
    <3>2. attempts'[p] >= 1
      BY <1>e, <1>s, BoundsAssumption DEF TypeOK
    <3>3. Syncing(w)'
      BY <1>f, <1>e, <1>x, <1>a, <1>t, <2>1, <3>1, <3>2 DEF Syncing
    <3>4. forced' = 0 => holder' = w
      BY <1>s, <1>f, <2>1, <2>s DEF Alone
    <3>5. forced' = 0 /\ w \notin erred' /\ Readable' => sequence'[w] = Len(lines') - 1
      BY <1>s, <1>f, <1>r, <1>a, <2>1, <2>s DEF Alone, Counted
    <3>6. Alone(w)'
      BY <2>1, <3>1, <3>4, <3>5 DEF Alone
    <3> QED
      BY <3>3, <3>6
  <2>2. CASE w # p
    <3>1. pc'[w] = pc[w] /\ attempts'[w] = attempts[w] /\ Event(w)' = Event(w)
      BY <1>s, <1>f, <2>2 DEF TypeOK, Event
    <3>2. forced = 0 => pc[w] \notin {"open", "ready", "sync"}
      <4>1. Alone(p)
        BY DEF IInv
      <4> QED
        BY <4>1, <1>s, <2>s, <2>2 DEF Alone
    <3>3. Syncing(w)'
      BY <1>f, <1>a, <2>s, <3>1, <3>2 DEF Syncing
    <3>4. Alone(w)'
      BY <1>f, <3>1, <3>2 DEF Alone
    <3> QED
      BY <3>3, <3>4
  <2> QED
    BY <2>1, <2>2
<1> QED
  BY <1>1, <1>2, <1>3, <1>4 DEF IInv

(* What a failing write leaves behind the last line.                       *)
LEMMA PartTail ==
    ASSUME NEW p \in Writers, IInv, PartLands(p), attempts[p] < MaxAppends,
           attempts' = [attempts EXCEPT ![p] = @ + 1]
    PROVE  /\ tail' \in Tails
           /\ tail'.kind = "whole" =>
                 \/ tail' = tail
                 \/ tail.kind = "none" /\ tail'.event = Event(p)' /\ tail'.seq = sequence[p]
<1>s. TypeOK
  BY DEF IInv
<1>1. Event(p)' \in Events /\ sequence[p] \in Nat
  BY <1>s, NewEvent DEF TypeOK
<1>2. tail \in Tails
  BY <1>s DEF TypeOK
<1>3. ASSUME NEW kind \in {"cut", "whole"}, tail.kind = "none",
             tail' = [kind |-> kind, event |-> Event(p)', seq |-> sequence[p]]
      PROVE  tail' \in Tails /\ tail'.event = Event(p)' /\ tail'.seq = sequence[p]
  BY <1>1, <1>3 DEF Tails
<1>4. ASSUME tail' = [NoTail EXCEPT !.kind = "cut"] PROVE tail' \in Tails /\ tail'.kind = "cut"
  <2>1. tail' = [kind |-> "cut", event |-> <<>>, seq |-> 0]
    BY <1>4 DEF NoTail
  <2> QED
    BY <2>1 DEF Tails
<1>5. \/ UNCHANGED tail
      \/ \E kind \in {"cut", "whole"} :
            /\ tail.kind = "none"
            /\ tail' = [kind |-> kind, event |-> Event(p)', seq |-> sequence[p]]
      \/ tail' = [NoTail EXCEPT !.kind = "cut"]
  BY DEF PartLands
<1>6. CASE UNCHANGED tail
  <2>1. tail' = tail
    BY <1>6
  <2>2. tail' \in Tails
    BY <1>2, <2>1
  <2> QED
    BY <2>1, <2>2
<1>7. CASE \E kind \in {"cut", "whole"} :
              /\ tail.kind = "none"
              /\ tail' = [kind |-> kind, event |-> Event(p)', seq |-> sequence[p]]
  <2>1. PICK kind \in {"cut", "whole"} :
              /\ tail.kind = "none"
              /\ tail' = [kind |-> kind, event |-> Event(p)', seq |-> sequence[p]]
    BY <1>7
  <2>2. tail' \in Tails /\ tail'.event = Event(p)' /\ tail'.seq = sequence[p]
    BY <1>3, <2>1
  <2> QED
    BY <2>1, <2>2
<1>8. CASE tail' = [NoTail EXCEPT !.kind = "cut"]
  <2>1. tail' \in Tails /\ tail'.kind = "cut"
    BY <1>4, <1>8
  <2> QED
    BY <2>1
<1> QED
  BY <1>5, <1>6, <1>7, <1>8

(* An append that fails leaves no line, and its process is known for it. *)
LEMMA WriteFailsDoes ==
    ASSUME NEW p \in Writers, IInv, WriteFails(p)
    PROVE  IInv'
<1>s. TypeOK /\ Listed /\ Kept /\ pc[p] = "ready"
  BY DEF IInv, WriteFails
<1>f. /\ attempts[p] < MaxAppends /\ attempts' = [attempts EXCEPT ![p] = @ + 1]
      /\ pc' = pc /\ erred' = erred \cup {p} /\ errors' = errors + 1 /\ errors < MaxErrors
      /\ UNCHANGED <<lines, holder, sequence, acked, forced>>
  BY DEF WriteFails, Goto, hist
<1>e. /\ attempts' \in [Writers -> 0 .. MaxAppends] /\ attempts'[p] = attempts[p] + 1
      /\ Event(p)' \in Events /\ Event(p)'.by = p /\ Event(p)'.n = attempts'[p]
      /\ \A e \in Events : e.n <= attempts[e.by] => e # Event(p)' /\ e.n <= attempts'[e.by]
      /\ \A i \in DOMAIN lines : lines[i].event \in Events /\ lines[i].event # Event(p)'
  BY <1>f, NewEvent
<1>t. /\ tail' \in Tails
      /\ tail'.kind = "whole" =>
            \/ tail' = tail
            \/ tail.kind = "none" /\ tail'.event = Event(p)' /\ tail'.seq = sequence[p]
  BY PartTail DEF WriteFails
<1>1. TypeOK'
  <2>1. errors' \in 0 .. MaxErrors /\ erred' \subseteq Writers /\ pc' \in [Writers -> Labels]
    BY <1>s, <1>f, BoundsAssumption DEF TypeOK, Labels
  <2> QED
    BY <1>s, <1>f, <1>e, <1>t, <2>1 DEF TypeOK
<1>2. Listed'
  <2>1. \A i \in DOMAIN lines' : lines'[i].event.n <= attempts'[lines'[i].event.by]
    BY <1>s, <1>f, <1>e DEF Listed
  <2>2. \A i, j \in DOMAIN lines' : lines'[i].event = lines'[j].event => i = j
    BY <1>s, <1>f DEF Listed
  <2>3. tail'.kind = "whole" =>
          /\ tail'.event \in Events /\ tail'.event.n <= attempts'[tail'.event.by]
          /\ \A i \in DOMAIN lines' : lines'[i].event # tail'.event
    <3>1. CASE tail' = tail
      BY <1>s, <1>f, <1>e, <3>1 DEF Listed
    <3>2. CASE tail'.event = Event(p)'
      <4>1. attempts'[p] \in Nat
        BY <1>e, BoundsAssumption
      <4> QED
        BY <1>f, <1>e, <3>2, <4>1
    <3> QED
      BY <1>t, <3>1, <3>2
  <2> QED
    BY <2>1, <2>2, <2>3 DEF Listed
<1>3. Kept'
  BY <1>s, <1>f DEF Kept
<1>4. ASSUME NEW w \in Writers PROVE Syncing(w)' /\ Alone(w)'
  <2>s. Syncing(w) /\ Alone(w)
    BY DEF IInv
  <2>1. CASE w = p
    <3>1. pc'[w] # "sync"
      BY <1>s, <1>f, <2>1 DEF TypeOK
    <3>2. pc'[w] \in {"open", "ready", "sync"} => w \in erred' /\ pc[w] = "ready"
      BY <1>s, <1>f, <2>1 DEF TypeOK
    <3>3. Syncing(w)'
      BY <3>1 DEF Syncing
    <3>4. Alone(w)'
      BY <1>f, <2>s, <3>1, <3>2 DEF Alone
    <3> QED
      BY <3>3, <3>4
  <2>2. CASE w # p
    <3>1. pc'[w] = pc[w] /\ attempts'[w] = attempts[w] /\ Event(w)' = Event(w)
      BY <1>s, <1>f, <2>2 DEF TypeOK, Event
    <3>2. forced = 0 => pc[w] \notin {"open", "ready", "sync"}
      <4>1. Alone(p)
        BY DEF IInv
      <4> QED
        BY <4>1, <1>s, <2>s, <2>2 DEF Alone
    <3>3. Syncing(w)'
      BY <1>f, <2>s, <3>1, <3>2 DEF Syncing
    <3>4. Alone(w)'
      BY <1>f, <3>1, <3>2 DEF Alone
    <3> QED
      BY <3>3, <3>4
  <2> QED
    BY <2>1, <2>2
<1> QED
  BY <1>1, <1>2, <1>3, <1>4 DEF IInv

(* An append that dies leaves no line. *)
LEMMA DieWritingDoes ==
    ASSUME NEW p \in Writers, IInv, DieWriting(p)
    PROVE  IInv'
<1>s. TypeOK /\ Listed /\ Kept /\ pc[p] = "ready"
  BY DEF IInv, DieWriting
<1>f. /\ attempts[p] < MaxAppends /\ attempts' = [attempts EXCEPT ![p] = @ + 1]
      /\ pc' = [pc EXCEPT ![p] = "dead"] /\ erred' = erred /\ errors' = errors
      /\ UNCHANGED <<lines, holder, sequence, acked, forced>>
  BY DEF DieWriting, Goto, hist
<1>e. /\ attempts' \in [Writers -> 0 .. MaxAppends] /\ attempts'[p] = attempts[p] + 1
      /\ Event(p)' \in Events /\ Event(p)'.by = p /\ Event(p)'.n = attempts'[p]
      /\ \A e \in Events : e.n <= attempts[e.by] => e # Event(p)' /\ e.n <= attempts'[e.by]
      /\ \A i \in DOMAIN lines : lines[i].event \in Events /\ lines[i].event # Event(p)'
  BY <1>f, NewEvent
<1>t. /\ tail' \in Tails
      /\ tail'.kind = "whole" =>
            \/ tail' = tail
            \/ tail.kind = "none" /\ tail'.event = Event(p)' /\ tail'.seq = sequence[p]
  BY PartTail DEF DieWriting
<1>1. TypeOK'
  <2>1. errors' \in 0 .. MaxErrors /\ erred' \subseteq Writers /\ pc' \in [Writers -> Labels]
    BY <1>s, <1>f, BoundsAssumption DEF TypeOK, Labels
  <2> QED
    BY <1>s, <1>f, <1>e, <1>t, <2>1 DEF TypeOK
<1>2. Listed'
  <2>1. \A i \in DOMAIN lines' : lines'[i].event.n <= attempts'[lines'[i].event.by]
    BY <1>s, <1>f, <1>e DEF Listed
  <2>2. \A i, j \in DOMAIN lines' : lines'[i].event = lines'[j].event => i = j
    BY <1>s, <1>f DEF Listed
  <2>3. tail'.kind = "whole" =>
          /\ tail'.event \in Events /\ tail'.event.n <= attempts'[tail'.event.by]
          /\ \A i \in DOMAIN lines' : lines'[i].event # tail'.event
    <3>1. CASE tail' = tail
      BY <1>s, <1>f, <1>e, <3>1 DEF Listed
    <3>2. CASE tail'.event = Event(p)'
      <4>1. attempts'[p] \in Nat
        BY <1>e, BoundsAssumption
      <4> QED
        BY <1>f, <1>e, <3>2, <4>1
    <3> QED
      BY <1>t, <3>1, <3>2
  <2> QED
    BY <2>1, <2>2, <2>3 DEF Listed
<1>3. Kept'
  BY <1>s, <1>f DEF Kept
<1>4. ASSUME NEW w \in Writers PROVE Syncing(w)' /\ Alone(w)'
  <2>s. Syncing(w) /\ Alone(w)
    BY DEF IInv
  <2>1. CASE w = p
    <3>1. pc'[w] # "sync"
      BY <1>s, <1>f, <2>1 DEF TypeOK
    <3>2. pc'[w] \in {"open", "ready", "sync"} => w \in erred' /\ pc[w] = "ready"
      BY <1>s, <1>f, <2>1 DEF TypeOK
    <3>3. Syncing(w)'
      BY <3>1 DEF Syncing
    <3>4. Alone(w)'
      BY <1>f, <2>s, <3>1, <3>2 DEF Alone
    <3> QED
      BY <3>3, <3>4
  <2>2. CASE w # p
    <3>1. pc'[w] = pc[w] /\ attempts'[w] = attempts[w] /\ Event(w)' = Event(w)
      BY <1>s, <1>f, <2>2 DEF TypeOK, Event
    <3>2. forced = 0 => pc[w] \notin {"open", "ready", "sync"}
      <4>1. Alone(p)
        BY DEF IInv
      <4> QED
        BY <4>1, <1>s, <2>s, <2>2 DEF Alone
    <3>3. Syncing(w)'
      BY <1>f, <2>s, <3>1, <3>2 DEF Syncing
    <3>4. Alone(w)'
      BY <1>f, <3>1, <3>2 DEF Alone
    <3> QED
      BY <3>3, <3>4
  <2> QED
    BY <2>1, <2>2
<1> QED
  BY <1>1, <1>2, <1>3, <1>4 DEF IInv

(* What is left of the last line after the host went down.                 *)
LEMMA LostTail ==
    ASSUME NEW p \in Writers, TypeOK, Event(p) \in Events, PowerLoss(p)
    PROVE  /\ tail' \in Tails
           /\ tail'.kind = "whole" =>
                 tail'.event = Event(p) /\ tail'.seq = sequence[p] /\ Last(lines).json
<1>1. sequence[p] \in Nat
  BY DEF TypeOK
<1>2. PICK kind \in {"none", "cut", "whole"} :
          tail' = IF kind # "none" /\ Last(lines).json
                  THEN [kind |-> kind, event |-> Event(p), seq |-> sequence[p]]
                  ELSE [NoTail EXCEPT !.kind = IF Last(lines).json THEN "none" ELSE "cut"]
  BY DEF PowerLoss
<1>3. CASE kind # "none" /\ Last(lines).json
  BY <1>1, <1>2, <1>3 DEF Tails
<1>4. CASE kind = "none" /\ Last(lines).json
  <2>1. tail' = [kind |-> "none", event |-> <<>>, seq |-> 0]
    BY <1>2, <1>4 DEF NoTail
  <2> QED
    BY <2>1 DEF Tails
<1>5. CASE ~Last(lines).json
  <2>1. tail' = [kind |-> "cut", event |-> <<>>, seq |-> 0]
    BY <1>2, <1>5 DEF NoTail
  <2> QED
    BY <2>1 DEF Tails
<1> QED
  BY <1>3, <1>4, <1>5

(* A line that is synced is the newest that is acknowledged.               *)
LEMMA SyncedDoes ==
    ASSUME NEW p \in Writers, IInv, Synced(p)
    PROVE  IInv'
<1>s. TypeOK /\ Listed /\ Kept /\ pc[p] = "sync" /\ Syncing(p) /\ Alone(p)
  BY DEF IInv, Synced
<1>f. /\ acked' = Append(acked, Event(p)) /\ sequence' = [sequence EXCEPT ![p] = @ + 1]
      /\ pc' = [pc EXCEPT ![p] = "ready"]
      /\ UNCHANGED <<lines, tail, holder, attempts, errors, forced, erred>>
  BY DEF Synced, Goto, file, hist
<1>e. Event(p) \in Events /\ Event(p).by = p
  BY <1>s, BoundsAssumption DEF Syncing, TypeOK, Event, Events
<1>a. /\ acked' \in Seq(Events) /\ Len(acked) \in Nat /\ DOMAIN acked = 1 .. Len(acked)
      /\ DOMAIN acked' = 1 .. Len(acked) + 1
      /\ \A i \in 1 .. Len(acked) : acked'[i] = acked[i]
      /\ acked'[Len(acked) + 1] = Event(p)
  BY <1>s, <1>e, <1>f DEF TypeOK
<1>l. Len(lines) \in Nat /\ DOMAIN lines = 1 .. Len(lines)
  BY <1>s DEF TypeOK
<1>1. TypeOK'
  BY <1>s, <1>f, <1>a DEF TypeOK, Labels
<1>2. Listed'
  BY <1>s, <1>f DEF Listed
<1>3. Kept'
  <2>1. \A i \in DOMAIN acked' : \E j \in DOMAIN lines' : lines'[j].event = acked'[i]
    BY <1>s, <1>f, <1>a DEF Kept, Syncing
  <2>2. ASSUME forced' = 0, NEW i \in DOMAIN acked', NEW j \in DOMAIN acked',
               NEW k \in DOMAIN lines', NEW l \in DOMAIN lines',
               lines'[k].event = acked'[i], lines'[l].event = acked'[j], i < j
        PROVE  k < l
    <3>0. i \in 1 .. Len(acked) /\ acked'[i] = acked[i] /\ k \in DOMAIN lines /\ l \in DOMAIN lines
      BY <1>a, <1>f, <2>2
    <3>1. CASE j \in 1 .. Len(acked)
      BY <1>s, <1>f, <1>a, <2>2, <3>0, <3>1 DEF Kept
    <3>2. CASE j = Len(acked) + 1
      <4>1. lines[Len(lines)].event = Event(p) /\ Len(lines) \in DOMAIN lines
        BY <1>s, <1>f, <1>l, <2>2, <3>0 DEF Syncing
      <4>2. l = Len(lines)
        BY <1>s, <1>f, <1>a, <2>2, <3>0, <3>2, <4>1 DEF Listed
      <4>3. acked[i] # Event(p)
        BY <1>s, <1>a, <3>0 DEF Syncing
      <4> QED
        BY <1>f, <1>l, <2>2, <3>0, <4>1, <4>2, <4>3
    <3> QED
      BY <1>a, <3>1, <3>2
  <2> QED
    BY <2>1, <2>2 DEF Kept
<1>r. Readable' = Readable /\ Counted' = Counted
  BY <1>f DEF Readable, Counted
<1>4. ASSUME NEW w \in Writers PROVE Syncing(w)' /\ Alone(w)'
  <2>s. Syncing(w) /\ Alone(w)
    BY DEF IInv
  <2>1. CASE w = p
    <3>1. pc'[w] = "ready" /\ sequence'[w] = sequence[w] + 1
      BY <1>s, <1>f, <2>1 DEF TypeOK
    <3>2. Syncing(w)'
      BY <3>1 DEF Syncing
    <3>3. Alone(w)'
      BY <1>s, <1>f, <1>l, <1>r, <2>1, <2>s, <3>1 DEF Alone, Syncing, Counted
    <3> QED
      BY <3>2, <3>3
  <2>2. CASE w # p
    <3>1. pc'[w] = pc[w] /\ sequence'[w] = sequence[w] /\ Event(w)' = Event(w)
      BY <1>s, <1>f, <2>2 DEF TypeOK, Event
    <3>2. pc[w] = "sync" => Event(p) # Event(w)
      BY <2>2 DEF Event
    <3>3. Syncing(w)'
      BY <1>f, <1>a, <2>s, <3>1, <3>2 DEF Syncing
    <3>4. Alone(w)'
      BY <1>f, <1>r, <2>s, <3>1 DEF Alone
    <3> QED
      BY <3>3, <3>4
  <2> QED
    BY <2>1, <2>2
<1> QED
  BY <1>1, <1>2, <1>3, <1>4 DEF IInv

(* A host that goes down loses a line at most, whose append had not        *)
(* returned, and ends every process.                                       *)
LEMMA PowerLossDoes ==
    ASSUME NEW p \in Writers, IInv, PowerLoss(p)
    PROVE  IInv'
<1>s. TypeOK /\ Listed /\ Kept /\ pc[p] = "sync" /\ Syncing(p) /\ Alone(p)
  BY DEF IInv, PowerLoss
<1>f. /\ Last(lines).event = Event(p) /\ lines' = Front(lines)
      /\ pc' = [v \in Writers |-> IF pc[v] \in {"out", "done"} THEN pc[v] ELSE "dead"]
      /\ UNCHANGED <<holder, sequence, attempts, acked, errors, forced, erred>>
  BY DEF PowerLoss, hist
<1>e. Event(p) \in Events /\ Event(p).by = p /\ Event(p).n = attempts[p]
  BY <1>s, BoundsAssumption DEF Syncing, TypeOK, Event, Events
<1>n. lines # <<>>
  BY <1>s DEF Syncing
<1>a. /\ lines' \in Seq(Lines) /\ Len(lines) \in Nat \ {0} /\ Len(lines') = Len(lines) - 1
      /\ DOMAIN lines = 1 .. Len(lines) /\ DOMAIN lines' = 1 .. Len(lines) - 1
      /\ \A i \in 1 .. Len(lines) - 1 : lines'[i] = lines[i]
  BY <1>s, <1>f, <1>n, DropLine
<1>b. lines[Len(lines)].event = Event(p) /\ Len(lines) \in DOMAIN lines
  BY <1>f, <1>a DEF Last
<1>t. tail' \in Tails /\ (tail'.kind = "whole" => tail'.event = Event(p))
  BY <1>s, <1>e, LostTail
<1>1. TypeOK'
  BY <1>s, <1>f, <1>a, <1>t DEF TypeOK, Labels
<1>2. Listed'
  <2>1. \A i \in DOMAIN lines' : lines'[i].event # Event(p)
    BY <1>s, <1>a, <1>b DEF Listed
  <2>2. attempts[p] \in Nat
    BY <1>s, BoundsAssumption DEF TypeOK
  <2>3. \A i \in DOMAIN lines' : i \in DOMAIN lines /\ lines'[i] = lines[i]
    BY <1>a
  <2> QED
    BY <1>s, <1>f, <1>e, <1>t, <2>1, <2>2, <2>3 DEF Listed
<1>3. Kept'
  <2>1. \A i \in DOMAIN acked' : \E j \in DOMAIN lines' : lines'[j].event = acked'[i]
    <3> SUFFICES ASSUME NEW i \in DOMAIN acked PROVE \E j \in DOMAIN lines' : lines'[j].event = acked[i]
      BY <1>f
    <3>1. PICK j \in DOMAIN lines : lines[j].event = acked[i]
      BY <1>s DEF Kept
    <3>2. j # Len(lines)
      BY <1>s, <1>b, <3>1 DEF Syncing
    <3> QED
      BY <1>a, <3>1, <3>2
  <2>2. \A k \in DOMAIN lines' : k \in DOMAIN lines /\ lines'[k] = lines[k]
    BY <1>a
  <2> QED
    BY <1>s, <1>f, <2>1, <2>2 DEF Kept
<1>4. ASSUME NEW w \in Writers PROVE Syncing(w)' /\ Alone(w)'
  <2>1. pc'[w] \notin {"open", "ready", "sync"}
    BY <1>s, <1>f DEF TypeOK
  <2> QED
    BY <2>1 DEF Syncing, Alone
<1> QED
  BY <1>1, <1>2, <1>3, <1>4 DEF IInv

(* The first state.                                                        *)
LEMMA Starts ==
    ASSUME Init
    PROVE  IInv
<1>1. TypeOK
  BY BoundsAssumption DEF Init, TypeOK, Labels, NoTail, Tails
<1>2. Listed /\ Kept
  BY DEF Init, Listed, Kept, NoTail
<1>3. ASSUME NEW w \in Writers PROVE Syncing(w) /\ Alone(w)
  BY DEF Init, Syncing, Alone
<1> QED
  BY <1>1, <1>2, <1>3 DEF IInv

(* IInv is inductive.                                                      *)
THEOREM Invariance == Spec => []IInv
<1>1. IInv /\ [Next]_vars => IInv'
  <2> SUFFICES ASSUME IInv, [Next]_vars PROVE IInv'
    OBVIOUS
  <2>1. CASE Next
    BY <2>1, AcquireDoes, OpenDoes, OpenFailsDoes, WriteDoes, WriteFailsDoes, DieWritingDoes,
       SyncedDoes, SyncFailsDoes, FinishDoes, DieDoes, PowerLossDoes, ForceUnlockDoes DEF Next
  <2>2. CASE UNCHANGED vars
    <3>1. UNCHANGED <<lines, tail, holder, pc, sequence, attempts, acked, errors, forced, erred>>
      BY <2>2 DEF vars
    <3>2. TypeOK'
      BY <3>1 DEF IInv, TypeOK
    <3>3. Listed' /\ Kept'
      BY <3>1 DEF IInv, Listed, Kept
    <3>4. ASSUME NEW w \in Writers PROVE Syncing(w)' /\ Alone(w)'
      <4>1. Syncing(w) /\ Alone(w)
        BY DEF IInv
      <4> QED
        BY <3>1, <4>1 DEF Syncing, Alone, Event, Readable, Counted
    <3> QED
      BY <3>2, <3>3, <3>4 DEF IInv
  <2> QED
    BY <2>1, <2>2
<1> QED
  BY <1>1, Starts, PTL DEF Spec

(* The variables keep their types.                                         *)
THEOREM JournalTypes == Spec => []TypeOK
<1>1. IInv => TypeOK
  BY DEF IInv
<1> QED
  BY <1>1, Invariance, PTL

(* A journal that can be read holds every event whose append returned,     *)
(* once and, without a forced unlock, in that order.                       *)
THEOREM AcknowledgedAreKept == Spec => []AcknowledgedKept
<1>1. IInv => AcknowledgedKept
  <2> SUFFICES ASSUME IInv, Readable
               PROVE  /\ \A i \in DOMAIN acked : \E j \in DOMAIN Replayed : Replayed[j] = acked[i]
                      /\ \A i, j \in DOMAIN Replayed : Replayed[i] = Replayed[j] => i = j
                      /\ forced = 0 => \A i, j \in DOMAIN acked, k, l \in DOMAIN Replayed :
                             Replayed[k] = acked[i] /\ Replayed[l] = acked[j] /\ i < j => k < l
    BY DEF AcknowledgedKept
  <2>s. TypeOK /\ Listed /\ Kept
    BY DEF IInv
  <2>r. /\ Counted \in Nat /\ Len(lines) \in Nat
        /\ DOMAIN lines = 1 .. Len(lines) /\ DOMAIN Replayed = 1 .. Counted
        /\ \A i \in DOMAIN lines : Replayed[i] = lines[i].event
        /\ tail.kind = "whole" => Replayed[Counted] = tail.event
    BY <2>s, ReplayedIs
  <2>c. /\ DOMAIN lines \subseteq DOMAIN Replayed
        /\ \A k \in DOMAIN Replayed : k \in DOMAIN lines \/ (tail.kind = "whole" /\ k = Counted)
    BY <2>r DEF Counted
  <2>1. \A i \in DOMAIN acked : \E j \in DOMAIN Replayed : Replayed[j] = acked[i]
    BY <2>s, <2>r, <2>c DEF Kept
  <2>2. \A i, j \in DOMAIN Replayed : Replayed[i] = Replayed[j] => i = j
    BY <2>s, <2>r, <2>c DEF Listed
  <2>3. \A i \in DOMAIN acked, k \in DOMAIN Replayed : Replayed[k] = acked[i] => k \in DOMAIN lines
    <3> SUFFICES ASSUME NEW i \in DOMAIN acked, NEW k \in DOMAIN Replayed, Replayed[k] = acked[i]
                 PROVE  k \in DOMAIN lines
      OBVIOUS
    <3>1. PICK j \in DOMAIN lines : lines[j].event = acked[i]
      BY <2>s DEF Kept
    <3>2. j \in DOMAIN Replayed /\ Replayed[j] = Replayed[k]
      BY <2>r, <2>c, <3>1
    <3> QED
      BY <2>2, <3>2
  <2>4. ASSUME forced = 0, NEW i \in DOMAIN acked, NEW j \in DOMAIN acked,
               NEW k \in DOMAIN Replayed, NEW l \in DOMAIN Replayed,
               Replayed[k] = acked[i], Replayed[l] = acked[j], i < j
        PROVE  k < l
    <3>1. k \in DOMAIN lines /\ l \in DOMAIN lines
      BY <2>3, <2>4
    <3>2. lines[k].event = acked[i] /\ lines[l].event = acked[j]
      BY <2>4, <2>r, <3>1
    <3> QED
      BY <2>s, <2>4, <3>1, <3>2 DEF Kept
  <2> QED
    BY <2>1, <2>2, <2>4
<1> QED
  BY <1>1, Invariance, PTL

(* The only writer, if it has met no error, numbers on where the file ends. *)
THEOREM NumbersGoOn == Spec => []NumbersContinue
<1>1. IInv => NumbersContinue
  <2> SUFFICES ASSUME IInv, NEW w \in Writers, pc[w] = "ready", Readable, forced = 0, w \notin erred
               PROVE  sequence[w] = Len(Replayed)
    BY DEF NumbersContinue
  <2>1. sequence[w] = Counted
    BY DEF IInv, Alone
  <2> QED
    BY <2>1, ReplayedIs DEF IInv
<1> QED
  BY <1>1, Invariance, PTL

(* A journal is made unreadable by an append behind an unfinished line, by *)
(* a second writer or after an error, and by nothing else.                 *)
THEOREM OnlyUnfinishedDoes == Spec => OnlyUnfinishedBreaks
<1>1. IInv /\ [Next]_vars =>
        [Readable /\ ~Readable' =>
          \/ tail.kind # "none"
          \/ forced > 0
          \/ \E w \in erred : pc[w] = "ready"]_vars
  <2> SUFFICES ASSUME IInv, Next, Readable, tail.kind = "none", ~(forced > 0),
                      ~ \E w \in erred : pc[w] = "ready"
               PROVE  Readable'
    OBVIOUS
  <2>s. TypeOK /\ forced = 0 /\ Len(lines) \in Nat
    BY DEF IInv, TypeOK
  <2>r. \A i \in 1 .. Len(lines) : lines[i].json /\ lines[i].seq = i - 1
    BY <2>s DEF Readable, TypeOK
  <2>1. ASSUME NEW p \in Writers, pc[p] = "ready" PROVE sequence[p] = Len(lines)
    BY <2>s, <2>1 DEF IInv, Alone, Counted
  <2>2. ASSUME NEW p \in Writers, Write(p) PROVE Readable'
    <3> DEFINE x == [event |-> Event(p)', seq |-> sequence[p], json |-> tail.kind = "none"]
    <3>1. /\ lines' = Append(lines, x) /\ tail' = NoTail /\ pc[p] = "ready"
          /\ attempts[p] < MaxAppends /\ attempts' = [attempts EXCEPT ![p] = @ + 1]
      BY <2>2 DEF Write
    <3>2. Event(p)' \in Events
      BY <3>1, NewEvent
    <3>3. x \in Lines /\ x.json /\ x.seq = Len(lines)
      <4>1. sequence[p] \in Nat /\ sequence[p] = Len(lines) /\ (tail.kind = "none") \in BOOLEAN
        BY <2>s, <2>1, <3>1 DEF TypeOK
      <4> QED
        BY <3>2, <4>1 DEF Lines
    <3> HIDE DEF x
    <3>4. /\ Len(lines') = Len(lines) + 1 /\ DOMAIN lines' = 1 .. Len(lines) + 1
          /\ \A i \in 1 .. Len(lines) : lines'[i] = lines[i]
          /\ lines'[Len(lines) + 1] = x
      BY <2>s, <3>1, <3>3, AppendLine
    <3>5. tail'.kind = "none"
      BY <3>1 DEF NoTail
    <3> QED
      BY <2>s, <2>r, <3>3, <3>4, <3>5 DEF Readable
  <2>3. ASSUME NEW p \in Writers, WriteFails(p) \/ DieWriting(p) PROVE Readable'
    <3>1. /\ PartLands(p) /\ attempts[p] < MaxAppends /\ pc[p] = "ready" /\ lines' = lines
          /\ attempts' = [attempts EXCEPT ![p] = @ + 1]
      BY <2>3 DEF WriteFails, DieWriting
    <3>2. tail'.kind = "whole" => tail' = tail \/ tail'.seq = Len(lines)
      BY <2>1, <3>1, PartTail
    <3> QED
      BY <3>1, <3>2 DEF Readable
  <2>4. ASSUME NEW p \in Writers, PowerLoss(p) PROVE Readable'
    <3>1. /\ pc[p] = "sync" /\ lines' = Front(lines) /\ Syncing(p)
      BY <2>4 DEF PowerLoss, IInv
    <3>2. lines # <<>> /\ Event(p) \in Events /\ lines[Len(lines)].seq = sequence[p]
      BY <2>s, <3>1, BoundsAssumption DEF Syncing, TypeOK, Event, Events
    <3>3. /\ Len(lines) \in Nat \ {0} /\ Len(lines') = Len(lines) - 1
          /\ DOMAIN lines' = 1 .. Len(lines) - 1
          /\ \A i \in 1 .. Len(lines) - 1 : lines'[i] = lines[i]
      BY <2>s, <3>1, <3>2, DropLine
    <3>4. tail'.kind = "whole" => tail'.seq = Len(lines')
      BY <2>s, <2>4, <2>r, <3>2, <3>3, LostTail
    <3> QED
      BY <2>r, <3>3, <3>4 DEF Readable
  <2>5. ASSUME UNCHANGED <<lines, tail>> PROVE Readable'
    BY <2>5 DEF Readable
  <2>6. ASSUME NEW p \in Writers,
               \/ Acquire(p) \/ Open(p) \/ OpenFails(p) \/ Synced(p) \/ SyncFails(p)
               \/ Finish(p) \/ Die(p)
        PROVE  UNCHANGED <<lines, tail>>
    BY <2>6 DEF Acquire, Open, OpenFails, Synced, SyncFails, Finish, Die, file
  <2>7. ForceUnlock => UNCHANGED <<lines, tail>>
    BY DEF ForceUnlock, file
  <2> QED
    BY <2>2, <2>3, <2>4, <2>5, <2>6, <2>7 DEF Next
<1> QED
  BY <1>1, Invariance, PTL DEF Spec, OnlyUnfinishedBreaks
=============================================================================
