----------------------------- MODULE PlanProofs -----------------------------
(***************************************************************************)
(* Proofs about the two modules a plan goes through: Scheduler, for any    *)
(* plan, any number of jobs and any limits (the tables of the coroutine,   *)
(* what a status says about its task, the run lock, the slots of the       *)
(* semaphores), and PlanReplay, for any manifests, drivers and runs (what  *)
(* decoding refuses, why what a run resumes with is what it planned, what  *)
(* entries hold, and why the rows of a run are those of its manifest).     *)
(***************************************************************************)
EXTENDS Scheduler, PlanReplay, FiniteSetTheorems, SequenceTheorems, TLAPS

-----------------------------------------------------------------------------
(* Numbers and sequences                                                   *)
-----------------------------------------------------------------------------
(* Every set of natural numbers has a least one, every bounded one a       *)
(* greatest: the inductions below are about a least counterexample.        *)
LEMMA Least ==
    ASSUME NEW T, T \subseteq Nat, T # {}
    PROVE  \E m \in T : \A k \in T : m <= k
<1>1. PICK m \in T : \A k \in T : ~(<<k, m>> \in OpToRel(<, Nat))
  BY NatLessThanWellFounded, WFMin
<1>2. ASSUME NEW k \in T, k < m PROVE <<k, m>> \in OpToRel(<, Nat)
  <2>1. <<k, m>> \in Nat \X Nat /\ <<k, m>>[1] < <<k, m>>[2]
    BY <1>2
  <2> QED
    BY <2>1 DEF OpToRel
<1>3. \A k \in T : ~(k < m)
  BY <1>1, <1>2, Zenon
<1> QED
  BY <1>3

LEMMA Greatest ==
    ASSUME NEW n \in Nat, NEW T, T \subseteq Nat, T # {}, \A k \in T : k <= n
    PROVE  Max(T) \in T /\ \A k \in T : Max(T) >= k
<1> DEFINE U == {u \in Nat : \A k \in T : k <= u}
<1>1. U \subseteq Nat /\ n \in U
  OBVIOUS
<1>2. PICK u \in U : \A v \in U : u <= v
  <2> HIDE DEF U
  <2> QED
    BY <1>1, Least
<1>3. u \in Nat /\ \A k \in T : k \in Nat /\ k <= u
  OBVIOUS
<1>4. u \in T
  <2>1. SUFFICES ASSUME u \notin T PROVE FALSE
    OBVIOUS
  <2>2. \A k \in T : k < u
    BY <1>3, <2>1
  <2>3. u - 1 \in Nat
    <3>1. PICK k \in T : k \in Nat /\ k < u
      BY <1>3, <2>2
    <3> QED
      BY <1>3, <3>1
  <2>4. u - 1 \in U
    BY <1>3, <2>2, <2>3
  <2> HIDE DEF U
  <2> QED
    BY <1>2, <1>3, <2>4
<1> QED
  BY <1>3, <1>4 DEF Max

(* Induction up to n, for a set of numbers                                 *)
LEMMA Induction ==
    ASSUME NEW n \in Nat, NEW P, 0 \in P, \A i \in 1 .. n : i - 1 \in P => i \in P
    PROVE  0 .. n \subseteq P
<1> DEFINE T == {i \in 0 .. n : i \notin P}
<1>1. T \subseteq Nat
  OBVIOUS
<1>2. ASSUME NEW m \in T PROVE \E k \in T : ~(m <= k)
  <2>1. m \in 1 .. n /\ m \notin P
    OBVIOUS
  <2>2. m - 1 \in 0 .. n /\ m - 1 \notin P /\ ~(m <= m - 1)
    BY <2>1
  <2>3. m - 1 \in T
    BY <2>2
  <2> QED
    BY <2>2, <2>3
<1>3. T = {}
  <2> HIDE DEF T
  <2> QED
    BY <1>1, <1>2, Least
<1> QED
  BY <1>3

(* A function defined by recursion up to n exists.                         *)
Recurses(f, n, D, x, G) ==
    f \in [0 .. n -> D] /\ f[0] = x /\ \A i \in 1 .. n : f[i] = G[i][f[i-1]]

LEMMA Recursion ==
    ASSUME NEW n \in Nat, NEW D, NEW x \in D, NEW G \in [1 .. n -> [D -> D]]
    PROVE  \E f : Recurses(f, n, D, x, G)
<1> DEFINE Rec(f, m) == f \in [0 .. m -> D] /\ f[0] = x /\ \A i \in 1 .. m : f[i] = G[i][f[i-1]]
           P == {m \in 0 .. n : \E f : Rec(f, m)}
<1>1. 0 \in P
  <2>1. Rec([i \in 0 .. 0 |-> x], 0)
    OBVIOUS
  <2>2. 0 \in 0 .. n
    OBVIOUS
  <2> HIDE DEF Rec
  <2> QED
    BY <2>1, <2>2
<1>2. ASSUME NEW m \in 1 .. n, m - 1 \in P PROVE m \in P
  <2>1. PICK f : Rec(f, m - 1)
    BY <1>2
  <2> DEFINE last == G[m][f[m-1]]
             g == [i \in 0 .. m |-> IF i = m THEN last ELSE f[i]]
  <2>2. m \in Nat /\ m - 1 \in Nat /\ f[m-1] \in D
    BY <2>1
  <2>3. last \in D
    BY <2>2
  <2> HIDE DEF last
  <2>4. /\ \A i \in 0 .. m - 1 : g[i] = f[i] /\ f[i] \in D
        /\ g[m] = last /\ g[m-1] = f[m-1] /\ 0 \in 0 .. m - 1
    BY <2>1, <2>2
  <2>5. \A i \in 0 .. m : i = m \/ i \in 0 .. m - 1
    BY <2>2
  <2>6. g \in [0 .. m -> D]
    BY <2>3, <2>4, <2>5
  <2>7. ASSUME NEW i \in 1 .. m PROVE g[i] = G[i][g[i-1]]
    <3> HIDE DEF g
    <3>1. CASE i = m
      BY <2>4, <3>1 DEF last
    <3>2. CASE i # m
      <4>1. i \in 1 .. m - 1 /\ i \in 0 .. m - 1 /\ i - 1 \in 0 .. m - 1
        BY <2>2, <3>2
      <4> QED
        BY <2>1, <2>4, <4>1
    <3> QED
      BY <3>1, <3>2
  <2>8. Rec(g, m)
    <3> HIDE DEF g
    <3> QED
      BY <2>1, <2>4, <2>6, <2>7
  <2>9. m \in 0 .. n
    OBVIOUS
  <2> HIDE DEF Rec, g
  <2> QED
    BY <2>8, <2>9
<1>3. n \in P
  <2>1. n \in 0 .. n
    OBVIOUS
  <2> HIDE DEF P
  <2> QED
    BY <1>1, <1>2, <2>1, Induction
<1>4. PICK f : Rec(f, n)
  <2> HIDE DEF Rec
  <2> QED
    BY <1>3
<1> QED
  BY <1>4 DEF Recurses

(* What is flattened is a sequence of what the sequences hold.             *)
LEMMA Flattens ==
    ASSUME NEW S, NEW seqs \in Seq(Seq(S)), seqs # <<>>
    PROVE  \E f \in [1 .. Len(seqs) -> Seq(S)] :
              /\ f[1] = seqs[1]
              /\ \A i \in 1 .. Len(seqs) - 1 : f[i+1] = f[i] \o seqs[i+1]
              /\ FlattenSeq(seqs) = f[Len(seqs)]
<1> DEFINE n == Len(seqs)
           D == Seq(S)
           Flat(f) == f = [i \in 1 .. n |-> IF i = 1 THEN seqs[i] ELSE f[i-1] \o seqs[i]]
           l == n - 1
           first == seqs[1]
           G == [i \in 1 .. n - 1 |-> [v \in D |-> v \o seqs[i+1]]]
<1>1. n \in Nat /\ n >= 1 /\ \A i \in 1 .. n : seqs[i] \in D
  OBVIOUS
<1>2. G \in [1 .. n - 1 -> [D -> D]]
  <2>1. ASSUME NEW i \in 1 .. n - 1, NEW v \in D PROVE v \o seqs[i+1] \in D
    <3>1. seqs[i+1] \in D
      BY <1>1
    <3> QED
      BY <3>1, ConcatProperties
  <2> HIDE DEF D
  <2> QED
    BY <2>1
<1>3. \A i \in 1 .. n - 1, v \in D : G[i][v] = v \o seqs[i+1]
  OBVIOUS
<1> HIDE DEF G, D, n
<1>4. PICK h : h \in [0 .. l -> D] /\ h[0] = seqs[1] /\ \A i \in 1 .. l : h[i] = G[i][h[i-1]]
  <2>1. l \in Nat /\ first \in D
    BY <1>1
  <2>2. G \in [1 .. l -> [D -> D]]
    BY <1>2
  <2> HIDE DEF l, first, Flat
  <2>3. PICK f : Recurses(f, l, D, first, G)
    BY <2>1, <2>2, Recursion
  <2> QED
    BY <2>3 DEF Recurses, first
<1>5. \A i \in 1 .. n - 1 : h[i] = h[i-1] \o seqs[i+1] /\ h[i-1] \in D
  <2>1. \A i \in 1 .. n - 1 : i - 1 \in 0 .. n - 1
    BY <1>1
  <2> QED
    BY <1>3, <1>4, <2>1
<1> DEFINE f == [i \in 1 .. n |-> h[i-1]]
<1>6. Flat(f)
  <2>1. ASSUME NEW i \in 1 .. n PROVE h[i-1] = IF i = 1 THEN seqs[i] ELSE f[i-1] \o seqs[i]
    <3>1. CASE i = 1
      BY <1>4, <3>1
    <3>2. CASE i # 1
      <4>1. i - 1 \in 1 .. n - 1 /\ i - 1 \in 1 .. n /\ i - 1 + 1 = i
        BY <1>1, <3>2
      <4>2. f[i-1] = h[i-1-1]
        BY <4>1
      <4>3. h[i-1] = h[i-1-1] \o seqs[i]
        BY <1>5, <4>1
      <4> QED
        BY <3>2, <4>2, <4>3
    <3> QED
      BY <3>1, <3>2
  <2>2. f = [i \in 1 .. n |-> IF i = 1 THEN seqs[i] ELSE f[i-1] \o seqs[i]]
    BY <2>1
  <2> QED
    BY <2>2
<1> DEFINE flat == CHOOSE g : Flat(g)
<1>7. Flat(flat)
  <2> HIDE DEF f, Flat
  <2> QED
    BY <1>6
<1>8. FlattenSeq(seqs) = flat[n]
  BY <1>1 DEF FlattenSeq, n
<1> HIDE DEF flat, f
<1> DEFINE cat(v, i) == v \o seqs[i]
<1>a. \A i \in 1 .. n : flat[i] = IF i = 1 THEN seqs[i] ELSE cat(flat[i-1], i)
  BY <1>7
<1> HIDE DEF Flat, cat
<1>b. flat[1] = seqs[1] /\ \A i \in 1 .. n - 1 : flat[i+1] = cat(flat[i], i + 1)
  <2>1. ASSUME NEW i \in 1 .. n - 1 PROVE flat[i+1] = cat(flat[i], i + 1)
    <3>1. i + 1 \in 1 .. n /\ i + 1 # 1 /\ i + 1 - 1 = i
      BY <1>1
    <3> QED
      BY <1>a, <3>1
  <2> QED
    BY <1>1, <1>a, <2>1
<1>9. flat[1] = seqs[1] /\ \A i \in 1 .. n - 1 : flat[i+1] = flat[i] \o seqs[i+1]
  BY <1>b DEF cat
<1>10. \A i \in 1 .. n : flat[i] \in D
  <2> DEFINE P == {i \in 0 .. n - 1 : flat[i+1] \in D}
  <2>1. 0 \in P
    BY <1>1, <1>9
  <2>2. ASSUME NEW i \in 1 .. n - 1, i - 1 \in P PROVE i \in P
    <3>1. i - 1 + 1 = i /\ i + 1 \in 1 .. n /\ i \in 0 .. n - 1
      BY <1>1
    <3>2. flat[i] \in D /\ seqs[i+1] \in D
      BY <1>1, <2>2, <3>1
    <3>3. cat(flat[i], i + 1) \in D
      BY <3>2, ConcatProperties DEF D, cat
    <3> QED
      BY <1>b, <3>1, <3>3
  <2>3. 0 .. n - 1 \subseteq P
    <3>1. n - 1 \in Nat
      BY <1>1
    <3> HIDE DEF P
    <3> QED
      BY <2>1, <2>2, <3>1, Induction
  <2>4. ASSUME NEW i \in 1 .. n PROVE flat[i] \in D
    <3>1. i - 1 \in 0 .. n - 1 /\ i - 1 + 1 = i
      BY <1>1
    <3>2. i - 1 \in P
      BY <2>3, <3>1
    <3> QED
      BY <3>1, <3>2
  <2> QED
    BY <2>4
<1>11. flat \in [1 .. n -> D]
  <2>1. flat = [i \in 1 .. n |-> IF i = 1 THEN seqs[i] ELSE flat[i-1] \o seqs[i]]
    BY <1>7 DEF Flat
  <2>2. flat = [i \in 1 .. n |-> flat[i]]
    BY <2>1
  <2> QED
    BY <1>10, <2>2
<1> QED
  BY <1>8, <1>9, <1>11 DEF D, n

LEMMA FlattenSeqType ==
    ASSUME NEW S, NEW seqs \in Seq(Seq(S))
    PROVE  FlattenSeq(seqs) \in Seq(S)
<1>1. CASE seqs = <<>>
  BY <1>1 DEF FlattenSeq
<1>2. CASE seqs # <<>>
  <2>1. Len(seqs) \in 1 .. Len(seqs)
    BY <1>2
  <2>2. PICK f \in [1 .. Len(seqs) -> Seq(S)] : FlattenSeq(seqs) = f[Len(seqs)]
    BY <1>2, Flattens
  <2> QED
    BY <2>1, <2>2
<1> QED
  BY <1>1, <1>2

(* Three by three                                                          *)
LEMMA FlattenSeqThrees ==
    ASSUME NEW S, NEW seqs \in Seq(Seq(S)), seqs # <<>>,
           \A i \in DOMAIN seqs : Len(seqs[i]) = 3
    PROVE  /\ Len(FlattenSeq(seqs)) = 3 * Len(seqs)
           /\ \A i \in 1 .. Len(seqs), k \in 1 .. 3 : FlattenSeq(seqs)[3 * (i-1) + k] = seqs[i][k]
<1> DEFINE n == Len(seqs)
<1>1. n \in Nat /\ n >= 1 /\ \A i \in 1 .. n : seqs[i] \in Seq(S) /\ Len(seqs[i]) = 3
  OBVIOUS
<1>2. PICK f \in [1 .. n -> Seq(S)] :
          /\ f[1] = seqs[1] /\ \A i \in 1 .. n - 1 : f[i+1] = f[i] \o seqs[i+1]
          /\ FlattenSeq(seqs) = f[n]
  BY Flattens
<1> HIDE DEF n
<1> DEFINE At(m) == /\ Len(f[m]) = 3 * m
                    /\ \A i \in 1 .. m, k \in 1 .. 3 : f[m][3 * (i-1) + k] = seqs[i][k]
           P == {m \in 0 .. n - 1 : At(m + 1)}
<1>3. 0 \in P
  <2>1. f[1] = seqs[1] /\ Len(f[1]) = 3 /\ \A i \in 1 .. 1 : i = 1
    BY <1>1, <1>2
  <2>2. \A k \in 1 .. 3 : f[1][3 * (1-1) + k] = seqs[1][k]
    BY <2>1
  <2>3. At(0 + 1)
    BY <2>1, <2>2
  <2>4. 0 \in 0 .. n - 1
    BY <1>1
  <2> HIDE DEF At
  <2> QED
    BY <2>3, <2>4
<1>4. ASSUME NEW m \in 1 .. n - 1, m - 1 \in P PROVE m \in P
  <2>1. m \in Nat /\ m + 1 \in 2 .. n /\ m + 1 - 1 = m /\ m - 1 + 1 = m /\ m \in 1 .. n
        /\ m + 1 \in 1 .. n /\ m \in 0 .. n - 1
    BY <1>1
  <2>2. At(m)
    <3>1. At(m - 1 + 1)
      BY <1>4
    <3> HIDE DEF At
    <3> QED
      BY <2>1, <3>1
  <2> DEFINE s == f[m]
             t == seqs[m+1]
  <2>3. f[m+1] = s \o t /\ s \in Seq(S) /\ t \in Seq(S) /\ Len(t) = 3 /\ Len(s) = 3 * m
    <3>2. f[m+1] = s \o t
      BY <1>2, Zenon
    <3>3. s \in Seq(S) /\ t \in Seq(S) /\ Len(t) = 3 /\ Len(s) = 3 * m
      BY <1>1, <1>2, <2>1, <2>2
    <3> QED
      BY <3>2, <3>3
  <2>4. \A i \in 1 .. m, k \in 1 .. 3 : s[3 * (i-1) + k] = seqs[i][k]
    BY <2>2
  <2>a. t = seqs[m+1]
    OBVIOUS
  <2> HIDE DEF s, t
  <2>5. /\ Len(s \o t) = 3 * m + 3
        /\ \A j \in 1 .. 3 * m + 3 : (s \o t)[j] = IF j <= 3 * m THEN s[j] ELSE t[j - 3 * m]
    <3>1. /\ Len(s \o t) = Len(s) + Len(t)
          /\ \A j \in 1 .. Len(s) + Len(t) : (s \o t)[j] = IF j <= Len(s) THEN s[j] ELSE t[j - Len(s)]
      BY <2>3, ConcatProperties
    <3> QED
      BY <2>3, <3>1
  <2>6. ASSUME NEW i \in 1 .. m + 1, NEW k \in 1 .. 3
        PROVE  (s \o t)[3 * (i-1) + k] = seqs[i][k]
    <3>1. CASE i = m + 1
      <4>1. /\ 3 * (i-1) + k \in 1 .. 3 * m + 3 /\ ~(3 * (i-1) + k <= 3 * m)
            /\ 3 * (i-1) + k - 3 * m = k
        BY <2>1, <3>1
      <4> QED
        BY <2>5, <2>a, <3>1, <4>1
    <3>2. CASE i # m + 1
      <4>1. i \in 1 .. m /\ 3 * (i-1) + k \in 1 .. 3 * m + 3 /\ 3 * (i-1) + k <= 3 * m
        BY <2>1, <3>2
      <4> QED
        BY <2>4, <2>5, <4>1
    <3> QED
      BY <3>1, <3>2
  <2>7. At(m + 1)
    <3>1. Len(f[m+1]) = 3 * (m + 1)
      BY <2>1, <2>3, <2>5
    <3> QED
      BY <2>3, <2>6, <3>1
  <2> HIDE DEF At
  <2> QED
    BY <2>1, <2>7
<1>5. At(n)
  <2>1. n - 1 \in Nat /\ n - 1 \in 0 .. n - 1 /\ n - 1 + 1 = n
    BY <1>1
  <2>2. n - 1 \in P
    <3> HIDE DEF P
    <3> QED
      BY <1>3, <1>4, <2>1, Induction
  <2>3. At(n - 1 + 1)
    BY <2>2
  <2> HIDE DEF At
  <2> QED
    BY <2>1, <2>3
<1> QED
  BY <1>2, <1>5 DEF n

-----------------------------------------------------------------------------
(* The coroutine and its tasks                                             *)
-----------------------------------------------------------------------------
Active(a) == phase[a] \notin {"none", "done"}

(* The tables and the tasks agree *)
Tables ==
    /\ pending \cap running = {} /\ IsFiniteSet(running)
    /\ \A a \in pending : phase[a] = "none"
    /\ \A a \in running : phase[a] # "none"
    /\ \A a \in Activities : Active(a) => a \in running
    /\ \A a \in pending \cup running : statuses[a] = "none"
    /\ \A a \in done : phase[a] = "done"
    /\ pc \notin {"cleanup", "ended"} =>
          \A a \in Activities : statuses[a] = "none" => a \in pending \cup running
    /\ pc \in {"acquire", "verify"} =>
          running = {} /\ \A a \in Activities : phase[a] = "none" /\ statuses[a] \in {"none", "cached"}

(* What a status says, and what a task has behind it *)
RecordedOf(a) ==
    /\ statuses[a] \in Good => a \in published
    /\ statuses[a] \in {"succeeded", "failed"} =>
          phase[a] = "done" /\ (a \in started \/ Impossible(a))
    /\ statuses[a] = "skipped" =>
          \/ \E d \in Deps[a] : statuses[d] \in Wrong
          \/ failFast /\ \E b \in Activities : statuses[b] = "failed"
    /\ phase[a] # "none" => \A d \in Deps[a] : statuses[d] \in Good
    /\ phase[a] = "executing" => a \in started
    /\ phase[a] = "done" =>
          /\ outcome[a] # "none"
          /\ outcome[a] = "succeeded" => a \in published
          /\ outcome[a] \in {"succeeded", "failed"} => a \in started \/ Impossible(a)
          /\ outcome[a] = "cancelled" => pc \in {"cleanup", "ended"}
Recorded == \A a \in Activities : RecordedOf(a)

(* Where the coroutine is, and the lock *)
Control ==
    /\ pc = "acquire" => (lock <=> worker = "locked")
    /\ pc # "acquire" => worker # "busy"
    /\ pc \notin {"acquire", "ended"} => lock
    /\ pc = "ended" => ~lock /\ \A a \in Activities : ~Active(a)
    /\ pc = "scan" => /\ failed <=> \E a \in Activities : statuses[a] = "failed"
                      /\ Cardinality(running) + slots = Jobs
    /\ pc = "finish" \/ verdict # "none" =>
          pending = {} /\ running = {} /\ \A a \in Activities : statuses[a] # "none"
    /\ verdict # "none" => pc \in {"cleanup", "ended"}

IInv == TypeOK /\ Tables /\ Recorded /\ Control

(* An activity the coroutine looks at is one of the plan. *)
LEMMA CurrentIsOne ==
    ASSUME next \in 1 .. Len(Order)
    PROVE  Current \in Activities
BY PlanAssumption DEF Current

(* The thread that acquires the lock touches nothing else. *)
LEMMA WorkerEndsKeeps ==
    ASSUME IInv, WorkerEnds
    PROVE  IInv'
<1>t. WorkerEnds /\ TypeOK /\ Tables /\ Recorded /\ Control
  BY DEF IInv
<1>1. TypeOK'
  <2>1. UNCHANGED <<pc, next, failed, slots, progress, statuses, pending, running, done, cancelled,
                    shut, phase, outcome, started, published, failFast, verdict>>
    BY <1>t DEF WorkerEnds, main, table, tasks
  <2>2. worker' \in {"locked", "raised"} /\ lock' \in BOOLEAN
    BY <1>t DEF WorkerEnds, TypeOK
  <2> QED
    BY <1>t, <2>1, <2>2 DEF TypeOK
<1>2. Tables'
  <2>1. UNCHANGED <<pc, statuses, pending, running, done, phase>>
    BY <1>t DEF WorkerEnds, main, table, tasks
  <2> QED
    BY <1>t, <2>1 DEF Tables, Active
<1>3. Recorded'
  BY <1>t, PlanAssumption, CurrentIsOne DEF TypeOK, Tables, Recorded, RecordedOf, WorkerEnds, main, table, tasks, sems
<1>4. Control'
  BY <1>t, PlanAssumption, CurrentIsOne DEF TypeOK, Tables, Control, Active, WorkerEnds, main, table, tasks, sems
<1> QED  BY <1>1, <1>2, <1>3, <1>4 DEF IInv

(* A cancellation of the acquisition is only noted. *)
LEMMA CancelAcquireKeeps ==
    ASSUME IInv, CancelAcquire
    PROVE  IInv'
<1>t. CancelAcquire /\ TypeOK /\ Tables /\ Recorded /\ Control
  BY DEF IInv
<1>1. TypeOK'
  BY <1>t, PlanAssumption, CurrentIsOne DEF TypeOK, Labels, CancelAcquire, main, table, tasks, sems
<1>2. Tables'
  BY <1>t, PlanAssumption, CurrentIsOne DEF TypeOK, Tables, Active, CancelAcquire, main, table, tasks, sems
<1>3. Recorded'
  BY <1>t, PlanAssumption, CurrentIsOne DEF TypeOK, Tables, Recorded, RecordedOf, CancelAcquire, main, table, tasks, sems
<1>4. Control'
  BY <1>t, PlanAssumption, CurrentIsOne DEF TypeOK, Tables, Control, Active, CancelAcquire, main, table, tasks, sems
<1> QED  BY <1>1, <1>2, <1>3, <1>4 DEF IInv

(* The coroutine goes on with the lock or ends without it. *)
LEMMA AcquiredKeeps ==
    ASSUME IInv, Acquired
    PROVE  IInv'
<1>t. Acquired /\ TypeOK /\ Tables /\ Recorded /\ Control
  BY DEF IInv
<1>1. TypeOK'
  BY <1>t, PlanAssumption, CurrentIsOne DEF TypeOK, Labels, Acquired, Goto, table, tasks, sems
<1>2. Tables'
  BY <1>t, PlanAssumption, CurrentIsOne DEF TypeOK, Tables, Active, Acquired, Goto, table, tasks, sems
<1>3. Recorded'
  BY <1>t, PlanAssumption, CurrentIsOne DEF TypeOK, Tables, Recorded, RecordedOf, Acquired, Goto, table, tasks, sems
<1>4. Control'
  BY <1>t, PlanAssumption, CurrentIsOne DEF TypeOK, Tables, Control, Active, Acquired, Goto, table, tasks, sems
<1> QED  BY <1>1, <1>2, <1>3, <1>4 DEF IInv

(* What is recorded as cached is in the cache. *)
LEMMA VerifyKeeps ==
    ASSUME IInv, Verify
    PROVE  IInv'
<1>t. Verify /\ TypeOK /\ Tables /\ Recorded /\ Control
  BY DEF IInv
<1>1. CASE next > Len(Order)
  <2>1. /\ pc = "verify" /\ pc' = "top"
        /\ UNCHANGED <<next, failed, slots, progress, table, owner, tasks, failFast, verdict>>
    BY <1>1, <1>t DEF Verify, Goto, table
  <2>2. TypeOK'
    BY <2>1, <1>t DEF TypeOK, Labels, table, owner, tasks
  <2>3. Tables'
    BY <2>1, <1>t DEF Tables, Active, table, tasks
  <2>4. Recorded'
    BY <2>1, <1>t DEF Recorded, RecordedOf, table, tasks
  <2>5. Control'
    BY <2>1, <1>t DEF Control, Active, table, owner, tasks
  <2> QED  BY <2>2, <2>3, <2>4, <2>5 DEF IInv
<1>2. CASE ~(next > Len(Order))
  <2>1. /\ pc = "verify" /\ next \in 1 .. Len(Order) /\ next' = next + 1
        /\ UNCHANGED <<pc, failed, slots, progress, running, done, owner, tasks, failFast, verdict>>
    BY <1>2, <1>t, PlanAssumption DEF Verify, TypeOK
  <2>2. Current \in Activities
    BY <2>1, CurrentIsOne
  <2>3. \/ UNCHANGED <<statuses, pending>>
        \/ /\ Current \in published /\ pending' = pending \ {Current}
           /\ statuses' = [statuses EXCEPT ![Current] = "cached"]
    BY <1>2, <1>t DEF Verify, Record
  <2>4. statuses' \in [Activities -> Good \cup Wrong \cup {"none"}] /\ pending' \subseteq Activities
    BY <2>2, <2>3, <1>t DEF TypeOK, Good
  <2>5. TypeOK'
    BY <2>1, <2>4, <1>t, PlanAssumption DEF TypeOK, owner, tasks
  <2>6. Tables'
    BY <2>1, <2>2, <2>3, <1>t DEF Tables, Active, TypeOK, tasks
  <2>7. Recorded'
    BY <2>1, <2>2, <2>3, <1>t, PlanAssumption DEF Recorded, RecordedOf, Tables, TypeOK, Good, tasks
  <2>8. Control'
    BY <2>1, <1>t DEF Control, Active, owner, tasks
  <2> QED  BY <2>5, <2>6, <2>7, <2>8 DEF IInv
<1> QED
  BY <1>1, <1>2

(* A round begins with what it reads once, or everything is done. *)
LEMMA TopKeeps ==
    ASSUME IInv, Top
    PROVE  IInv'
<1>t. Top /\ TypeOK /\ Tables /\ Recorded /\ Control
  BY DEF IInv
<1>1. CASE pending = {} /\ running = {}
  <2>1. /\ pc = "top" /\ pc' = "finish"
        /\ UNCHANGED <<next, failed, slots, progress, table, owner, tasks, failFast, verdict>>
    BY <1>1 DEF Top, Goto
  <2>2. TypeOK'
    BY <2>1, <1>t DEF TypeOK, Labels, table, owner, tasks
  <2>3. Tables'
    BY <2>1, <1>t DEF Tables, Active, table, tasks
  <2>4. Recorded'
    BY <2>1, <1>t DEF Recorded, RecordedOf, table, tasks
  <2>5. Control'
    BY <1>1, <2>1, <1>t DEF Control, Tables, Active, table, owner, tasks
  <2> QED  BY <2>2, <2>3, <2>4, <2>5 DEF IInv
<1>2. CASE ~(pending = {} /\ running = {})
  <2>1. /\ pc = "top" /\ pc' = "scan" /\ next' = 1 /\ progress' = FALSE
        /\ failed' = \E a \in Activities : statuses[a] = "failed"
        /\ slots' = Jobs - Cardinality(running)
        /\ UNCHANGED <<table, owner, tasks, failFast, verdict>>
    BY <1>2 DEF Top
  <2>2. Cardinality(running) \in Nat /\ Jobs \in Nat /\ Cardinality(running) <= Jobs
    BY <1>t, FS_CardinalityType, PlanAssumption DEF Tables, TypeOK
  <2>3. slots' \in 0 .. Jobs /\ Cardinality(running) + slots' = Jobs
    BY <2>1, <2>2
  <2>4. failed' \in BOOLEAN /\ (failed' <=> \E a \in Activities : statuses[a] = "failed")
    BY <2>1
  <2>5. 1 \in 1 .. Len(Order) + 1
    BY PlanAssumption
  <2>6. TypeOK'
    BY <2>1, <2>3, <2>4, <2>5, <1>t DEF TypeOK, Labels, table, owner, tasks
  <2>7. Tables'
    BY <2>1, <1>t DEF Tables, Active, table, tasks
  <2>8. Recorded'
    BY <2>1, <1>t DEF Recorded, RecordedOf, table, tasks
  <2>9. Control'
    BY <2>1, <2>3, <2>4, <1>t DEF Control, Active, table, owner, tasks
  <2> QED  BY <2>6, <2>7, <2>8, <2>9 DEF IInv
<1> QED
  BY <1>1, <1>2

(* An activity is skipped or its task created for what is recorded. *)
LEMMA ScanKeeps ==
    ASSUME IInv, Scan
    PROVE  IInv'
<1>t. Scan /\ TypeOK /\ Tables /\ Recorded /\ Control
  BY DEF IInv
<1>d. DEFINE a == Current
             states == {statuses[d] : d \in Deps[a]}
<1>a. a \in Activities
  BY <1>t, CurrentIsOne DEF Scan, TypeOK
<1>b. /\ pc = "scan" /\ next \in 1 .. Len(Order) /\ next' = next + 1
      /\ UNCHANGED <<pc, failed, done, owner, outcome, started, published, failFast, verdict>>
  BY <1>t DEF Scan, TypeOK, table
<1> HIDE DEF a
<1>1. CASE UNCHANGED <<slots, progress, table, phase>>
  <2>1. UNCHANGED <<slots, progress, statuses, pending, running, phase>>
    BY <1>1 DEF table
  <2>2. TypeOK'
    BY <1>b, <1>t, <2>1, PlanAssumption DEF TypeOK, owner
  <2>3. Tables'
    BY <1>b, <1>t, <2>1 DEF Tables, Active
  <2>4. Recorded'
    BY <1>b, <1>t, <2>1 DEF Recorded, RecordedOf
  <2>5. Control'
    BY <1>b, <1>t, <2>1 DEF Control, Active, owner
  <2> QED  BY <2>2, <2>3, <2>4, <2>5 DEF IInv
<1>2. CASE /\ a \in pending
           /\ states \cap Wrong # {} \/ (failFast /\ failed)
           /\ Record(a, "skipped") /\ pending' = pending \ {a} /\ progress' = TRUE
           /\ UNCHANGED <<slots, running, phase>>
  <2>1. statuses' = [statuses EXCEPT ![a] = "skipped"] /\ statuses[a] = "none" /\ phase[a] = "none"
    BY <1>2, <1>t DEF Record, Tables
  <2>2. TypeOK'
    BY <1>a, <1>b, <1>2, <1>t, <2>1, PlanAssumption DEF TypeOK, owner, Wrong
  <2>3. Tables'
    BY <1>a, <1>b, <1>2, <1>t, <2>1 DEF Tables, Active, TypeOK
  <2>4. \A b \in Activities : /\ b # a => statuses'[b] = statuses[b]
                              /\ statuses[b] # "none" => statuses'[b] = statuses[b]
    BY <1>t, <2>1 DEF TypeOK
  <2>5. /\ statuses'[a] = "skipped"
        /\ \/ \E d \in Deps[a] : statuses[d] \in Wrong
           \/ failFast /\ \E b \in Activities : statuses[b] = "failed"
    BY <1>a, <1>2, <1>b, <1>t, <2>1 DEF TypeOK, Control
  <2>6. Recorded'
    <3>1. SUFFICES ASSUME NEW c \in Activities
                   PROVE  RecordedOf(c)'
      BY DEF Recorded
    <3>2. \A d \in Deps[c] \cup Deps[a] : d \in Activities
      BY <1>a, PlanAssumption
    <3> QED
      BY <1>a, <1>b, <1>2, <1>t, <2>4, <2>5, <3>2 DEF Recorded, RecordedOf, Good, Wrong
  <2>7. Control'
    <3>1. (\E b \in Activities : statuses'[b] = "failed") <=> \E b \in Activities : statuses[b] = "failed"
      BY <2>1, <2>4, <2>5
    <3> QED
      BY <1>b, <1>2, <1>t, <2>4, <2>5, <3>1 DEF Control, Active, owner
  <2> QED  BY <2>2, <2>3, <2>6, <2>7 DEF IInv
<1>3. CASE /\ a \in pending /\ slots > 0 /\ states \subseteq Good
           /\ running' = running \cup {a} /\ pending' = pending \ {a}
           /\ phase' = [phase EXCEPT ![a] = "created"]
           /\ slots' = slots - 1 /\ progress' = TRUE
           /\ UNCHANGED statuses
  <2>1. /\ a \notin running /\ IsFiniteSet(running) /\ IsFiniteSet(running')
        /\ Cardinality(running') = Cardinality(running) + 1 /\ Cardinality(running) \in Nat
    BY <1>3, <1>t, FS_AddElement, FS_CardinalityType DEF Tables
  <2>2. Cardinality(running') + slots' = Jobs /\ slots' \in 0 .. Jobs
    <3>1. Cardinality(running) + slots = Jobs
      BY <1>b, <1>t DEF Control
    <3>2. slots \in 0 .. Jobs
      BY <1>t DEF TypeOK
    <3> QED
      BY <1>3, <2>1, <3>1, <3>2, PlanAssumption
  <2>3. TypeOK'
    <3>1. UNCHANGED <<pc, failed, done, worker, cancelled, lock, shut, statuses, outcome, started,
                      published, failFast, verdict>>
      BY <1>b, <1>3 DEF owner
    <3>5. next' \in 1 .. Len(Order) + 1 /\ progress' \in BOOLEAN
      BY <1>b, <1>3, PlanAssumption
    <3>2. phase' \in [Activities -> Phases]
      BY <1>a, <1>3, <1>t DEF TypeOK, Phases
    <3>3. Cardinality(running') <= Jobs
      BY <2>1, <2>2, PlanAssumption
    <3>4. running' \subseteq Activities /\ pending' \subseteq Activities /\ done \subseteq running'
      BY <1>a, <1>3, <1>t DEF TypeOK
    <3> QED
      BY <1>t, <2>2, <3>1, <3>2, <3>3, <3>4, <3>5 DEF TypeOK
  <2>4. Tables'
    BY <1>a, <1>b, <1>3, <1>t, <2>1 DEF Tables, Active, TypeOK
  <2>5. \A d \in Deps[a] : statuses[d] \in Good
    BY <1>3
  <2>6. Recorded'
    BY <1>a, <1>b, <1>3, <1>t, <2>5 DEF Recorded, RecordedOf, TypeOK, Tables
  <2>7. Control'
    BY <1>b, <1>3, <1>t, <2>2 DEF Control, owner
  <2> QED  BY <2>3, <2>4, <2>6, <2>7 DEF IInv
<1> QED
  BY <1>1, <1>2, <1>3 DEF Scan, a

(* The end of a pass changes no table. *)
LEMMA ScanEndsKeeps ==
    ASSUME IInv, ScanEnds
    PROVE  IInv'
<1>t. ScanEnds /\ TypeOK /\ Tables /\ Recorded /\ Control
  BY DEF IInv
<1>1. TypeOK'
  BY <1>t, PlanAssumption, CurrentIsOne DEF TypeOK, Labels, ScanEnds, Goto, table, owner, tasks, sems
<1>2. Tables'
  BY <1>t, PlanAssumption, CurrentIsOne DEF TypeOK, Tables, Active, ScanEnds, Goto, table, owner, tasks, sems
<1>3. Recorded'
  BY <1>t, PlanAssumption, CurrentIsOne DEF TypeOK, Tables, Recorded, RecordedOf, ScanEnds, Goto, table, owner, tasks, sems
<1>4. Control'
  BY <1>t, PlanAssumption, CurrentIsOne DEF TypeOK, Tables, Control, Active, ScanEnds, Goto, table, owner, tasks, sems
<1> QED  BY <1>1, <1>2, <1>3, <1>4 DEF IInv

(* What the wait returns is done. *)
LEMMA WaitKeeps ==
    ASSUME IInv, Wait
    PROVE  IInv'
<1>t. Wait /\ TypeOK /\ Tables /\ Recorded /\ Control
  BY DEF IInv
<1>1. TypeOK'
  BY <1>t, PlanAssumption, CurrentIsOne DEF TypeOK, Labels, Wait, Goto, owner, tasks, sems
<1>2. Tables'
  BY <1>t, PlanAssumption, CurrentIsOne DEF TypeOK, Tables, Active, Wait, Goto, owner, tasks, sems
<1>3. Recorded'
  BY <1>t, PlanAssumption, CurrentIsOne DEF TypeOK, Tables, Recorded, RecordedOf, Wait, Goto, owner, tasks, sems
<1>4. Control'
  BY <1>t, PlanAssumption, CurrentIsOne DEF TypeOK, Tables, Control, Active, Wait, Goto, owner, tasks, sems
<1> QED  BY <1>1, <1>2, <1>3, <1>4 DEF IInv

(* An outcome is recorded as it is, unless it was raised. *)
LEMMA RecordDoneKeeps ==
    ASSUME IInv, RecordDone
    PROVE  IInv'
<1>t. RecordDone /\ TypeOK /\ Tables /\ Recorded /\ Control
  BY DEF IInv
<1>2. CASE /\ pc = "record" /\ done = {} /\ pc' = "top"
           /\ UNCHANGED <<failed, slots, progress, table, next, owner, tasks, failFast, verdict>>
  <2>1. UNCHANGED <<failed, slots, progress, statuses, pending, running, done, next, worker,
                    cancelled, lock, shut, phase, outcome, started, published, failFast, verdict>>
    BY <1>2 DEF table, owner, tasks
  <2>2. TypeOK'
    BY <1>2, <1>t, <2>1 DEF TypeOK, Labels
  <2>3. Tables'
    BY <1>2, <1>t, <2>1 DEF Tables, Active
  <2>4. Recorded'
    BY <1>2, <1>t, <2>1 DEF Recorded, RecordedOf
  <2>5. Control'
    BY <1>2, <1>t, <2>1 DEF Control, Active
  <2> QED  BY <2>2, <2>3, <2>4, <2>5 DEF IInv
<1>3. ASSUME NEW a \in done,
             pc = "record", done' = done \ {a}, running' = running \ {a},
             UNCHANGED <<failed, slots, progress, pending, next, owner, tasks, failFast, verdict>>,
             \/ outcome[a] = "raised" /\ pc' = "cleanup" /\ UNCHANGED statuses
             \/ outcome[a] # "raised" /\ pc' = "record" /\ Record(a, outcome[a])
      PROVE  IInv'
  <2>1. /\ UNCHANGED <<failed, slots, progress, pending, next, worker, cancelled, lock, shut, phase,
                       outcome, started, published, failFast, verdict>>
        /\ a \in running /\ a \in Activities /\ phase[a] = "done" /\ statuses[a] = "none"
    BY <1>3, <1>t DEF owner, tasks, TypeOK, Tables
  <2>2. /\ IsFiniteSet(running') /\ Cardinality(running') = Cardinality(running) - 1
        /\ Cardinality(running) \in Nat
    BY <1>3, <1>t, <2>1, FS_RemoveElement, FS_CardinalityType DEF Tables
  <2>3. Cardinality(running') <= Jobs
    BY <1>t, <2>2, PlanAssumption DEF TypeOK
  <2>4. outcome[a] # "raised" => outcome[a] \in {"succeeded", "failed"}
    BY <1>3, <1>t, <2>1 DEF TypeOK, Recorded, RecordedOf
  <2>5. /\ \A b \in Activities : statuses[b] # "none" => statuses'[b] = statuses[b]
        /\ \A b \in Activities \ {a} : statuses'[b] = statuses[b]
        /\ outcome[a] # "raised" => statuses'[a] = outcome[a]
        /\ outcome[a] = "raised" => statuses'[a] = "none"
    BY <1>3, <1>t, <2>1 DEF Record, TypeOK
  <2>6. statuses' \in [Activities -> Good \cup Wrong \cup {"none"}]
    BY <1>3, <1>t, <2>1, <2>4 DEF Record, TypeOK, Good, Wrong
  <2>7. TypeOK'
    BY <1>3, <1>t, <2>1, <2>3, <2>6 DEF TypeOK, Labels
  <2>8. Tables'
    BY <1>3, <1>t, <2>1, <2>2, <2>4, <2>5 DEF Tables, Active, TypeOK
  <2>9. Recorded'
    <3>1. SUFFICES ASSUME NEW c \in Activities
                   PROVE  RecordedOf(c)'
      BY DEF Recorded
    <3>2. RecordedOf(c) /\ RecordedOf(a) /\ \A d \in Deps[c] : d \in Activities
      BY <1>t, <2>1, PlanAssumption DEF Recorded
    <3>3. CASE c = a
      BY <1>3, <2>1, <2>4, <2>5, <3>2, <3>3 DEF RecordedOf, Good, Wrong
    <3>4. CASE c # a
      BY <1>3, <2>1, <2>4, <2>5, <3>2, <3>4 DEF RecordedOf, Good, Wrong
    <3> QED  BY <3>3, <3>4
  <2>10. Control'
    BY <1>3, <1>t, <2>1, <2>5 DEF Control, Active
  <2> QED  BY <2>7, <2>8, <2>9, <2>10 DEF IInv
<1> QED
  BY <1>2, <1>3, <1>t DEF RecordDone, Goto

(* The verdict comes when nothing is left. *)
LEMMA FinishKeeps ==
    ASSUME IInv, Finish
    PROVE  IInv'
<1>t. Finish /\ TypeOK /\ Tables /\ Recorded /\ Control
  BY DEF IInv
<1>1. TypeOK'
  BY <1>t, PlanAssumption, CurrentIsOne DEF TypeOK, Labels, Finish, Goto, table, owner, tasks, sems
<1>2. Tables'
  BY <1>t, PlanAssumption, CurrentIsOne DEF TypeOK, Tables, Active, Finish, Goto, table, owner, tasks, sems
<1>3. Recorded'
  BY <1>t, PlanAssumption, CurrentIsOne DEF TypeOK, Tables, Recorded, RecordedOf, Finish, Goto, table, owner, tasks, sems
<1>4. Control'
  BY <1>t, PlanAssumption, CurrentIsOne DEF TypeOK, Tables, Control, Active, Finish, Goto, table, owner, tasks, sems
<1> QED  BY <1>1, <1>2, <1>3, <1>4 DEF IInv

(* An error of the coroutine leaves its tables as they are. *)
LEMMA MainRaisesKeeps ==
    ASSUME IInv, MainRaises
    PROVE  IInv'
<1>t. MainRaises /\ TypeOK /\ Tables /\ Recorded /\ Control
  BY DEF IInv
<1>1. TypeOK'
  BY <1>t, PlanAssumption, CurrentIsOne DEF TypeOK, Labels, MainRaises, Goto, table, owner, tasks, sems
<1>2. Tables'
  BY <1>t, PlanAssumption, CurrentIsOne DEF TypeOK, Tables, Active, MainRaises, Goto, table, owner, tasks, sems
<1>3. Recorded'
  BY <1>t, PlanAssumption, CurrentIsOne DEF TypeOK, Tables, Recorded, RecordedOf, MainRaises, Goto, table, owner, tasks, sems
<1>4. Control'
  BY <1>t, PlanAssumption, CurrentIsOne DEF TypeOK, Tables, Control, Active, MainRaises, Goto, table, owner, tasks, sems
<1> QED  BY <1>1, <1>2, <1>3, <1>4 DEF IInv

(* The lock goes when no task is at work. *)
LEMMA CleanedUpKeeps ==
    ASSUME IInv, CleanedUp
    PROVE  IInv'
<1>t. CleanedUp /\ TypeOK /\ Tables /\ Recorded /\ Control
  BY DEF IInv
<1>1. TypeOK'
  BY <1>t, PlanAssumption, CurrentIsOne DEF TypeOK, Labels, CleanedUp, Goto, table, tasks, sems
<1>2. Tables'
  BY <1>t, PlanAssumption, CurrentIsOne DEF TypeOK, Tables, Active, CleanedUp, Goto, table, tasks, sems
<1>3. Recorded'
  BY <1>t, PlanAssumption, CurrentIsOne DEF TypeOK, Tables, Recorded, RecordedOf, CleanedUp, Goto, table, tasks, sems
<1>4. Control'
  BY <1>t, PlanAssumption, CurrentIsOne DEF TypeOK, Tables, Control, Active, CleanedUp, Goto, table, tasks, sems
<1> QED  BY <1>1, <1>2, <1>3, <1>4 DEF IInv

(* So does the shutdown of asyncio.run. *)
LEMMA ShutdownKeeps ==
    ASSUME IInv, Shutdown
    PROVE  IInv'
<1>t. Shutdown /\ TypeOK /\ Tables /\ Recorded /\ Control
  BY DEF IInv
<1>1. /\ UNCHANGED <<next, failed, slots, progress, table, worker, cancelled, lock, tasks,
                     failFast, verdict>>
      /\ shut' \in {"before", "inside"} /\ pc' = "cleanup"
      /\ pc \in {"verify", "scan", "wait", "record", "finish", "cleanup"}
  BY <1>t DEF Shutdown, Goto, main
<1>2. TypeOK'
  BY <1>t, <1>1 DEF TypeOK, Labels, table, tasks, sems
<1>3. Tables'
  BY <1>t, <1>1 DEF Tables, Active, table, tasks, sems
<1>4. Recorded'
  BY <1>t, <1>1 DEF Recorded, RecordedOf, table, tasks, sems
<1>5. Control'
  BY <1>t, <1>1 DEF Control, Active, table, tasks, sems
<1> QED  BY <1>2, <1>3, <1>4, <1>5 DEF IInv

(* What a step of a task changes, and what it leaves to the coroutine *)
TaskFrame(a) ==
    /\ UNCHANGED <<main, table, owner, failFast, verdict>>
    /\ phase[a] \in {"created", "waiting", "executing"}
    /\ \A b \in Activities \ {a} : phase'[b] = phase[b] /\ outcome'[b] = outcome[b]
    /\ started \subseteq started' /\ published \subseteq published'
    /\ \/ phase'[a] = "waiting"
       \/ phase'[a] = "executing" /\ a \in started'
       \/ /\ phase'[a] = "done" /\ outcome'[a] # "none"
          /\ outcome'[a] = "succeeded" => a \in published'
          /\ outcome'[a] \in {"succeeded", "failed"} => a \in started' \/ Impossible(a)
          /\ outcome'[a] = "cancelled" => pc = "cleanup"

(* Up to its next await a task waits, enters the executor or is done.      *)
LEMMA RunOnFrame ==
    ASSUME IInv, NEW a \in Activities, NEW k, NEW q, NEW g, phase[a] \in {"created", "waiting"},
           RunOn(a, k, q, g), UNCHANGED <<main, table, owner, published, failFast, verdict>>
    PROVE  TypeOK' /\ TaskFrame(a)
<1>t. TypeOK
  BY DEF IInv
<1>1. CASE phase' = [phase EXCEPT ![a] = "waiting"] /\ UNCHANGED <<outcome, started>>
  BY <1>1, <1>t DEF TypeOK, TaskFrame, Phases, main, table, owner
<1>2. CASE /\ phase' = [phase EXCEPT ![a] = "done"] /\ UNCHANGED started
           /\ outcome' = [outcome EXCEPT ![a] = IF Impossible(a) THEN "failed" ELSE "raised"]
  BY <1>2, <1>t DEF TypeOK, TaskFrame, Phases, main, table, owner
<1>3. CASE /\ phase' = [phase EXCEPT ![a] = "executing"] /\ UNCHANGED outcome
           /\ started' = started \cup {a}
  BY <1>3, <1>t DEF TypeOK, TaskFrame, Phases, main, table, owner
<1> QED
  BY <1>1, <1>2, <1>3 DEF RunOn

(* Every step of a task stays within that frame.                           *)
LEMMA TaskFrames ==
    ASSUME IInv, NEW a \in Activities, Task(a)
    PROVE  TypeOK' /\ TaskFrame(a)
<1>t. TypeOK /\ (phase[a] = "executing" => a \in started)
  BY DEF IInv, Recorded, RecordedOf
<1>1. CASE Begin(a)
  BY <1>1, RunOnFrame DEF Begin
<1>2. CASE Resume(a)
  BY <1>2, RunOnFrame DEF Resume
<1>3. CASE Execute(a)
  <2>1. PICK result \in {"succeeded", "failed", "raised"} :
           /\ Ends(a, result)
           /\ published' = IF result = "succeeded" THEN published \cup {a} ELSE published
    BY <1>3 DEF Execute
  <2>2. phase[a] = "executing"
    BY <1>3 DEF Execute
  <2> QED
    BY <1>t, <2>1, <2>2 DEF Ends, TypeOK, TaskFrame, Phases, main, table, owner
<1>4. CASE CancelTask(a)
  BY <1>4, <1>t DEF CancelTask, Ends, TypeOK, TaskFrame, Phases, main, table, owner
<1>5. CASE CancelUnbegun(a)
  BY <1>5, <1>t DEF CancelUnbegun, Ends, TypeOK, TaskFrame, Phases, main, table, owner
<1> QED
  BY <1>1, <1>2, <1>3, <1>4, <1>5 DEF Task

(* A task disturbs neither the tables nor what was recorded: nothing is    *)
(* recorded of it while it runs.                                           *)
LEMMA TaskKeeps ==
    ASSUME IInv, NEW a \in Activities, Task(a)
    PROVE  IInv'
<1>1. TypeOK' /\ TaskFrame(a)
  BY TaskFrames
<1>2. /\ UNCHANGED <<pc, next, failed, slots, progress, statuses, pending, running, done,
                     worker, cancelled, lock, failFast, verdict>>
      /\ phase[a] \in {"created", "waiting", "executing"} /\ phase'[a] # "none"
      /\ \A b \in Activities \ {a} : phase'[b] = phase[b] /\ outcome'[b] = outcome[b]
  BY <1>1 DEF TaskFrame, main, table, owner
<1>3. Tables /\ TypeOK /\ Recorded /\ Control
  BY DEF IInv
<1>4. a \in running /\ a \notin done /\ a \notin pending /\ statuses[a] = "none"
      /\ pc \notin {"acquire", "verify", "ended"} /\ verdict = "none"
  BY <1>2, <1>3 DEF Tables, Active, Control
<1>5. Tables'
  BY <1>2, <1>3, <1>4 DEF Tables, Active, TypeOK
<1>6. Recorded'
  <2>1. SUFFICES ASSUME NEW c \in Activities
                 PROVE  RecordedOf(c)'
    BY DEF Recorded
  <2>2. RecordedOf(c) /\ started \subseteq started' /\ published \subseteq published'
    BY <1>1, <1>3 DEF Recorded, TaskFrame
  <2>3. CASE c = a
    BY <1>1, <1>2, <1>4, <2>2, <2>3 DEF RecordedOf, TaskFrame, Good
  <2>4. CASE c # a
    BY <1>2, <2>2, <2>4 DEF RecordedOf
  <2> QED  BY <2>3, <2>4
<1>7. Control'
  BY <1>2, <1>3, <1>4 DEF Control, Active
<1> QED
  BY <1>1, <1>5, <1>6, <1>7 DEF IInv

(* The invariant holds at the start.                                       *)
LEMMA InitKeeps ==
    ASSUME Init
    PROVE  IInv
<1>1. TypeOK
  <2>1. Cardinality(running) = 0 /\ next \in 1 .. Len(Order) + 1 /\ slots \in 0 .. Jobs
        /\ Cardinality(running) <= Jobs
    BY PlanAssumption, FS_EmptySet DEF Init
  <2>2. /\ statuses \in [Activities -> Good \cup Wrong \cup {"none"}]
        /\ phase \in [Activities -> Phases]
        /\ outcome \in [Activities -> {"none", "succeeded", "failed", "raised", "cancelled"}]
    BY DEF Init, Phases
  <2>3. pc \in Labels /\ worker \in {"busy", "locked", "raised"} /\ verdict \in {"none", "failed", "succeeded"}
    BY DEF Init, Labels
  <2>4. failed \in BOOLEAN /\ progress \in BOOLEAN /\ cancelled \in BOOLEAN /\ lock \in BOOLEAN
        /\ failFast \in BOOLEAN /\ shut \in {"no", "before", "inside"}
    BY DEF Init
  <2>5. pending \subseteq Activities /\ running \subseteq Activities /\ done \subseteq running
        /\ started \subseteq Activities /\ published \subseteq Activities
    BY DEF Init
  <2> QED
    BY <2>1, <2>2, <2>3, <2>4, <2>5 DEF TypeOK
<1>2. Tables
  BY FS_EmptySet DEF Init, Tables, Active
<1>3. Recorded
  BY DEF Init, Recorded, RecordedOf, Good
<1>4. Control
  BY DEF Init, Control
<1> QED
  BY <1>1, <1>2, <1>3, <1>4 DEF IInv

(* The invariant holds throughout, for every plan.                         *)
THEOREM Invariance == Spec => []IInv
<1>1. Init => IInv
  BY InitKeeps
<1>2. IInv /\ [Next]_vars => IInv'
  <2> SUFFICES ASSUME IInv, [Next]_vars PROVE IInv'
    OBVIOUS
  <2>1. CASE Main
    BY <2>1, WorkerEndsKeeps, AcquiredKeeps, VerifyKeeps, TopKeeps, ScanKeeps, ScanEndsKeeps,
       WaitKeeps, RecordDoneKeeps, FinishKeeps, CleanedUpKeeps DEF Main
  <2>2. CASE CancelAcquire \/ MainRaises \/ Shutdown
    BY <2>2, CancelAcquireKeeps, MainRaisesKeeps, ShutdownKeeps
  <2>3. CASE \E a \in Activities : Task(a)
    BY <2>3, TaskKeeps
  <2>4. CASE UNCHANGED vars
    <3>1. UNCHANGED <<pc, next, failed, slots, progress, statuses, pending, running, done, worker,
                      cancelled, lock, shut, phase, outcome, started, published, failFast,
                      verdict>>
      BY <2>4 DEF vars, main, table, owner, tasks
    <3>2. TypeOK'
      BY <3>1 DEF IInv, TypeOK
    <3>3. Tables'
      BY <3>1 DEF IInv, Tables, Active
    <3>4. Recorded'
      BY <3>1 DEF IInv, Recorded, RecordedOf
    <3>5. Control'
      BY <3>1 DEF IInv, Control, Active
    <3> QED  BY <3>2, <3>3, <3>4, <3>5 DEF IInv
  <2> QED
    BY <2>1, <2>2, <2>3, <2>4 DEF Next, Over, Spin
<1> QED
  BY <1>1, <1>2, PTL DEF Spec

(* Every variable but those of the semaphores keeps its type, no more      *)
(* tasks exist than jobs, and no exception of a task becomes a status.     *)
THEOREM SchedulerTypes == Spec => []TypeOK
<1>1. IInv => TypeOK
  BY DEF IInv
<1> QED
  BY <1>1, Invariance, PTL

(* A task exists only after its dependencies were recorded as successful,  *)
(* and their artifacts are in the cache, in whatever order the plan lists  *)
(* its activities.                                                         *)
THEOREM DependenciesAreFirst == Spec => []DependenciesFirst
<1>1. IInv => DependenciesFirst
  BY PlanAssumption DEF IInv, DependenciesFirst, Recorded, RecordedOf
<1> QED
  BY <1>1, Invariance, PTL

(* The run lock is held while any task is at work, and given back at the   *)
(* end, wherever the run is cancelled or fails.                            *)
THEOREM LockCovers == Spec => []LockCoversWork
<1>1. IInv => LockCoversWork
  <2> SUFFICES ASSUME IInv PROVE LockCoversWork
    OBVIOUS
  <2>1. ASSUME NEW a \in Activities, Active(a) PROVE pc \notin {"acquire", "ended"}
    BY <2>1 DEF IInv, Tables, Control, Active
  <2> QED
    BY <2>1 DEF IInv, Control, LockCoversWork, Active
<1> QED
  BY <1>1, Invariance, PTL

(* A run that comes to its verdict has one for every activity, and each is *)
(* justified by what its task did or by a dependency.                      *)
THEOREM ReportIsWhole == Spec => []WholeReport
<1>1. IInv => WholeReport
  <2> SUFFICES ASSUME IInv, verdict # "none", NEW a \in Activities
               PROVE  LET due == \E d \in Deps[a] : statuses[d] \in Wrong
                      IN /\ statuses[a] # "none"
                         /\ due => statuses[a] \in {"skipped", "cached"}
                         /\ statuses[a] = "skipped" =>
                               due \/ (failFast /\ \E b \in Activities : statuses[b] = "failed")
                         /\ statuses[a] \in {"succeeded", "failed"} =>
                               a \in started \/ Impossible(a)
                         /\ statuses[a] \in Good => a \in published
    BY DEF WholeReport
  <2>1. statuses[a] # "none" /\ statuses[a] \in Good \cup Wrong \cup {"none"} /\ RecordedOf(a)
    BY DEF IInv, Control, TypeOK, Recorded
  <2> QED
    BY <2>1 DEF RecordedOf, Good, Wrong
<1> QED
  BY <1>1, Invariance, PTL

(* With fail_fast no task is created after a failure was recorded: what a  *)
(* pass reads of the failures at its start stays true to its end.          *)
THEOREM FailFastHolds == Spec => FailFastStopsScheduling
<1>1. IInv /\ [Next]_vars =>
        [failFast /\ (\E a \in Activities : statuses[a] = "failed") => running' \subseteq running]_vars
  <2> SUFFICES ASSUME IInv, Next, failFast, \E a \in Activities : statuses[a] = "failed"
               PROVE  running' \subseteq running
    BY DEF vars, table
  <2>1. CASE Scan
    BY <2>1 DEF Scan, IInv, Control, TypeOK, table
  <2>2. CASE WorkerEnds \/ CancelAcquire \/ Acquired \/ Verify \/ Top \/ ScanEnds \/ Wait
             \/ RecordDone \/ Finish \/ MainRaises \/ Shutdown \/ CleanedUp
    BY <2>2 DEF WorkerEnds, CancelAcquire, Acquired, Verify, Top, ScanEnds, Wait, RecordDone,
                Finish, MainRaises, Shutdown, CleanedUp, table
  <2>3. CASE \E a \in Activities : Task(a)
    BY <2>3, TaskFrames DEF TaskFrame, table
  <2>4. CASE Over \/ Spin
    BY <2>4 DEF Over, Spin, vars, table
  <2> QED
    BY <2>1, <2>2, <2>3, <2>4 DEF Next, Main
<1> QED
  BY <1>1, Invariance, PTL DEF Spec, FailFastStopsScheduling

-----------------------------------------------------------------------------
(* The semaphores                                                          *)
-----------------------------------------------------------------------------
(* The slots a task asks for are slots of the semaphores.                  *)
LEMMA UnitsType ==
    ASSUME NEW a \in Activities
    PROVE  Units[a] \in Seq(Sems) /\ Len(Units[a]) \in Nat \ {0}
<1> DEFINE amount(i) == IF i \in Met(a) THEN Requests[a][i][2] ELSE 0
           parts == [i \in DOMAIN Requests[a] |-> [j \in 1 .. amount(i) |-> Requests[a][i][1]]]
<1>1. Requests[a] \in Seq(STRING \X Int)
  BY RequestsAssumption
<1>2. PICK k \in Nat : DOMAIN Requests[a] = 1 .. k
  BY <1>1
<1>3. ASSUME NEW i \in 1 .. k PROVE [j \in 1 .. amount(i) |-> Requests[a][i][1]] \in Seq(Sems)
  <2>1. CASE i \in Met(a)
    <3>1. ~Unmet(a, i)
      BY <1>3, <2>1 DEF Met
    <3>2. /\ Requests[a][i][1] \in DOMAIN Limits
          /\ Requests[a][i][2] \in 1 .. Limits[Requests[a][i][1]]
      BY <3>1 DEF Unmet
    <3>3. amount(i) \in Nat /\ Requests[a][i][1] \in Sems
      BY <2>1, <3>2, PlanAssumption DEF Sems
    <3> HIDE DEF amount
    <3> QED
      BY <3>3
  <2>2. CASE i \notin Met(a)
    BY <2>2
  <2> QED
    BY <2>1, <2>2
<1>4. parts \in Seq(Seq(Sems))
  <2> HIDE DEF amount
  <2>1. parts \in [1 .. k -> Seq(Sems)]
    BY <1>2, <1>3
  <2> HIDE DEF parts
  <2> QED
    BY <2>1
<1>5. FlattenSeq(parts) \in Seq(Sems)
  <2> HIDE DEF parts
  <2> QED
    BY <1>4, FlattenSeqType
<1>6. Units[a] = <<"job">> \o FlattenSeq(parts)
  BY DEF Units
<1>7. <<"job">> \in Seq(Sems) /\ Len(<<"job">>) = 1
  BY DEF Sems
<1> HIDE DEF parts
<1>8. /\ <<"job">> \o FlattenSeq(parts) \in Seq(Sems)
      /\ Len(<<"job">> \o FlattenSeq(parts)) = 1 + Len(FlattenSeq(parts))
  BY <1>5, <1>7, ConcatProperties
<1> QED
  BY <1>5, <1>6, <1>7, <1>8

(* The slots number i to j of a task that are slots of n                   *)
PairsOf(n, a, i, j) == {<<a, k>> : k \in {k \in i .. j : Units[a][k] = n}}

HeldBy(a, g, gt) == gt[a] + IF a \in g THEN 1 ELSE 0
TakenIn(n, g, gt) == UNION {PairsOf(n, a, 1, HeldBy(a, g, gt)) : a \in Activities}

(* CountOf counts these pairs.                                             *)
LEMMA CountsPairs ==
    ASSUME NEW n, NEW a, NEW i \in Int, NEW j \in Int
    PROVE  /\ IsFiniteSet(PairsOf(n, a, i, j))
           /\ Cardinality(PairsOf(n, a, i, j)) = CountOf(n, a, i, j)
           /\ CountOf(n, a, i, j) \in Nat
<1> DEFINE K == {k \in i .. j : Units[a][k] = n}
           f == [k \in K |-> <<a, k>>]
<1>1. IsFiniteSet(i .. j)
  BY FS_Interval
<1>2. K \in SUBSET (i .. j)
  OBVIOUS
<1>3. IsFiniteSet(K)
  <2> HIDE DEF K
  <2> QED
    BY <1>1, <1>2, FS_Subset
<1>4. f \in Bijection(K, PairsOf(n, a, i, j))
  <2>1. f \in [K -> PairsOf(n, a, i, j)]
    BY DEF PairsOf
  <2>2. \A k, l \in K : f[k] = f[l] => k = l
    OBVIOUS
  <2>3. \A p \in PairsOf(n, a, i, j) : \E k \in K : f[k] = p
    BY DEF PairsOf
  <2> HIDE DEF K, f
  <2> QED
    BY <2>1, <2>2, <2>3 DEF Bijection, Injection, Surjection, IsInjective
<1>5. ExistsBijection(K, PairsOf(n, a, i, j))
  <2> HIDE DEF K, f
  <2> QED
    BY <1>4 DEF ExistsBijection
<1>6. Cardinality(K) \in Nat
  BY <1>3, FS_CardinalityType
<1>7. CountOf(n, a, i, j) = Cardinality(K)
  BY DEF CountOf
<1> HIDE DEF K
<1> QED
  BY <1>3, <1>5, <1>6, <1>7, FS_Bijection

(* Counts of adjacent stretches add up.                                    *)
LEMMA CountsAdd ==
    ASSUME NEW n, NEW a, NEW k \in Nat, NEW j \in Nat, k <= j
    PROVE  CountOf(n, a, 1, j) = CountOf(n, a, 1, k) + CountOf(n, a, k + 1, j)
<1> DEFINE P == {l \in 1 .. k : Units[a][l] = n}
           Q == {l \in k + 1 .. j : Units[a][l] = n}
           R == {l \in 1 .. j : Units[a][l] = n}
<1>1. P \cup Q = R /\ P \cap Q = {}
  OBVIOUS
<1>2. IsFiniteSet(P) /\ IsFiniteSet(Q)
  <2>1. IsFiniteSet(1 .. k) /\ IsFiniteSet(k + 1 .. j)
    BY FS_Interval
  <2>2. P \in SUBSET (1 .. k) /\ Q \in SUBSET (k + 1 .. j)
    OBVIOUS
  <2> HIDE DEF P, Q
  <2> QED
    BY <2>1, <2>2, FS_Subset
<1>3. /\ CountOf(n, a, 1, j) = Cardinality(R) /\ CountOf(n, a, 1, k) = Cardinality(P)
      /\ CountOf(n, a, k + 1, j) = Cardinality(Q)
  BY DEF CountOf
<1> HIDE DEF P, Q, R
<1>4. Cardinality(P \cup Q) = Cardinality(P) + Cardinality(Q) - Cardinality(P \cap Q)
  BY <1>2, FS_Union
<1>5. Cardinality(P) \in Nat /\ Cardinality(Q) \in Nat
  BY <1>2, FS_CardinalityType
<1>6. Cardinality(P \cap Q) = 0
  BY <1>1, FS_EmptySet
<1>7. Cardinality(R) = Cardinality(P) + Cardinality(Q)
  <2>1. Cardinality(P \cup Q) = Cardinality(R)
    BY <1>1, Zenon
  <2> QED
    BY <1>4, <1>5, <1>6, <2>1
<1> QED
  BY <1>3, <1>7

LEMMA NoneCounted ==
    ASSUME NEW n, NEW a, NEW k \in Nat
    PROVE  CountOf(n, a, k + 1, k) = 0
<1>1. {l \in k + 1 .. k : Units[a][l] = n} = {}
  OBVIOUS
<1> QED
  BY <1>1, FS_EmptySet DEF CountOf

(* There are finitely many activities.                                     *)
LEMMA FinitelyMany == IsFiniteSet(Activities)
<1>1. Len(Order) \in Nat /\ DOMAIN Order = 1 .. Len(Order)
  BY PlanAssumption
<1>2. Order \in Surjection(DOMAIN Order, Activities)
  BY PlanAssumption DEF Surjection, Activities, ToSet
<1>3. IsFiniteSet(DOMAIN Order)
  BY <1>1, FS_Interval
<1> QED
  BY <1>2, <1>3, FS_Surjection

(* What is held of n, apart from one task                                  *)
Others(n, a, g, gt) == UNION {PairsOf(n, b, 1, HeldBy(b, g, gt)) : b \in Activities \ {a}}

LEMMA TakenSplits ==
    ASSUME NEW n, NEW a \in Activities, NEW g, NEW gt \in [Activities -> Nat]
    PROVE  /\ IsFiniteSet(TakenIn(n, g, gt)) /\ HeldBy(a, g, gt) \in Nat
           /\ Cardinality(TakenIn(n, g, gt)) =
                 Cardinality(Others(n, a, g, gt)) + CountOf(n, a, 1, HeldBy(a, g, gt))
           /\ Cardinality(Others(n, a, g, gt)) \in Nat
<1> DEFINE T == TakenIn(n, g, gt)
           O == Others(n, a, g, gt)
           P == PairsOf(n, a, 1, HeldBy(a, g, gt))
<1>1. \A b \in Activities : HeldBy(b, g, gt) \in Nat
  BY DEF HeldBy
<1>2. T = O \cup P
  BY DEF TakenIn, Others
<1>3. O \cap P = {}
  BY DEF Others, PairsOf
<1>4. IsFiniteSet(P) /\ Cardinality(P) = CountOf(n, a, 1, HeldBy(a, g, gt))
      /\ CountOf(n, a, 1, HeldBy(a, g, gt)) \in Nat
  BY <1>1, CountsPairs
<1>5. IsFiniteSet(O)
  <2> DEFINE F == [b \in Activities \ {a} |-> PairsOf(n, b, 1, HeldBy(b, g, gt))]
             Parts == {PairsOf(n, b, 1, HeldBy(b, g, gt)) : b \in Activities \ {a}}
  <2>1. IsFiniteSet(Activities \ {a})
    BY FinitelyMany, FS_RemoveElement
  <2>2. F \in Surjection(Activities \ {a}, Parts)
    BY DEF Surjection
  <2>3. IsFiniteSet(Parts)
    <3> HIDE DEF F, Parts
    <3> QED
      BY <2>1, <2>2, FS_Surjection
  <2>4. \A p \in Parts : IsFiniteSet(p)
    BY <1>1, CountsPairs
  <2>5. O = UNION Parts
    BY DEF Others
  <2> HIDE DEF Parts
  <2> QED
    BY <2>3, <2>4, <2>5, FS_UNION
<1>6. Cardinality(O) \in Nat
  BY <1>5, FS_CardinalityType
<1> HIDE DEF T, O, P
<1>7. Cardinality(T) = Cardinality(O) + Cardinality(P) - Cardinality(O \cap P) /\ IsFiniteSet(T)
  BY <1>2, <1>4, <1>5, FS_Union
<1>8. Cardinality(O \cap P) = 0
  BY <1>3, FS_EmptySet
<1>9. Cardinality(T) = Cardinality(O) + Cardinality(P)
  BY <1>4, <1>6, <1>7, <1>8
<1> QED
  BY <1>1, <1>4, <1>6, <1>7, <1>9 DEF T, O, P

(* The tasks, the queues and the slots agree: a state of the semaphores,   *)
(* before or after slots were handed on                                    *)
Queued(q, ph, gt) ==
    /\ \A n \in Sems : \A i \in DOMAIN q[n] :
          /\ ph[q[n][i]] = "waiting" /\ Units[q[n][i]][gt[q[n][i]] + 1] = n
          /\ \A j \in DOMAIN q[n] : q[n][i] = q[n][j] => i = j
    /\ \A a \in Activities : ph[a] = "waiting" =>
          \E i \in DOMAIN q[Units[a][gt[a] + 1]] : q[Units[a][gt[a] + 1]][i] = a

Acquiring(g, ph, gt) ==
    \A a \in Activities :
        /\ a \in g => ph[a] = "waiting"
        /\ ph[a] = "waiting" => gt[a] < Len(Units[a])
        /\ ph[a] = "executing" => gt[a] = Len(Units[a])
        /\ ph[a] \notin {"waiting", "executing"} => gt[a] = 0

Balanced(f, q, g, ph, gt) ==
    /\ f \in [Sems -> Nat] /\ q \in [Sems -> Seq(Activities)]
    /\ g \subseteq Activities /\ gt \in [Activities -> Nat] /\ ph \in [Activities -> Phases]
    /\ Queued(q, ph, gt) /\ Acquiring(g, ph, gt)
    /\ \A n \in Sems : f[n] + Cardinality(TakenIn(n, g, gt)) = Capacity[n]

NoneIdle(f, q, g) == \A n \in Sems : f[n] > 0 => Ungranted(n, q, g) = {}

(* The first k waiters are k of them, or all.                              *)
LEMMA HandsOutFirst ==
    ASSUME NEW n, NEW f, NEW q, NEW g, NEW k \in Nat, f[n] = k, q[n] \in Seq(Activities),
           \A i, j \in DOMAIN q[n] : q[n][i] = q[n][j] => i = j
    PROVE  LET H == Handing(n, f, q, g)
           IN /\ IsFiniteSet(H) /\ Cardinality(H) \in 0 .. k
              /\ \A a \in H : \E i \in DOMAIN q[n] : q[n][i] = a /\ a \notin g
              /\ Cardinality(H) < k => \A i \in Ungranted(n, q, g) : q[n][i] \in H
<1> DEFINE W == Ungranted(n, q, g)
           upto(i) == {j \in W : j <= i}
           first == {i \in W : Cardinality(upto(i)) <= k}
           H == Handing(n, f, q, g)
<1>1. Len(q[n]) \in Nat /\ DOMAIN q[n] = 1 .. Len(q[n])
  OBVIOUS
<1>2. W \subseteq 1 .. Len(q[n]) /\ IsFiniteSet(W)
  <2>1. W \in SUBSET (1 .. Len(q[n]))
    BY <1>1 DEF Ungranted
  <2>2. IsFiniteSet(1 .. Len(q[n]))
    BY <1>1, FS_Interval
  <2> HIDE DEF W
  <2> QED
    BY <2>1, <2>2, FS_Subset
<1>3. H = {q[n][i] : i \in first}
  BY DEF Handing
<1> HIDE DEF W, H
<1>4. \A i \in W : /\ IsFiniteSet(upto(i)) /\ Cardinality(upto(i)) \in Nat
                   /\ upto(i) \subseteq W
  <2>1. TAKE i \in W
  <2>2. upto(i) \in SUBSET W
    OBVIOUS
  <2> HIDE DEF upto
  <2> QED
    BY <1>2, <2>2, FS_Subset, FS_CardinalityType
<1>5. first \in SUBSET W
  OBVIOUS
<1>6. IsFiniteSet(first) /\ Cardinality(first) \in Nat
  <2> HIDE DEF first
  <2> QED
    BY <1>2, <1>5, FS_Subset, FS_CardinalityType
<1>7. Cardinality(first) <= k
  <2>1. CASE first = {}
    <3>1. Cardinality(first) = 0
      BY <2>1, FS_EmptySet, Zenon
    <3> QED
      BY <3>1
  <2>2. CASE first # {}
    <3>1. first \subseteq Nat /\ \A i \in first : i <= Len(q[n])
      <4>1. \A i \in W : i \in 1 .. Len(q[n])
        BY <1>2
      <4> QED
        BY <1>1, <1>5, <4>1
    <3> DEFINE m == Max(first)
    <3>2. m \in first /\ \A i \in first : m >= i
      <4> HIDE DEF first
      <4> QED
        BY <1>1, <2>2, <3>1, Greatest
    <3> HIDE DEF m
    <3>3. first \in SUBSET upto(m)
      <4>1. \A i \in first : i \in W /\ i \in Nat /\ m \in Nat /\ m >= i
        BY <3>1, <3>2
      <4> HIDE DEF first
      <4> QED
        BY <4>1
    <3>4. IsFiniteSet(upto(m)) /\ Cardinality(upto(m)) \in Nat /\ Cardinality(upto(m)) <= k
      BY <1>4, <3>2
    <3>5. Cardinality(first) <= Cardinality(upto(m))
      <4> HIDE DEF first, upto
      <4> QED
        BY <3>3, <3>4, FS_Subset
    <3> QED
      BY <1>6, <3>4, <3>5
  <2> QED
    BY <2>1, <2>2
<1>8. IsFiniteSet(H) /\ Cardinality(H) = Cardinality(first)
  <2> DEFINE b == [i \in first |-> q[n][i]]
  <2>1. \A i, j \in first : q[n][i] = q[n][j] => i = j
    <3>1. \A i \in first : i \in DOMAIN q[n]
      BY <1>1, <1>2, <1>5
    <3> HIDE DEF first
    <3> QED
      BY <3>1
  <2> HIDE DEF first
  <2>2. b \in Bijection(first, H)
    BY <1>3, <2>1 DEF Bijection, Injection, Surjection, IsInjective
  <2>3. ExistsBijection(first, H)
    BY <2>2 DEF ExistsBijection
  <2> QED
    BY <1>6, <2>3, FS_Bijection
<1>9. \A a \in H : \E i \in DOMAIN q[n] : q[n][i] = a /\ a \notin g
  BY <1>3, <1>5 DEF W, Ungranted
<1>10. ASSUME Cardinality(H) < k, NEW i \in W, q[n][i] \notin H PROVE FALSE
  <2>1. W \ first # {} /\ W \ first \subseteq Nat
    <3>1. i \notin first
      BY <1>3, <1>10
    <3>2. \A j \in W : j \in Nat
      BY <1>1, <1>2
    <3> HIDE DEF first
    <3> QED
      BY <1>10, <3>1, <3>2
  <2>2. PICK m \in W \ first : \A j \in W \ first : m <= j
    <3> HIDE DEF first
    <3> QED
      BY <2>1, Least
  <2>3. m \in W /\ ~(Cardinality(upto(m)) <= k)
    BY <2>2
  <2>4. upto(m) \in SUBSET (first \cup {m})
    <3>1. \A j \in W : j \in Nat
      BY <1>1, <1>2
    <3>2. \A j \in upto(m) : j \in W /\ j \in Nat /\ m \in Nat /\ j <= m
      BY <2>3, <3>1
    <3> HIDE DEF first, upto
    <3> QED
      BY <2>2, <3>2
  <2>5. IsFiniteSet(first \cup {m}) /\ Cardinality(first \cup {m}) <= Cardinality(first) + 1
        /\ Cardinality(first \cup {m}) \in Nat
    <3> HIDE DEF first
    <3> QED
      BY <1>6, FS_AddElement, FS_CardinalityType
  <2>6. Cardinality(upto(m)) <= Cardinality(first \cup {m})
    <3> HIDE DEF first, upto
    <3> QED
      BY <2>4, <2>5, FS_Subset
  <2>7. Cardinality(upto(m)) \in Nat
    BY <1>4, <2>3
  <2> HIDE DEF first, upto
  <2> QED
    BY <1>6, <1>8, <1>10, <2>3, <2>5, <2>6, <2>7
<1> HIDE DEF first
<1> QED
  BY <1>6, <1>7, <1>8, <1>9, <1>10 DEF W, H

(* Handing slots on keeps the balance, and then no slot is free for which  *)
(* a task waits.                                                           *)
LEMMA SettleBalances ==
    ASSUME NEW f, NEW q, NEW g, NEW ph, NEW gt, Balanced(f, q, g, ph, gt), Settle(f, q, g)
    PROVE  Balanced(free', queue', granted', ph, gt) /\ NoneIdle(free', queue', granted')
<1> DEFINE H(n) == Handing(n, f, q, g)
           all == UNION {H(n) : n \in Sems}
<1>1. /\ free' = [n \in Sems |-> f[n] - Cardinality(H(n))] /\ queue' = q
      /\ granted' = g \cup all
  <2>1. [n \in Sems |-> f[n] - Cardinality([k \in Sems |-> H(k)][n])]
          = [n \in Sems |-> f[n] - Cardinality(H(n))]
    <3> HIDE DEF H
    <3> QED
      OBVIOUS
  <2>2. UNION {[k \in Sems |-> H(k)][n] : n \in Sems} = all
    <3> HIDE DEF H
    <3> QED
      OBVIOUS
  <2> QED
    BY <2>1, <2>2, Zenon DEF Settle
<1>2. /\ f \in [Sems -> Nat] /\ q \in [Sems -> Seq(Activities)]
      /\ g \subseteq Activities /\ gt \in [Activities -> Nat] /\ ph \in [Activities -> Phases]
      /\ Queued(q, ph, gt) /\ Acquiring(g, ph, gt)
      /\ \A n \in Sems : f[n] + Cardinality(TakenIn(n, g, gt)) = Capacity[n]
  BY DEF Balanced
<1>3. ASSUME NEW n \in Sems
      PROVE  /\ IsFiniteSet(H(n)) /\ Cardinality(H(n)) \in 0 .. f[n]
             /\ \A a \in H(n) : /\ a \in Activities /\ a \notin g /\ ph[a] = "waiting"
                                /\ Units[a][gt[a] + 1] = n
             /\ Cardinality(H(n)) < f[n] => \A i \in Ungranted(n, q, g) : q[n][i] \in H(n)
  <2>1. f[n] \in Nat /\ q[n] \in Seq(Activities)
    BY <1>2
  <2>2. \A i \in DOMAIN q[n] : /\ ph[q[n][i]] = "waiting" /\ Units[q[n][i]][gt[q[n][i]] + 1] = n
                               /\ q[n][i] \in Activities
                               /\ \A j \in DOMAIN q[n] : q[n][i] = q[n][j] => i = j
    BY <1>2, <2>1 DEF Queued
  <2>3. LET S == H(n)
        IN /\ IsFiniteSet(S) /\ Cardinality(S) \in 0 .. f[n]
           /\ \A a \in S : \E i \in DOMAIN q[n] : q[n][i] = a /\ a \notin g
           /\ Cardinality(S) < f[n] => \A i \in Ungranted(n, q, g) : q[n][i] \in S
    BY <2>1, <2>2, HandsOutFirst
  <2> HIDE DEF H
  <2> QED
    BY <2>2, <2>3
<1> HIDE DEF H
<1>4. granted' \subseteq Activities /\ free' \in [Sems -> Nat]
  <2>1. \A n \in Sems : f[n] - Cardinality(H(n)) \in Nat
    BY <1>2, <1>3
  <2> QED
    BY <1>1, <1>2, <1>3, <2>1
<1>5. Acquiring(granted', ph, gt)
  BY <1>1, <1>2, <1>3 DEF Acquiring
<1>6. ASSUME NEW n \in Sems
      PROVE  free'[n] + Cardinality(TakenIn(n, granted', gt)) = Capacity[n]
  <2> DEFINE T == TakenIn(n, g, gt)
             New == {<<a, gt[a] + 1>> : a \in H(n)}
             b == [a \in H(n) |-> <<a, gt[a] + 1>>]
  <2>1. TakenIn(n, granted', gt) = T \cup New
    <3>1. ASSUME NEW a \in Activities
          PROVE  PairsOf(n, a, 1, HeldBy(a, granted', gt)) =
                   PairsOf(n, a, 1, HeldBy(a, g, gt))
                   \cup {p \in {<<a, gt[a] + 1>>} : a \in H(n)}
      <4>1. gt[a] \in Nat
        BY <1>2
      <4>2. CASE a \in granted' \ g
        <5>1. PICK m \in Sems : a \in H(m)
          BY <1>1, <4>2
        <5>2. Units[a][gt[a] + 1] = m /\ (a \in H(n) <=> m = n)
          BY <1>3, <5>1
        <5>3. HeldBy(a, granted', gt) = gt[a] + 1 /\ HeldBy(a, g, gt) = gt[a]
          BY <4>1, <4>2 DEF HeldBy
        <5> QED
          BY <4>1, <5>2, <5>3 DEF PairsOf
      <4>3. CASE ~(a \in granted' \ g)
        <5>1. a \notin H(n)
          BY <1>1, <1>3, <4>3
        <5>2. HeldBy(a, granted', gt) = HeldBy(a, g, gt)
          BY <1>1, <4>3 DEF HeldBy
        <5> QED
          BY <5>1, <5>2
      <4> QED
        BY <4>2, <4>3
    <3>2. \A a \in H(n) : a \in Activities
      BY <1>3
    <3> QED
      BY <3>1, <3>2 DEF TakenIn
  <2>2. T \cap New = {}
    <3>1. SUFFICES ASSUME NEW a \in H(n), NEW c \in Activities,
                          <<a, gt[a] + 1>> \in PairsOf(n, c, 1, HeldBy(c, g, gt))
                   PROVE  FALSE
      BY DEF TakenIn
    <3>2. c = a /\ a \notin g /\ gt[a] \in Nat /\ gt[a] + 1 \in 1 .. HeldBy(a, g, gt)
      BY <1>2, <1>3, <3>1 DEF PairsOf
    <3> QED
      BY <3>2 DEF HeldBy
  <2>3. IsFiniteSet(New) /\ Cardinality(New) = Cardinality(H(n))
    <3>1. b \in Bijection(H(n), New)
      BY DEF Bijection, Injection, Surjection, IsInjective
    <3>2. ExistsBijection(H(n), New)
      BY <3>1 DEF ExistsBijection
    <3>3. IsFiniteSet(H(n))
      BY <1>3
    <3> HIDE DEF New
    <3> QED
      BY <3>2, <3>3, FS_Bijection
  <2>4. IsFiniteSet(T)
    <3>1. CASE Activities = {}
      <4>1. T = {}
        BY <3>1 DEF TakenIn
      <4> QED
        BY <4>1, FS_EmptySet, Zenon
    <3>2. CASE Activities # {}
      BY <1>2, <3>2, TakenSplits
    <3> QED
      BY <3>1, <3>2
  <2> HIDE DEF T, New
  <2>5. Cardinality(T \cup New) = Cardinality(T) + Cardinality(New) - Cardinality(T \cap New)
    BY <2>3, <2>4, FS_Union
  <2>6. Cardinality(T \cap New) = 0
    BY <2>2, FS_EmptySet, Zenon
  <2>7. Cardinality(TakenIn(n, granted', gt)) = Cardinality(T \cup New)
    BY <2>1, Zenon
  <2>8. Cardinality(T) \in Nat /\ Cardinality(H(n)) \in 0 .. f[n] /\ f[n] \in Nat
    BY <1>2, <1>3, <2>4, FS_CardinalityType
  <2>9. free'[n] = f[n] - Cardinality(H(n))
    BY <1>1
  <2>10. f[n] + Cardinality(T) = Capacity[n]
    BY <1>2 DEF T
  <2> QED
    BY <2>3, <2>5, <2>6, <2>7, <2>8, <2>9, <2>10
<1>7. NoneIdle(free', queue', granted')
  <2> SUFFICES ASSUME NEW n \in Sems, free'[n] > 0, NEW i \in Ungranted(n, queue', granted')
               PROVE  FALSE
    BY DEF NoneIdle
  <2>1. Cardinality(H(n)) < f[n]
    BY <1>1, <1>2, <1>3
  <2>2. i \in Ungranted(n, q, g) /\ q[n][i] \notin all
    BY <1>1 DEF Ungranted
  <2> QED
    BY <1>3, <2>1, <2>2
<1> QED
  BY <1>1, <1>2, <1>4, <1>5, <1>6, <1>7 DEF Balanced

(* What leaves a queue in which it is once is gone, the rest stays.        *)
LEMMA RemoveFirstLeaves ==
    ASSUME NEW S, NEW s \in Seq(S), NEW e,
           \A i, j \in DOMAIN s : s[i] = s[j] => i = j,
           \E i \in DOMAIN s : s[i] = e
    PROVE  LET r == RemoveFirst(s, e)
           IN /\ r \in Seq(S)
              /\ \A i, j \in DOMAIN r : r[i] = r[j] => i = j
              /\ \A i \in DOMAIN r : r[i] # e /\ \E k \in DOMAIN s : s[k] = r[i]
              /\ \A k \in DOMAIN s : s[k] # e => \E i \in DOMAIN r : r[i] = s[k]
<1> DEFINE n == Len(s)
           I == {i \in 1 .. n : s[i] = e}
           r == RemoveFirst(s, e)
<1>1. n \in Nat /\ DOMAIN s = 1 .. n /\ \A i \in 1 .. n : s[i] \in S
  OBVIOUS
<1>2. PICK m \in 1 .. n : s[m] = e
  BY <1>1
<1>3. I = {m}
  BY <1>1, <1>2
<1>4. Min(I) = m
  <2>1. \A x : x \in I <=> x = m
    BY <1>3
  <2>2. m \in I /\ \A y \in I : m <= y
    BY <1>2, <2>1
  <2> HIDE DEF I
  <2> QED
    BY <2>1, <2>2 DEF Min
<1>5. r = RemoveAt(s, m)
  <2>1. SelectInSeq(s, LAMBDA v : v = e) = m
    <3>1. SelectInSeq(s, LAMBDA v : v = e) = IF I # {} THEN Min(I) ELSE 0
      BY DEF SelectInSeq
    <3>2. I # {}
      BY <1>3
    <3> QED
      BY <1>4, <3>1, <3>2, Zenon
  <2> QED
    BY <1>2, <2>1, Zenon DEF RemoveFirst
<1> DEFINE before == SubSeq(s, 1, m - 1)
           rest == SubSeq(s, m + 1, n)
<1>6. r = before \o rest
  BY <1>5 DEF RemoveAt
<1>7. /\ before \in Seq(S) /\ Len(before) = m - 1
      /\ \A i \in 1 .. m - 1 : before[i] = s[i]
  <2>1. \A i \in 1 .. m - 1 : s[i] \in S
    BY <1>1, <1>2
  <2>2. /\ before \in Seq(S) /\ Len(before) = IF 1 <= m - 1 THEN m - 1 - 1 + 1 ELSE 0
        /\ \A i \in 1 .. m - 1 - 1 + 1 : before[i] = s[1 + i - 1]
    BY <1>2, <2>1, SubSeqProperties
  <2> HIDE DEF before
  <2> QED
    BY <1>2, <2>2
<1>8. /\ rest \in Seq(S) /\ Len(rest) = n - m
      /\ \A i \in 1 .. n - m : rest[i] = s[m + i]
  <2>1. \A i \in m + 1 .. n : s[i] \in S
    BY <1>1, <1>2
  <2>2. /\ rest \in Seq(S) /\ Len(rest) = IF m + 1 <= n THEN n - (m + 1) + 1 ELSE 0
        /\ \A i \in 1 .. n - (m + 1) + 1 : rest[i] = s[m + 1 + i - 1]
    BY <1>1, <1>2, <2>1, SubSeqProperties
  <2> HIDE DEF rest, n
  <2>3. m \in Nat /\ n \in Nat /\ m <= n
    BY <1>1, <1>2
  <2>4. Len(rest) = n - m
    BY <2>2, <2>3
  <2>5. ASSUME NEW i \in 1 .. n - m PROVE rest[i] = s[m + i]
    <3>1. i \in 1 .. n - (m + 1) + 1 /\ m + 1 + i - 1 = m + i
      BY <2>3
    <3>2. rest[i] = s[m + 1 + i - 1]
      BY <2>2, <3>1
    <3> QED
      BY <3>1, <3>2
  <2> QED
    BY <2>2, <2>4, <2>5
<1> HIDE DEF r, before, rest, I, n
<1>a. m \in Nat /\ n \in Nat /\ 1 <= m /\ m <= n
  BY <1>1, <1>2
<1>9. /\ r \in Seq(S) /\ DOMAIN r = 1 .. n - 1
      /\ \A i \in 1 .. n - 1 : r[i] = s[IF i < m THEN i ELSE i + 1]
  <2>0. Len(before) + Len(rest) = n - 1 /\ Len(before) \in Nat /\ Len(rest) \in Nat
    BY <1>7, <1>8, <1>a
  <2>1. /\ r \in Seq(S) /\ Len(r) = n - 1
        /\ \A i \in 1 .. n - 1 :
              r[i] = IF i <= Len(before) THEN before[i] ELSE rest[i - Len(before)]
    <3>1. /\ r \in Seq(S) /\ Len(r) = Len(before) + Len(rest)
          /\ \A i \in 1 .. Len(before) + Len(rest) :
                r[i] = IF i <= Len(before) THEN before[i] ELSE rest[i - Len(before)]
      <4>1. before \in Seq(S) /\ rest \in Seq(S)
        BY <1>7, <1>8
      <4> QED
        BY <1>6, <4>1, ConcatProperties, Zenon
    <3> QED
      BY <2>0, <3>1
  <2>2. ASSUME NEW i \in 1 .. n - 1 PROVE r[i] = s[IF i < m THEN i ELSE i + 1]
    <3>0. i \in Nat /\ 1 <= i /\ i <= n - 1
      BY <1>a
    <3>1. CASE i < m
      <4>1. i \in 1 .. m - 1 /\ i <= Len(before)
        BY <1>7, <1>a, <3>0, <3>1
      <4> QED
        BY <1>7, <2>1, <3>1, <4>1
    <3>2. CASE ~(i < m)
      <4>1. /\ ~(i <= Len(before)) /\ i - Len(before) \in 1 .. n - m
            /\ m + (i - Len(before)) = i + 1
        BY <1>7, <1>a, <3>0, <3>2
      <4>2. r[i] = rest[i - Len(before)]
        BY <2>1, <4>1
      <4>3. rest[i - Len(before)] = s[m + (i - Len(before))]
        BY <1>8, <4>1
      <4> QED
        BY <3>2, <4>1, <4>2, <4>3
    <3> QED
      BY <3>1, <3>2
  <2>3. DOMAIN r = 1 .. n - 1
    BY <2>1
  <2> QED
    BY <2>1, <2>2, <2>3
<1> DEFINE place(i) == IF i < m THEN i ELSE i + 1
<1>b. \A i \in 1 .. n - 1 : place(i) \in 1 .. n /\ place(i) # m /\ r[i] = s[place(i)]
  BY <1>9, <1>a
<1>c. \A i, j \in 1 .. n - 1 : place(i) = place(j) => i = j
  BY <1>a
<1>d. \A k \in 1 .. n : k # m => \E i \in 1 .. n - 1 : place(i) = k
  <2>1. TAKE k \in 1 .. n
  <2>2. CASE k < m
    <3>1. k \in 1 .. n - 1 /\ place(k) = k
      BY <1>a, <2>2
    <3> QED
      BY <3>1
  <2>3. CASE k > m
    <3>1. k - 1 \in 1 .. n - 1 /\ place(k - 1) = k
      BY <1>a, <2>3
    <3> QED
      BY <3>1
  <2> QED
    BY <1>a, <2>2, <2>3
<1> HIDE DEF place
<1>10. \A i, j \in DOMAIN r : r[i] = r[j] => i = j
  BY <1>1, <1>9, <1>b, <1>c
<1>11. \A i \in DOMAIN r : r[i] # e /\ \E k \in DOMAIN s : s[k] = r[i]
  BY <1>1, <1>2, <1>9, <1>b
<1>12. \A k \in DOMAIN s : s[k] # e => \E i \in DOMAIN r : r[i] = s[k]
  BY <1>1, <1>2, <1>9, <1>b, <1>d
<1> QED
  BY <1>9, <1>10, <1>11, <1>12 DEF r

(* The state of the semaphores without a task that is at hand              *)
Apart(a, q, g) ==
    /\ q \in [Sems -> Seq(Activities)] /\ g \subseteq Activities \ {a}
    /\ got \in [Activities -> Nat] /\ phase \in [Activities -> Phases]
    /\ \A n \in Sems : \A i \in DOMAIN q[n] :
          /\ q[n][i] # a /\ phase[q[n][i]] = "waiting" /\ Units[q[n][i]][got[q[n][i]] + 1] = n
          /\ \A j \in DOMAIN q[n] : q[n][i] = q[n][j] => i = j
    /\ \A b \in Activities \ {a} :
          /\ phase[b] = "waiting" =>
                \E i \in DOMAIN q[Units[b][got[b] + 1]] : q[Units[b][got[b] + 1]][i] = b
          /\ b \in g => phase[b] = "waiting"
          /\ phase[b] = "waiting" => got[b] < Len(Units[b])
          /\ phase[b] = "executing" => got[b] = Len(Units[b])
          /\ phase[b] \notin {"waiting", "executing"} => got[b] = 0

Account(f, a, g, k) ==
    \A n \in Sems :
        /\ Cardinality(Others(n, a, g, got)) \in Nat
        /\ f[n] + Cardinality(Others(n, a, g, got)) + CountOf(n, a, 1, k) = Capacity[n]

LEMMA TakenApart ==
    ASSUME NEW a \in Activities, Balanced(free, queue, granted, phase, got),
           NEW q, q = IF phase[a] = "waiting" THEN Leave(a) ELSE queue
    PROVE  /\ Apart(a, q, granted \ {a})
           /\ Account(free, a, granted \ {a}, HeldBy(a, granted, got))
<1> DEFINE g == granted \ {a}
<1>1. /\ free \in [Sems -> Nat] /\ queue \in [Sems -> Seq(Activities)]
      /\ granted \subseteq Activities /\ got \in [Activities -> Nat]
      /\ phase \in [Activities -> Phases]
      /\ Queued(queue, phase, got) /\ Acquiring(granted, phase, got)
      /\ \A n \in Sems : free[n] + Cardinality(TakenIn(n, granted, got)) = Capacity[n]
  BY DEF Balanced
<1>2. Account(free, a, g, HeldBy(a, granted, got))
  <2>1. SUFFICES ASSUME NEW n \in Sems
                 PROVE  /\ Cardinality(Others(n, a, g, got)) \in Nat
                        /\ free[n] + Cardinality(Others(n, a, g, got))
                             + CountOf(n, a, 1, HeldBy(a, granted, got)) = Capacity[n]
    BY DEF Account
  <2>2. Others(n, a, g, got) = Others(n, a, granted, got)
    BY DEF Others, HeldBy
  <2>3. /\ Cardinality(TakenIn(n, granted, got)) =
             Cardinality(Others(n, a, granted, got)) + CountOf(n, a, 1, HeldBy(a, granted, got))
        /\ Cardinality(Others(n, a, granted, got)) \in Nat /\ HeldBy(a, granted, got) \in Nat
    BY <1>1, TakenSplits
  <2>4. CountOf(n, a, 1, HeldBy(a, granted, got)) \in Nat
    BY <2>3, CountsPairs
  <2>5. Cardinality(Others(n, a, g, got)) = Cardinality(Others(n, a, granted, got))
    BY <2>2, Zenon
  <2> HIDE DEF g
  <2> QED
    BY <1>1, <2>3, <2>4, <2>5
<1>3. Apart(a, q, g)
  <2>1. CASE phase[a] # "waiting"
    <3>1. q = queue /\ a \notin granted
      BY <1>1, <2>1 DEF Acquiring
    <3> QED
      BY <1>1, <2>1, <3>1 DEF Apart, Queued, Acquiring
  <2>2. CASE phase[a] = "waiting"
    <3> DEFINE m == Units[a][got[a] + 1]
    <3>1. got[a] \in Nat /\ got[a] < Len(Units[a]) /\ Units[a] \in Seq(Sems)
          /\ Len(Units[a]) \in Nat
      BY <1>1, <2>2, UnitsType DEF Acquiring
    <3>2. m \in Sems
      BY <3>1
    <3>3. q = [queue EXCEPT ![m] = RemoveFirst(queue[m], a)]
      BY <2>2 DEF Leave, WaitsFor
    <3> DEFINE r == RemoveFirst(queue[m], a)
    <3>4. /\ r \in Seq(Activities)
          /\ \A i, j \in DOMAIN r : r[i] = r[j] => i = j
          /\ \A i \in DOMAIN r : r[i] # a /\ \E k \in DOMAIN queue[m] : queue[m][k] = r[i]
          /\ \A k \in DOMAIN queue[m] : queue[m][k] # a => \E i \in DOMAIN r : r[i] = queue[m][k]
      <4>1. /\ queue[m] \in Seq(Activities)
            /\ \A i, j \in DOMAIN queue[m] : queue[m][i] = queue[m][j] => i = j
            /\ \E i \in DOMAIN queue[m] : queue[m][i] = a
        BY <1>1, <2>2, <3>2 DEF Queued
      <4> HIDE DEF m
      <4> QED
        BY <4>1, RemoveFirstLeaves
    <3>5. \A n \in Sems \ {m} : q[n] = queue[n]
      BY <1>1, <3>2, <3>3
    <3>6. q[m] = r /\ q \in [Sems -> Seq(Activities)]
      <4>1. r \in Seq(Activities) /\ q = [queue EXCEPT ![m] = r]
        BY <3>3, <3>4
      <4> HIDE DEF r, m
      <4> QED
        BY <1>1, <3>2, <4>1
    <3> HIDE DEF r
    <3>7. ASSUME NEW n \in Sems, NEW i \in DOMAIN q[n]
          PROVE  /\ q[n][i] # a /\ phase[q[n][i]] = "waiting"
                 /\ Units[q[n][i]][got[q[n][i]] + 1] = n
                 /\ \A j \in DOMAIN q[n] : q[n][i] = q[n][j] => i = j
      <4>1. CASE n = m
        <5>1. q[n] = r /\ i \in DOMAIN r
          BY <3>6, <4>1
        <5>2. PICK k \in DOMAIN queue[m] : queue[m][k] = r[i]
          BY <3>4, <5>1
        <5>3. phase[queue[m][k]] = "waiting" /\ Units[queue[m][k]][got[queue[m][k]] + 1] = m
          BY <1>1, <3>2 DEF Queued
        <5> HIDE DEF m
        <5> QED
          BY <3>4, <4>1, <5>1, <5>2, <5>3
      <4>2. CASE n # m
        <5>1. q[n] = queue[n]
          BY <3>5, <4>2
        <5>2. queue[n][i] # a
          BY <1>1, <4>2, <5>1 DEF Queued
        <5> QED
          BY <1>1, <5>1, <5>2 DEF Queued
      <4> QED
        BY <4>1, <4>2
    <3>8. ASSUME NEW b \in Activities \ {a}, phase[b] = "waiting"
          PROVE  \E i \in DOMAIN q[Units[b][got[b] + 1]] : q[Units[b][got[b] + 1]][i] = b
      <4> DEFINE n == Units[b][got[b] + 1]
      <4>1. got[b] \in Nat /\ got[b] < Len(Units[b]) /\ Units[b] \in Seq(Sems)
            /\ Len(Units[b]) \in Nat
        BY <1>1, <3>8, UnitsType DEF Acquiring
      <4>2. n \in Sems
        BY <4>1
      <4>3. PICK k \in DOMAIN queue[n] : queue[n][k] = b
        BY <1>1, <3>8 DEF Queued
      <4> HIDE DEF n, m
      <4>4. CASE n = m
        BY <3>4, <3>6, <4>3, <4>4 DEF n
      <4>5. CASE n # m
        BY <3>5, <4>2, <4>3, <4>5 DEF n
      <4> QED
        BY <4>4, <4>5
    <3> QED
      BY <1>1, <3>6, <3>7, <3>8 DEF Apart, Acquiring
  <2> QED
    BY <2>1, <2>2
<1> QED
  BY <1>2, <1>3

(* The task comes back with the slots it took.                             *)
LEMMA Rejoins ==
    ASSUME NEW a \in Activities, NEW q, NEW g, Apart(a, q, g), NEW f \in [Sems -> Nat],
           NEW h \in 0 .. Len(Units[a]), Account(f, a, g, h), NEW p, NEW q2,
           \/ p = "waiting" /\ h < Len(Units[a])
              /\ q2 = [q EXCEPT ![Units[a][h + 1]] = Append(@, a)]
           \/ p = "executing" /\ h = Len(Units[a]) /\ q2 = q
           \/ p = "done" /\ h = 0 /\ q2 = q
    PROVE  Balanced(f, q2, g, [phase EXCEPT ![a] = p], [got EXCEPT ![a] = h])
<1> DEFINE ph == [phase EXCEPT ![a] = p]
           gt == [got EXCEPT ![a] = h]
<1>0. Units[a] \in Seq(Sems) /\ Len(Units[a]) \in Nat \ {0}
  BY UnitsType
<1>1. /\ q \in [Sems -> Seq(Activities)] /\ g \subseteq Activities \ {a}
      /\ got \in [Activities -> Nat] /\ phase \in [Activities -> Phases]
  BY DEF Apart
<1>2. /\ gt \in [Activities -> Nat] /\ ph \in [Activities -> Phases]
      /\ ph[a] = p /\ gt[a] = h
      /\ \A b \in Activities \ {a} : ph[b] = phase[b] /\ gt[b] = got[b]
  <2>1. p \in Phases /\ h \in Nat
    BY <1>0 DEF Phases
  <2> QED
    BY <1>1, <2>1
<1>a. h \in Nat /\ h <= Len(Units[a])
  BY <1>0
<1>b. \/ /\ p = "waiting" /\ h < Len(Units[a])
         /\ q2 = [q EXCEPT ![Units[a][h + 1]] = Append(@, a)]
      \/ p = "executing" /\ h = Len(Units[a]) /\ q2 = q
      \/ p = "done" /\ h = 0 /\ q2 = q
  OBVIOUS
<1>c. \A n \in Sems : \A i \in DOMAIN q[n] :
          /\ q[n][i] \in Activities \ {a} /\ phase[q[n][i]] = "waiting"
          /\ Units[q[n][i]][got[q[n][i]] + 1] = n
          /\ \A j \in DOMAIN q[n] : q[n][i] = q[n][j] => i = j
  <2>1. \A n \in Sems : \A i \in DOMAIN q[n] : q[n][i] \in Activities
    BY <1>1
  <2> QED
    BY <2>1 DEF Apart
<1>d. \A b \in Activities \ {a} :
          /\ phase[b] = "waiting" =>
                \E i \in DOMAIN q[Units[b][got[b] + 1]] : q[Units[b][got[b] + 1]][i] = b
          /\ phase[b] = "waiting" => got[b] < Len(Units[b])
  BY DEF Apart
<1> HIDE DEF ph, gt
<1>3. Acquiring(g, ph, gt)
  BY <1>1, <1>2 DEF Apart, Acquiring
<1>4. ASSUME NEW n \in Sems PROVE f[n] + Cardinality(TakenIn(n, g, gt)) = Capacity[n]
  <2>1. Others(n, a, g, gt) = Others(n, a, g, got)
    BY <1>2 DEF Others, HeldBy
  <2>2. HeldBy(a, g, gt) = h
    BY <1>0, <1>1, <1>2 DEF HeldBy
  <2>3. /\ Cardinality(TakenIn(n, g, gt)) = Cardinality(Others(n, a, g, gt)) + CountOf(n, a, 1, h)
        /\ Cardinality(Others(n, a, g, gt)) \in Nat
    BY <1>2, <2>2, TakenSplits
  <2>4. CountOf(n, a, 1, h) \in Nat
    BY <1>0, CountsPairs
  <2>5. Cardinality(Others(n, a, g, gt)) = Cardinality(Others(n, a, g, got))
    BY <2>1, Zenon
  <2>6. f[n] + Cardinality(Others(n, a, g, got)) + CountOf(n, a, 1, h) = Capacity[n] /\ f[n] \in Nat
    BY DEF Account
  <2> QED
    BY <2>3, <2>4, <2>5, <2>6
<1>5. Queued(q2, ph, gt) /\ q2 \in [Sems -> Seq(Activities)]
  <2>1. CASE q2 = q /\ p # "waiting"
    <3>1. ASSUME NEW n \in Sems, NEW i \in DOMAIN q[n]
          PROVE  /\ ph[q[n][i]] = "waiting" /\ Units[q[n][i]][gt[q[n][i]] + 1] = n
                 /\ \A j \in DOMAIN q[n] : q[n][i] = q[n][j] => i = j
      <4>1. ph[q[n][i]] = phase[q[n][i]] /\ gt[q[n][i]] = got[q[n][i]]
        BY <1>2, <1>c
      <4> QED
        BY <1>c, <4>1
    <3>2. ASSUME NEW b \in Activities, ph[b] = "waiting"
          PROVE  \E i \in DOMAIN q[Units[b][gt[b] + 1]] : q[Units[b][gt[b] + 1]][i] = b
      <4>1. b # a /\ phase[b] = "waiting" /\ gt[b] = got[b]
        BY <1>2, <2>1, <3>2
      <4> QED
        BY <1>d, <4>1
    <3> QED
      BY <1>1, <2>1, <3>1, <3>2 DEF Queued
  <2>2. CASE /\ p = "waiting" /\ h < Len(Units[a])
             /\ q2 = [q EXCEPT ![Units[a][h + 1]] = Append(@, a)]
    <3> DEFINE m == Units[a][h + 1]
               r == Append(q[m], a)
               l == Len(q[m])
    <3>1. m \in Sems
      BY <1>0, <1>a, <2>2
    <3>2. q[m] \in Seq(Activities) /\ DOMAIN q[m] = 1 .. l /\ l \in Nat
      BY <1>1, <3>1
    <3>3. /\ r \in Seq(Activities) /\ DOMAIN r = 1 .. l + 1 /\ r[l + 1] = a
          /\ \A i \in 1 .. l : r[i] = q[m][i]
      <4> HIDE DEF m
      <4> QED
        BY <3>2, AppendProperties
    <3>4. q2[m] = r /\ (\A n \in Sems \ {m} : q2[n] = q[n]) /\ q2 \in [Sems -> Seq(Activities)]
      <4>1. q2 = [q EXCEPT ![m] = r]
        BY <2>2
      <4> HIDE DEF m, r
      <4> QED
        BY <1>1, <3>1, <3>3, <4>1
    <3>a. Units[a][h + 1] = m
      OBVIOUS
    <3> HIDE DEF m, r, l
    <3>5. \A i \in 1 .. l : /\ q[m][i] \in Activities \ {a} /\ phase[q[m][i]] = "waiting"
                            /\ Units[q[m][i]][got[q[m][i]] + 1] = m
                            /\ \A j \in 1 .. l : q[m][i] = q[m][j] => i = j
      BY <1>c, <3>1, <3>2
    <3>6. ASSUME NEW n \in Sems, NEW i \in DOMAIN q2[n]
          PROVE  /\ ph[q2[n][i]] = "waiting" /\ Units[q2[n][i]][gt[q2[n][i]] + 1] = n
                 /\ \A j \in DOMAIN q2[n] : q2[n][i] = q2[n][j] => i = j
      <4>1. CASE n # m
        <5>1. q2[n] = q[n] /\ q[n][i] \in Activities \ {a}
          BY <1>c, <3>4, <4>1
        <5>2. ph[q[n][i]] = phase[q[n][i]] /\ gt[q[n][i]] = got[q[n][i]]
          BY <1>2, <5>1
        <5> QED
          BY <1>c, <5>1, <5>2
      <4>2. CASE n = m /\ i = l + 1
        <5>1. q2[n] = r /\ q2[n][i] = a
          BY <3>3, <3>4, <4>2
        <5>2. ASSUME NEW j \in DOMAIN q2[n], q2[n][j] = a PROVE j = i
          <6>1. j \in 1 .. l + 1 /\ r[j] = a
            BY <3>3, <5>1, <5>2
          <6>2. j \notin 1 .. l
            BY <3>3, <3>5, <6>1
          <6> QED
            BY <3>2, <4>2, <6>1, <6>2
        <5>3. ph[a] = "waiting" /\ Units[a][gt[a] + 1] = n
          BY <1>2, <2>2, <3>a, <4>2
        <5> QED
          BY <5>1, <5>2, <5>3
      <4>3. CASE n = m /\ i # l + 1
        <5>1. q2[n] = r /\ i \in 1 .. l /\ r[i] = q[m][i]
          BY <3>2, <3>3, <3>4, <4>3
        <5>2. ph[q[m][i]] = "waiting" /\ Units[q[m][i]][gt[q[m][i]] + 1] = n
          BY <1>2, <3>5, <4>3, <5>1
        <5>3. ASSUME NEW j \in DOMAIN q2[n], q2[n][i] = q2[n][j] PROVE i = j
          <6>1. j \in 1 .. l + 1 /\ r[j] = q[m][i]
            BY <3>3, <5>1, <5>3
          <6>2. j # l + 1
            BY <3>3, <3>5, <5>1, <6>1
          <6>3. j \in 1 .. l
            BY <3>2, <6>1, <6>2
          <6>4. q[m][i] = q[m][j]
            BY <3>3, <6>1, <6>3
          <6> QED
            BY <3>5, <5>1, <6>3, <6>4
        <5> QED
          BY <5>1, <5>2, <5>3
      <4> QED
        BY <4>1, <4>2, <4>3
    <3>7. ASSUME NEW b \in Activities, ph[b] = "waiting"
          PROVE  \E i \in DOMAIN q2[Units[b][gt[b] + 1]] : q2[Units[b][gt[b] + 1]][i] = b
      <4>1. CASE b = a
        <5>1. Units[b][gt[b] + 1] = m /\ q2[m] = r /\ l + 1 \in DOMAIN r /\ r[l + 1] = b
          BY <1>2, <3>a, <3>2, <3>3, <3>4, <4>1
        <5> QED
          BY <5>1
      <4>2. CASE b # a
        <5> DEFINE n == Units[b][got[b] + 1]
        <5>1. gt[b] = got[b] /\ phase[b] = "waiting" /\ got[b] < Len(Units[b])
          BY <1>2, <1>d, <3>7, <4>2
        <5>2. n \in Sems
          <6>1. Units[b] \in Seq(Sems) /\ Len(Units[b]) \in Nat /\ got[b] \in Nat
            BY <1>1, UnitsType
          <6> QED
            BY <5>1, <6>1
        <5>3. PICK i \in DOMAIN q[n] : q[n][i] = b
          BY <1>d, <4>2, <5>1
        <5>a. Units[b][gt[b] + 1] = n
          BY <5>1
        <5> HIDE DEF n
        <5>4. CASE n = m
          <6>1. i \in 1 .. l /\ i \in DOMAIN r /\ r[i] = b
            BY <3>2, <3>3, <5>3, <5>4
          <6> QED
            BY <3>4, <5>a, <5>4, <6>1
        <5>5. CASE n # m
          BY <3>4, <5>a, <5>2, <5>3, <5>5
        <5> QED
          BY <5>4, <5>5
      <4> QED
        BY <4>1, <4>2
    <3> QED
      BY <3>4, <3>6, <3>7 DEF Queued
  <2> QED
    BY <1>b, <2>1, <2>2
<1>6. g \subseteq Activities
  BY <1>1
<1> QED
  BY <1>2, <1>3, <1>4, <1>5, <1>6 DEF Balanced, ph, gt

(* Slots returned are free again.                                          *)
LEMMA ReturnedAccounts ==
    ASSUME NEW a \in Activities, NEW g, free \in [Sems -> Nat],
           NEW k \in 0 .. Len(Units[a]), Account(free, a, g, k)
    PROVE  Returned(a, k) \in [Sems -> Nat] /\ Account(Returned(a, k), a, g, 0)
<1>1. k \in Int /\ 0 \in Nat
  BY UnitsType
<1>2. ASSUME NEW n \in Sems
      PROVE  /\ Returned(a, k)[n] = free[n] + CountOf(n, a, 1, k)
             /\ CountOf(n, a, 1, k) \in Nat /\ CountOf(n, a, 1, 0) = 0
  <2>1. CountOf(n, a, 0 + 1, 0) = 0
    BY <1>1, NoneCounted
  <2> QED
    BY <1>1, <2>1, CountsPairs DEF Returned
<1>3. Returned(a, k) \in [Sems -> Nat]
  <2>1. \A n \in Sems : free[n] + CountOf(n, a, 1, k) \in Nat
    BY <1>2
  <2> QED
    BY <2>1 DEF Returned
<1>4. ASSUME NEW n \in Sems
      PROVE  /\ Cardinality(Others(n, a, g, got)) \in Nat
             /\ Returned(a, k)[n] + Cardinality(Others(n, a, g, got)) + CountOf(n, a, 1, 0)
                  = Capacity[n]
  <2>1. /\ Cardinality(Others(n, a, g, got)) \in Nat
        /\ free[n] + Cardinality(Others(n, a, g, got)) + CountOf(n, a, 1, k) = Capacity[n]
    BY DEF Account
  <2> QED
    BY <1>2, <2>1
<1> QED
  BY <1>3, <1>4 DEF Account

(* Slots taken without waiting were free, and the first that is not is     *)
(* asked for.                                                              *)
LEMMA TakenAccounts ==
    ASSUME NEW a \in Activities, NEW q, NEW g, free \in [Sems -> Nat],
           NEW k \in 0 .. Len(Units[a]), Account(free, a, g, k),
           NEW j, j = Max(CanTake(a, k, q)),
           NEW f, f = [n \in Sems |-> free[n] - CountOf(n, a, k + 1, j)]
    PROVE  j \in k .. Len(Units[a]) /\ f \in [Sems -> Nat] /\ Account(f, a, g, j)
<1> DEFINE L == Len(Units[a])
           T == CanTake(a, k, q)
<1>1. L \in Nat /\ k \in Nat /\ k <= L
  BY UnitsType
<1>2. /\ T \subseteq k .. L
      /\ \A i \in T : \A n \in Sems : CountOf(n, a, k + 1, i) <= free[n]
  <2>1. ASSUME NEW i \in T, NEW n \in Sems PROVE CountOf(n, a, k + 1, i) <= free[n]
    <3>1. i \in k .. L /\ CountOf(n, a, k + 1, i) <= IF q[n] = <<>> THEN free[n] ELSE 0
      BY DEF CanTake
    <3>2. CountOf(n, a, k + 1, i) \in Nat
      BY <1>1, <3>1, CountsPairs
    <3>3. free[n] \in Nat
      OBVIOUS
    <3> QED
      BY <3>1, <3>2, <3>3
  <2>2. T \subseteq k .. L
    BY DEF CanTake
  <2> HIDE DEF T
  <2> QED
    BY <2>1, <2>2
<1>3. k \in T
  <2>1. \A n \in Sems : CountOf(n, a, k + 1, k) = 0 /\ free[n] \in Nat
    BY <1>1, NoneCounted
  <2>2. k \in k .. L
    BY <1>1
  <2> QED
    BY <2>1, <2>2 DEF CanTake
<1> HIDE DEF T, L
<1>4. j \in T
  <2>1. T \subseteq Nat /\ T # {} /\ \A i \in T : i <= L
    BY <1>1, <1>2, <1>3
  <2>2. Max(T) \in T
    BY <1>1, <2>1, Greatest
  <2> QED
    BY <2>2 DEF T
<1>5. j \in k .. L /\ j \in Nat /\ k <= j
  BY <1>1, <1>2, <1>4
<1>6. ASSUME NEW n \in Sems
      PROVE  /\ f[n] = free[n] - CountOf(n, a, k + 1, j) /\ f[n] \in Nat
             /\ CountOf(n, a, k + 1, j) \in Nat
  <2>1. CountOf(n, a, k + 1, j) <= free[n] /\ free[n] \in Nat
    BY <1>2, <1>4
  <2>2. CountOf(n, a, k + 1, j) \in Nat
    BY <1>1, <1>5, CountsPairs
  <2> QED
    BY <2>1, <2>2
<1>7. f \in [Sems -> Nat]
  BY <1>6
<1>8. ASSUME NEW n \in Sems
      PROVE  /\ Cardinality(Others(n, a, g, got)) \in Nat
             /\ f[n] + Cardinality(Others(n, a, g, got)) + CountOf(n, a, 1, j) = Capacity[n]
  <2> DEFINE o == Cardinality(Others(n, a, g, got))
             c == Capacity[n]
  <2>1. o \in Nat /\ free[n] + o + CountOf(n, a, 1, k) = c
    BY DEF Account
  <2>2. CountOf(n, a, 1, j) = CountOf(n, a, 1, k) + CountOf(n, a, k + 1, j)
    BY <1>1, <1>5, CountsAdd
  <2>3. CountOf(n, a, 1, k) \in Nat /\ free[n] \in Nat
    BY <1>1, CountsPairs
  <2>4. f[n] = free[n] - CountOf(n, a, k + 1, j) /\ CountOf(n, a, k + 1, j) \in Nat
    BY <1>6
  <2> QED
    BY <2>1, <2>2, <2>3, <2>4
<1> QED
  BY <1>5, <1>7, <1>8 DEF Account, L

(* A task that is done has returned all of its slots.                      *)
LEMMA EndsBalanced ==
    ASSUME NEW a \in Activities, NEW q, NEW g, Apart(a, q, g), free \in [Sems -> Nat],
           NEW k \in 0 .. Len(Units[a]), Account(free, a, g, k),
           phase' = [phase EXCEPT ![a] = "done"], got' = [got EXCEPT ![a] = 0],
           Settle(Returned(a, k), q, g)
    PROVE  /\ Balanced(free', queue', granted', phase', got')
           /\ NoneIdle(free', queue', granted')
<1>1. Returned(a, k) \in [Sems -> Nat] /\ Account(Returned(a, k), a, g, 0)
  BY ReturnedAccounts
<1>2. 0 \in 0 .. Len(Units[a])
  BY UnitsType
<1>3. Balanced(Returned(a, k), q, g, [phase EXCEPT ![a] = "done"], [got EXCEPT ![a] = 0])
  BY <1>1, <1>2, Rejoins
<1>4. Balanced(Returned(a, k), q, g, phase', got')
  BY <1>3
<1> QED
  BY <1>4, SettleBalances

LEMMA RunOnBalanced ==
    ASSUME NEW a \in Activities, NEW q, NEW g, Apart(a, q, g), free \in [Sems -> Nat],
           NEW k \in 0 .. Len(Units[a]), Account(free, a, g, k), RunOn(a, k, q, g)
    PROVE  /\ Balanced(free', queue', granted', phase', got')
           /\ NoneIdle(free', queue', granted')
<1> DEFINE j == Max(CanTake(a, k, q))
           taken == [n \in Sems |-> free[n] - CountOf(n, a, k + 1, j)]
           q2 == [q EXCEPT ![Units[a][j + 1]] = Append(@, a)]
<1>1. \/ /\ j < Len(Units[a])
         /\ phase' = [phase EXCEPT ![a] = "waiting"] /\ got' = [got EXCEPT ![a] = j]
         /\ Settle(taken, q2, g)
      \/ /\ phase' = [phase EXCEPT ![a] = "done"] /\ got' = [got EXCEPT ![a] = 0]
         /\ Settle(Returned(a, k), q, g)
      \/ /\ j = Len(Units[a])
         /\ phase' = [phase EXCEPT ![a] = "executing"] /\ got' = [got EXCEPT ![a] = j]
         /\ Settle(taken, q, g)
  BY DEF RunOn
<1>2. j \in k .. Len(Units[a]) /\ taken \in [Sems -> Nat] /\ Account(taken, a, g, j)
  BY TakenAccounts
<1>3. q2 = [q EXCEPT ![Units[a][j + 1]] = Append(@, a)]
  OBVIOUS
<1> HIDE DEF j, taken, q2
<1>4. j \in 0 .. Len(Units[a])
  <2>1. k \in Nat /\ Len(Units[a]) \in Nat
    BY UnitsType
  <2> QED
    BY <1>2, <2>1
<1>5. CASE /\ j < Len(Units[a])
           /\ phase' = [phase EXCEPT ![a] = "waiting"] /\ got' = [got EXCEPT ![a] = j]
           /\ Settle(taken, q2, g)
  <2>1. Balanced(taken, q2, g, [phase EXCEPT ![a] = "waiting"], [got EXCEPT ![a] = j])
    BY <1>2, <1>3, <1>4, <1>5, Rejoins
  <2>2. Balanced(taken, q2, g, phase', got')
    BY <1>5, <2>1
  <2> QED
    BY <1>5, <2>2, SettleBalances
<1>6. CASE /\ phase' = [phase EXCEPT ![a] = "done"] /\ got' = [got EXCEPT ![a] = 0]
           /\ Settle(Returned(a, k), q, g)
  BY <1>6, EndsBalanced
<1>7. CASE /\ j = Len(Units[a])
           /\ phase' = [phase EXCEPT ![a] = "executing"] /\ got' = [got EXCEPT ![a] = j]
           /\ Settle(taken, q, g)
  <2>1. Balanced(taken, q, g, [phase EXCEPT ![a] = "executing"], [got EXCEPT ![a] = j])
    BY <1>2, <1>4, <1>7, Rejoins
  <2>2. Balanced(taken, q, g, phase', got')
    BY <1>7, <2>1
  <2> QED
    BY <1>7, <2>2, SettleBalances
<1> QED
  BY <1>1, <1>5, <1>6, <1>7

(* The inductive invariant of the semaphores: they are balanced, and none  *)
(* has a free slot while a task in its queue was handed none.              *)
SlotInv == Balanced(free, queue, granted, phase, got) /\ NoneIdle(free, queue, granted)

(* A task that is neither waiting nor executing may be created or end      *)
(* without a look at the semaphores.                                       *)
LEMMA AsideBalances ==
    ASSUME SlotInv, NEW c \in Activities, phase[c] \in {"none", "created"},
           NEW l \in {"created", "done"}, phase' = [phase EXCEPT ![c] = l],
           UNCHANGED <<free, queue, granted, got>>
    PROVE  SlotInv'
<1>1. /\ free \in [Sems -> Nat] /\ queue \in [Sems -> Seq(Activities)]
      /\ granted \subseteq Activities /\ got \in [Activities -> Nat]
      /\ phase \in [Activities -> Phases]
      /\ Queued(queue, phase, got) /\ Acquiring(granted, phase, got)
      /\ \A n \in Sems : free[n] + Cardinality(TakenIn(n, granted, got)) = Capacity[n]
  BY DEF SlotInv, Balanced
<1>2. /\ phase' \in [Activities -> Phases] /\ phase'[c] = l /\ l # "waiting"
      /\ phase[c] # "waiting" /\ \A b \in Activities \ {c} : phase'[b] = phase[b]
  BY <1>1 DEF Phases
<1>3. Acquiring(granted, phase', got)
  BY <1>1, <1>2 DEF Acquiring
<1>4. Queued(queue, phase', got)
  <2>1. ASSUME NEW n \in Sems, NEW i \in DOMAIN queue[n]
        PROVE  phase'[queue[n][i]] = phase[queue[n][i]]
    <3>1. queue[n][i] \in Activities /\ phase[queue[n][i]] = "waiting"
      BY <1>1 DEF Queued
    <3> QED
      BY <1>2, <3>1
  <2>2. ASSUME NEW b \in Activities, phase'[b] = "waiting" PROVE phase[b] = "waiting"
    BY <1>2, <2>2
  <2>3. Queued(queue, phase, got)
    BY <1>1
  <2> QED
    BY <2>1, <2>2, <2>3 DEF Queued
<1>5. Balanced(free, queue, granted, phase', got)
  BY <1>1, <1>2, <1>3, <1>4 DEF Balanced
<1> QED
  BY <1>5 DEF SlotInv

(* A task's own steps balance the semaphores. *)
LEMMA TaskBalances ==
    ASSUME SlotInv, NEW a \in Activities, Task(a)
    PROVE  SlotInv'
<1> DEFINE q == IF phase[a] = "waiting" THEN Leave(a) ELSE queue
           g == granted \ {a}
           k == HeldBy(a, granted, got)
<1>1. /\ free \in [Sems -> Nat] /\ got \in [Activities -> Nat] /\ granted \subseteq Activities
      /\ Acquiring(granted, phase, got)
  BY DEF SlotInv, Balanced
<1>2. Apart(a, q, g) /\ Account(free, a, g, k)
  BY TakenApart DEF SlotInv
<1>3. /\ got[a] \in Nat /\ Len(Units[a]) \in Nat
      /\ phase[a] = "waiting" => got[a] < Len(Units[a])
      /\ phase[a] = "executing" => got[a] = Len(Units[a])
      /\ phase[a] \notin {"waiting", "executing"} => got[a] = 0
      /\ a \in granted => phase[a] = "waiting"
  BY <1>1, UnitsType DEF Acquiring
<1>4. k \in 0 .. Len(Units[a])
  BY <1>3 DEF HeldBy
<1>5. phase[a] # "waiting" => q = queue /\ g = granted /\ k = got[a]
  BY <1>3 DEF HeldBy
<1>6. phase[a] = "waiting" => q = Leave(a)
  OBVIOUS
<1>7. k = got[a] + IF a \in granted THEN 1 ELSE 0
  BY DEF HeldBy
<1>8. g = granted \ {a}
  OBVIOUS
<1> HIDE DEF q, g, k
<1>9. ASSUME RunOn(a, k, q, g) PROVE SlotInv'
  BY <1>1, <1>2, <1>4, <1>9, RunOnBalanced DEF SlotInv
<1>10. ASSUME phase' = [phase EXCEPT ![a] = "done"], got' = [got EXCEPT ![a] = 0],
              Settle(Returned(a, k), q, g)
       PROVE  SlotInv'
  BY <1>1, <1>2, <1>4, <1>10, EndsBalanced DEF SlotInv
<1>11. CASE Begin(a)
  <2>1. k = 0 /\ q = queue /\ g = granted
    BY <1>3, <1>5, <1>11 DEF Begin
  <2> QED
    BY <1>9, <1>11, <2>1 DEF Begin
<1>12. CASE Resume(a)
  <2>1. k = got[a] + 1 /\ q = Leave(a)
    BY <1>6, <1>7, <1>12 DEF Resume
  <2> QED
    BY <1>8, <1>9, <1>12, <2>1 DEF Resume
<1>13. CASE Execute(a)
  <2>1. /\ phase[a] = "executing" /\ phase' = [phase EXCEPT ![a] = "done"]
        /\ got' = [got EXCEPT ![a] = 0] /\ Settle(Returned(a, got[a]), queue, granted)
    BY <1>13 DEF Execute, Ends
  <2> QED
    BY <1>5, <1>10, <2>1
<1>14. CASE CancelTask(a)
  <2>1. /\ phase' = [phase EXCEPT ![a] = "done"] /\ got' = [got EXCEPT ![a] = 0]
    BY <1>14 DEF CancelTask, Ends
  <2>2. CASE phase[a] = "waiting"
    <3>1. Settle(Returned(a, k), Leave(a), granted \ {a})
      BY <1>7, <1>14, <2>2, Zenon DEF CancelTask
    <3> QED
      BY <1>6, <1>8, <1>10, <2>1, <2>2, <3>1
  <2>3. CASE phase[a] # "waiting"
    <3>1. Settle(Returned(a, got[a]), queue, granted)
      BY <1>14, <2>3, Zenon DEF CancelTask
    <3> QED
      BY <1>5, <1>10, <2>1, <2>3, <3>1
  <2> QED
    BY <2>2, <2>3
<1>15. CASE CancelUnbegun(a)
  <2>1. /\ phase[a] = "created" /\ phase' = [phase EXCEPT ![a] = "done"]
        /\ got' = [got EXCEPT ![a] = 0] /\ UNCHANGED sems
    BY <1>15 DEF CancelUnbegun, Ends
  <2>2. got' = got
    BY <1>1, <1>3, <2>1
  <2>3. UNCHANGED <<free, queue, granted, got>>
    BY <2>1, <2>2 DEF sems
  <2> DEFINE l == "done"
  <2>4. phase' = [phase EXCEPT ![a] = l] /\ l \in {"created", "done"}
    BY <2>1
  <2> HIDE DEF l
  <2> QED
    BY <2>1, <2>3, <2>4, AsideBalances
<1> QED
  BY <1>11, <1>12, <1>13, <1>14, <1>15 DEF Task

(* The coroutine only creates tasks. *)
LEMMA ScanBalances ==
    ASSUME TypeOK, Tables, SlotInv, Scan
    PROVE  SlotInv'
<1>1. UNCHANGED <<free, queue, granted, got>>
  BY DEF Scan, sems
<1>2. Current \in Activities
  BY CurrentIsOne DEF Scan, TypeOK
<1>3. \/ phase' = phase
      \/ phase[Current] = "none" /\ phase' = [phase EXCEPT ![Current] = "created"]
  BY DEF Scan, Tables
<1>4. CASE phase' = phase
  BY <1>1, <1>4 DEF SlotInv
<1>5. CASE phase[Current] = "none" /\ phase' = [phase EXCEPT ![Current] = "created"]
  <2> DEFINE c == Current
             l == "created"
  <2>1. /\ c \in Activities /\ phase[c] \in {"none", "created"} /\ l \in {"created", "done"}
        /\ phase' = [phase EXCEPT ![c] = l]
    BY <1>2, <1>5
  <2> HIDE DEF c, l
  <2> QED
    BY <1>1, <2>1, AsideBalances
<1> QED
  BY <1>3, <1>4, <1>5

LEMMA InitBalances ==
    ASSUME Init
    PROVE  SlotInv
<1>1. /\ free = Capacity /\ queue = [n \in Sems |-> <<>>] /\ granted = {}
      /\ phase = [a \in Activities |-> "none"] /\ got = [a \in Activities |-> 0]
  BY DEF Init
<1>2. Capacity \in [Sems -> Nat]
  BY PlanAssumption DEF Capacity, Sems
<1>3. Queued(queue, phase, got) /\ Acquiring(granted, phase, got)
  BY <1>1 DEF Queued, Acquiring
<1>4. ASSUME NEW n \in Sems PROVE free[n] + Cardinality(TakenIn(n, granted, got)) = Capacity[n]
  <2>1. TakenIn(n, granted, got) = {}
    BY <1>1 DEF TakenIn, HeldBy, PairsOf
  <2>2. Cardinality(TakenIn(n, granted, got)) = 0
    BY <2>1, FS_EmptySet, Zenon
  <2> QED
    BY <1>1, <1>2, <2>2
<1>5. NoneIdle(free, queue, granted)
  BY <1>1 DEF NoneIdle, Ungranted
<1> QED
  BY <1>1, <1>2, <1>3, <1>4, <1>5 DEF SlotInv, Balanced, Phases

(* The semaphores stay balanced, and no free slot is kept from a waiter:   *)
(* _cancel_and_wait may cancel any task at any of its awaits.              *)
THEOREM SlotInvariance == Spec => []SlotInv
<1>1. Init => SlotInv
  BY InitBalances
<1>2. IInv /\ SlotInv /\ [Next]_vars => SlotInv'
  <2> SUFFICES ASSUME IInv, SlotInv, [Next]_vars PROVE SlotInv'
    OBVIOUS
  <2>1. ASSUME UNCHANGED <<free, queue, granted, phase, got>> PROVE SlotInv'
    BY <2>1 DEF SlotInv
  <2>2. CASE \/ WorkerEnds \/ CancelAcquire \/ Acquired \/ Verify \/ Top \/ ScanEnds \/ Wait
             \/ RecordDone \/ Finish \/ MainRaises \/ Shutdown \/ CleanedUp \/ UNCHANGED vars
    <3>1. UNCHANGED tasks
      BY <2>2 DEF WorkerEnds, CancelAcquire, Acquired, Verify, Top, ScanEnds, Wait, RecordDone,
                  Finish, MainRaises, Shutdown, CleanedUp, vars
    <3> QED
      BY <2>1, <3>1 DEF tasks, sems
  <2>3. CASE Scan
    BY <2>3, ScanBalances DEF IInv
  <2>4. CASE \E a \in Activities : Task(a)
    BY <2>4, TaskBalances
  <2> QED
    BY <2>2, <2>3, <2>4 DEF Next, Main, Over, Spin
<1> QED
  BY <1>1, <1>2, Invariance, PTL DEF Spec

(* No slot is lost or made up, and nobody waits for a free one.            *)
THEOREM SlotsAreConserved == Spec => []SlotsConserved
<1>1. SlotInv => SlotsConserved
  <2> SUFFICES ASSUME SlotInv PROVE SlotsConserved
    OBVIOUS
  <2>1. /\ free \in [Sems -> Nat] /\ queue \in [Sems -> Seq(Activities)]
        /\ granted \subseteq Activities /\ got \in [Activities -> Nat]
        /\ Queued(queue, phase, got) /\ Acquiring(granted, phase, got)
        /\ \A n \in Sems : free[n] + Cardinality(TakenIn(n, granted, got)) = Capacity[n]
        /\ NoneIdle(free, queue, granted)
    BY DEF SlotInv, Balanced
  <2>2. \A n \in Sems : TakenIn(n, granted, got) = Taken(n)
    BY DEF TakenIn, Taken, PairsOf, HeldBy
  <2>3. ASSUME NEW a \in Activities, phase[a] = "waiting", a \notin granted
        PROVE  free[WaitsFor(a)] = 0
    <3> DEFINE n == Units[a][got[a] + 1]
    <3>1. got[a] \in Nat /\ got[a] < Len(Units[a]) /\ Units[a] \in Seq(Sems)
          /\ Len(Units[a]) \in Nat
      BY <2>1, <2>3, UnitsType DEF Acquiring
    <3>2. n \in Sems
      BY <3>1
    <3>3. PICK i \in DOMAIN queue[n] : queue[n][i] = a
      BY <2>1, <2>3 DEF Queued
    <3>4. WaitsFor(a) = n
      BY DEF WaitsFor
    <3> HIDE DEF n
    <3>5. i \in Ungranted(n, queue, granted)
      BY <2>3, <3>3 DEF Ungranted
    <3>6. free[n] \in Nat /\ ~(free[n] > 0)
      BY <2>1, <3>2, <3>5 DEF NoneIdle
    <3> QED
      BY <3>4, <3>6
  <2>4. \A n \in Sems : free[n] + Cardinality(Taken(n)) = Capacity[n]
    BY <2>1, <2>2, Zenon
  <2> QED
    BY <2>1, <2>3, <2>4 DEF SlotsConserved, Acquiring
<1> QED
  BY <1>1, SlotInvariance, PTL

-----------------------------------------------------------------------------
(* What a plan is made of                                                  *)
-----------------------------------------------------------------------------
\* a record of eight fields with the id that is due to it
IsActivity(a) ==
    a = [id |-> ActivityId(a), kind |-> a.kind, point |-> a.point, deps |-> a.deps,
         inputs |-> a.inputs, artifacts |-> a.artifacts, payload |-> a.payload,
         identity |-> a.identity]

LEMMA ActivityIs ==
    ASSUME NEW kind, NEW point, NEW deps, NEW inputs, NEW artifacts, NEW payload, NEW identity,
           NEW a, a = Activity(kind, point, deps, inputs, artifacts, payload, identity)
    PROVE  /\ IsActivity(a)
           /\ a.kind = kind /\ a.point = point /\ a.deps = deps /\ a.inputs = inputs
           /\ a.artifacts = artifacts /\ a.payload = payload /\ a.identity = identity
<1> DEFINE b == [id |-> None, kind |-> kind, point |-> point, deps |-> deps, inputs |-> inputs,
                 artifacts |-> artifacts, payload |-> payload, identity |-> identity]
           u == ActivityId(b)
<1>1. a = [b EXCEPT !.id = u]
  BY DEF Activity
<1> HIDE DEF u
<1>2. a = [id |-> u, kind |-> kind, point |-> point, deps |-> deps, inputs |-> inputs,
           artifacts |-> artifacts, payload |-> payload, identity |-> identity]
  BY <1>1
<1>3. u = ActivityId(a)
  BY <1>2 DEF u, ActivityId
<1> QED
  BY <1>2, <1>3 DEF IsActivity

\* the three activities of a point
IsRender(a, n, p, inputs) ==
    /\ IsActivity(a) /\ a.kind = "render" /\ a.point = p.values /\ a.deps = <<>> /\ a.inputs = inputs
    /\ a.artifacts = <<"deck.sp", "point.json">> \o Column(Copies(inputs, Paths(n)), "logical")
    /\ a.payload = [point |-> Dict(p.values)]
    /\ a.identity = <<>>
IsSimulate(a, n, p, d, by) ==
    LET run == [adapter |-> n.adapter, executable |-> n.executable, analysis |-> n.analysis,
                fields |-> Column(n.measures, "field")]
    IN  /\ IsActivity(a) /\ a.kind = "simulate" /\ a.point = p.values /\ a.deps = <<d>> /\ a.inputs = <<>>
        /\ a.artifacts = Produces(n.adapter)
        /\ a.payload = run
        /\ a.identity = [config |-> run, adapter |-> Identity(n.adapter, by)]
IsExtract(a, n, p, d) ==
    /\ IsActivity(a) /\ a.kind = "extract" /\ a.point = p.values /\ a.deps = <<d>> /\ a.inputs = <<>>
    /\ a.artifacts = <<"extracted.json">>
    /\ a.payload = [measures |-> n.measures, point |-> Dict(p.values)]
    /\ a.identity = n.measures
IsAggregate(a, n, extracts) ==
    /\ IsActivity(a) /\ a.kind = "aggregate" /\ a.point = None /\ a.deps = extracts /\ a.inputs = <<>>
    /\ a.artifacts = <<"results.json", "results.csv", "regression-bundle.json">>
    /\ a.payload = [measures |-> n.measures]
    /\ a.identity = n.measures

LEMMA ChainIs ==
    ASSUME NEW n, NEW p, NEW inputs, NEW by, NEW c, c = Chain(n, p, inputs, by)
    PROVE  /\ Len(c) = 3 /\ c = <<c[1], c[2], c[3]>>
           /\ IsRender(c[1], n, p, inputs)
           /\ IsSimulate(c[2], n, p, c[1].id, by)
           /\ IsExtract(c[3], n, p, c[2].id)
<1> DEFINE copies == Copies(inputs, Paths(n))
           run == [adapter |-> n.adapter, executable |-> n.executable, analysis |-> n.analysis,
                   fields |-> Column(n.measures, "field")]
           ra == <<"deck.sp", "point.json">> \o Column(copies, "logical")
           rp == [point |-> Dict(p.values)]
           r == Activity("render", p.values, <<>>, inputs, ra, rp, <<>>)
           si == [config |-> run, adapter |-> Identity(n.adapter, by)]
           sa == Produces(n.adapter)
           s == Activity("simulate", p.values, <<r.id>>, <<>>, sa, run, si)
           ep == [measures |-> n.measures, point |-> Dict(p.values)]
           e == Activity("extract", p.values, <<s.id>>, <<>>, <<"extracted.json">>, ep, n.measures)
<1>1. c = <<r, s, e>>
  BY DEF Chain
<1> DEFINE R(a) == /\ IsActivity(a) /\ a.kind = "render" /\ a.point = p.values /\ a.deps = <<>>
                   /\ a.inputs = inputs /\ a.artifacts = ra /\ a.payload = rp /\ a.identity = <<>>
           S(a, d) == /\ IsActivity(a) /\ a.kind = "simulate" /\ a.point = p.values /\ a.deps = <<d>>
                      /\ a.inputs = <<>> /\ a.artifacts = sa /\ a.payload = run /\ a.identity = si
           E(a, d) == /\ IsActivity(a) /\ a.kind = "extract" /\ a.point = p.values /\ a.deps = <<d>>
                      /\ a.inputs = <<>> /\ a.artifacts = <<"extracted.json">> /\ a.payload = ep
                      /\ a.identity = n.measures
<1> HIDE DEF copies, run, ra, rp, si, sa, ep
<1>2. R(r)
  <2>1. PICK a : a = r
    OBVIOUS
  <2>2. R(a)
    BY <2>1, ActivityIs
  <2> QED
    BY <2>1, <2>2
<1> DEFINE rid == r.id
<1> HIDE DEF rid
<1>3. S(s, rid)
  <2>1. PICK a : a = s
    OBVIOUS
  <2>2. S(a, rid)
    BY <2>1, ActivityIs DEF rid
  <2> QED
    BY <2>1, <2>2
<1> DEFINE sid == s.id
<1> HIDE DEF sid
<1>4. E(e, sid)
  <2>1. PICK a : a = e
    OBVIOUS
  <2>2. E(a, sid)
    BY <2>1, ActivityIs DEF sid
  <2> QED
    BY <2>1, <2>2
<1> HIDE DEF R, S, E, r, s, e, rid, sid
<1>5. Len(c) = 3 /\ c[1] = r /\ c[2] = s /\ c[3] = e
  BY <1>1
<1>6. R(c[1]) /\ S(c[2], c[1].id) /\ E(c[3], c[2].id)
  BY <1>2, <1>3, <1>4, <1>5, Zenon DEF rid, sid
<1>7. IsRender(c[1], n, p, inputs)
  BY <1>6, Zenon DEF R, IsRender, ra, rp, copies
<1>8. IsSimulate(c[2], n, p, c[1].id, by)
  BY <1>6, Zenon DEF S, IsSimulate, sa, si, run
<1>9. IsExtract(c[3], n, p, c[2].id)
  BY <1>6, Zenon DEF E, IsExtract, ep
<1> QED
  BY <1>1, <1>5, <1>7, <1>8, <1>9

LEMMA Elements ==
    ASSUME NEW S, NEW s \in Seq(S)
    PROVE  DOMAIN s = 1 .. Len(s) /\ Len(s) \in Nat /\ \A i \in DOMAIN s : s[i] \in S
OBVIOUS

-----------------------------------------------------------------------------
(* What load_manifest returns                                              *)
-----------------------------------------------------------------------------
LoadedFrom(n, m) ==
    /\ n.adapter = m.adapter /\ n.executable = Executable(m) /\ n.analysis = m.analysis
    /\ n.deck = m.deck /\ n.inputs = m.inputs /\ n.mode = m.mode /\ n.jobs = m.jobs
    /\ n.limits = m.limits /\ n.failFast = m.failFast /\ n.timeout = m.timeout
    /\ n.params = [i \in DOMAIN m.params |->
                        [name |-> m.params[i].name, values |-> Texts(m.params[i].values)]]
    /\ n.measures = [i \in DOMAIN m.measures |->
            LET x == m.measures[i]
            IN  [name |-> x.name, source |-> x.source,
                 field |-> IF x.field = None THEN x.name ELSE x.field]]

LEMMA LoadedIs ==
    ASSUME NEW m, IsManifest(m), NEW n, n = Loaded(m)
    PROVE  LoadedFrom(n, m)
<1> DEFINE values == UNION {Range(m.params[i].values) : i \in DOMAIN m.params}
           limited == DOMAIN m.limits
           params == [i \in DOMAIN m.params |->
                        [m.params[i] EXCEPT !.values = Texts(m.params[i].values)]]
           measures == [i \in DOMAIN m.measures |->
                LET x == m.measures[i]
                IN  [x EXCEPT !.field = IF x.field = None THEN x.name ELSE x.field]]
           exe == Executable(m)
<1>1. m \in Manifest(values, limited)
  BY DEF IsManifest
<1>2. n = [m EXCEPT !.executable = exe, !.params = params, !.measures = measures]
  BY DEF Loaded
<1> HIDE DEF values, limited
<1>3. params = [i \in DOMAIN m.params |->
                    [name |-> m.params[i].name, values |-> Texts(m.params[i].values)]]
  <2>1. m.params \in Seq([name : STRING, values : Seq(values)])
    BY <1>1 DEF Manifest
  <2>2. ASSUME NEW i \in DOMAIN m.params, NEW v
        PROVE  [m.params[i] EXCEPT !.values = v] = [name |-> m.params[i].name, values |-> v]
    <3>1. m.params[i] \in [name : STRING, values : Seq(values)]
      BY <2>1, Elements
    <3> QED
      BY <3>1
  <2> QED
    BY <2>2
<1>4. measures = [i \in DOMAIN m.measures |->
                LET x == m.measures[i]
                IN  [name |-> x.name, source |-> x.source,
                     field |-> IF x.field = None THEN x.name ELSE x.field]]
  <2>1. m.measures \in Seq([name : STRING, source : STRING, field : STRING \cup {None}])
    BY <1>1 DEF Manifest
  <2>2. ASSUME NEW i \in DOMAIN m.measures, NEW v
        PROVE  [m.measures[i] EXCEPT !.field = v]
                    = [name |-> m.measures[i].name, source |-> m.measures[i].source, field |-> v]
    <3>1. m.measures[i] \in [name : STRING, source : STRING, field : STRING \cup {None}]
      BY <2>1, Elements
    <3> QED
      BY <3>1
  <2> QED
    BY <2>2
<1> HIDE DEF params, measures, exe
<1>5. /\ n.adapter = m.adapter /\ n.executable = exe /\ n.analysis = m.analysis
      /\ n.deck = m.deck /\ n.inputs = m.inputs /\ n.mode = m.mode /\ n.jobs = m.jobs
      /\ n.limits = m.limits /\ n.failFast = m.failFast /\ n.timeout = m.timeout /\ n.params = params
      /\ n.measures = measures
  BY <1>1, <1>2 DEF Manifest
<1> QED
  BY <1>3, <1>4, <1>5 DEF exe, LoadedFrom

\* what the lemmas below are about: an accepted, plannable manifest
Planned(m) == IsManifest(m) /\ Accepted(m) /\ Plannable(Loaded(m))

(* A parameter has values, all of them texts.                              *)
LEMMA ParamsAre ==
    ASSUME NEW m, Planned(m), NEW n, n = Loaded(m)
    PROVE  /\ Len(n.params) \in Nat \ {0} /\ DOMAIN n.params = 1 .. Len(n.params)
           /\ \A j \in DOMAIN n.params :
                /\ n.params[j].name = m.params[j].name /\ n.params[j].name \in STRING
                /\ Len(n.params[j].values) \in Nat \ {0}
                /\ \A k \in 1 .. Len(n.params[j].values) : n.params[j].values[k] \in Range(Canonical)
           /\ DOMAIN m.params = DOMAIN n.params
<1> DEFINE values == UNION {Range(m.params[i].values) : i \in DOMAIN m.params}
<1>1. m.params \in Seq([name : STRING, values : Seq(values)])
  BY DEF Planned, IsManifest, Manifest
<1>2. n.params = [i \in DOMAIN m.params |->
                    [name |-> m.params[i].name, values |-> Texts(m.params[i].values)]]
  <2>1. IsManifest(m)
    BY DEF Planned
  <2>2. LoadedFrom(n, m)
    BY <2>1, LoadedIs
  <2> QED
    BY <2>2 DEF LoadedFrom
<1> HIDE DEF values
<1>3. m.params # <<>> /\ \A p \in Range(m.params) : p.values # <<>> /\ Range(p.values) \subseteq DOMAIN Canonical
  BY DEF Planned, Accepted, SweepAccepted
<1>4. Len(n.params) = Len(m.params) /\ DOMAIN n.params = 1 .. Len(m.params) /\ Len(m.params) \in Nat \ {0}
  BY <1>1, <1>2, <1>3
<1>5. ASSUME NEW j \in 1 .. Len(m.params)
      PROVE  /\ n.params[j].name = m.params[j].name /\ n.params[j].name \in STRING
             /\ Len(n.params[j].values) \in Nat \ {0}
             /\ \A k \in 1 .. Len(n.params[j].values) : n.params[j].values[k] \in Range(Canonical)
  <2> DEFINE v == m.params[j].values
  <2>1. v \in Seq(values) /\ m.params[j].name \in STRING
    <3>1. m.params[j] \in [name : STRING, values : Seq(values)]
      BY <1>1, Elements
    <3> QED
      BY <3>1
  <2>2. v # <<>> /\ Range(v) \subseteq DOMAIN Canonical
    BY <1>1, <1>3 DEF Range
  <2>3. n.params[j].name = m.params[j].name /\ n.params[j].values = Texts(v)
    BY <1>1, <1>2
  <2> HIDE DEF v
  <2>4. Len(Texts(v)) = Len(v) /\ Len(v) \in Nat \ {0}
        /\ \A k \in 1 .. Len(v) : Texts(v)[k] = Canonical[v[k]] /\ v[k] \in DOMAIN Canonical
    BY <2>1, <2>2 DEF Texts, Range
  <2> QED
    BY <2>1, <2>3, <2>4 DEF Range
<1> QED
  BY <1>1, <1>4, <1>5

-----------------------------------------------------------------------------
(* The sweep                                                               *)
-----------------------------------------------------------------------------
LEMMA StrideType ==
    ASSUME NEW params, Len(params) \in Nat,
           \A j \in 1 .. Len(params) : Len(params[j].values) \in Nat \ {0}
    PROVE  Stride(params) \in [0 .. Len(params) -> Nat \ {0}]
<1> DEFINE l == Len(params)
           D == Nat \ {0}
           size(j) == Len(params[j].values)
           After(f) == f = [j \in 0 .. l |-> IF j = l THEN 1 ELSE f[j+1] * size(j + 1)]
           G == [i \in 1 .. l |-> [v \in D |-> v * size(l - i + 1)]]
<1>0. Stride(params) = CHOOSE f : After(f)
  BY DEF Stride
<1>1. l \in Nat /\ \A j \in 1 .. l : size(j) \in Nat \ {0}
  OBVIOUS
<1> HIDE DEF l, size
<1>a. \A v, w \in D : v * w \in D
  OBVIOUS
<1>2. G \in [1 .. l -> [D -> D]]
  <2>1. ASSUME NEW i \in 1 .. l, NEW v \in D PROVE v * size(l - i + 1) \in D
    <3>1. l - i + 1 \in 1 .. l
      BY <1>1
    <3> QED
      BY <1>1, <1>a, <3>1
  <2> HIDE DEF D
  <2> QED
    BY <2>1
<1>3. \A i \in 1 .. l, v \in D : G[i][v] = v * size(l - i + 1)
  OBVIOUS
<1>b. 1 \in D
  OBVIOUS
<1> HIDE DEF G, D, After
<1>4. PICK h : h \in [0 .. l -> D] /\ h[0] = 1 /\ \A i \in 1 .. l : h[i] = G[i][h[i-1]]
  <2>1. PICK f : Recurses(f, l, D, 1, G)
    BY <1>1, <1>2, <1>b, Recursion
  <2> QED
    BY <2>1 DEF Recurses
<1> DEFINE g == [j \in 0 .. l |-> h[l - j]]
<1>5. After(g)
  <2>1. ASSUME NEW j \in 0 .. l PROVE h[l - j] = IF j = l THEN 1 ELSE g[j+1] * size(j + 1)
    <3>1. CASE j = l
      BY <1>1, <1>4, <3>1
    <3>2. CASE j # l
      <4> DEFINE i == l - j
      <4>1. /\ i \in 1 .. l /\ i - 1 \in 0 .. l /\ l - (j + 1) = i - 1 /\ l - i + 1 = j + 1
            /\ j + 1 \in 0 .. l
        BY <1>1, <3>2
      <4> HIDE DEF i
      <4>2. g[j+1] = h[i-1]
        BY <4>1
      <4>3. h[i] = h[i-1] * size(j + 1)
        <5>1. h[i] = G[i][h[i-1]] /\ h[i-1] \in D
          BY <1>4, <4>1
        <5>2. G[i][h[i-1]] = h[i-1] * size(l - i + 1)
          BY <1>3, <4>1, <5>1
        <5> QED
          BY <4>1, <5>1, <5>2
      <4> QED
        BY <3>2, <4>2, <4>3 DEF i
    <3> QED
      BY <3>1, <3>2
  <2>2. g = [j \in 0 .. l |-> IF j = l THEN 1 ELSE g[j+1] * size(j + 1)]
    BY <2>1
  <2> QED
    BY <2>2 DEF After
<1> DEFINE s == CHOOSE f : After(f)
<1>6. After(s)
  <2> HIDE DEF g
  <2> QED
    BY <1>5
<1> HIDE DEF s, g
<1>7. s[l] = 1 /\ \A j \in 0 .. l - 1 : s[j] = s[j+1] * size(j + 1)
  <2>1. s = [j \in 0 .. l |-> IF j = l THEN 1 ELSE s[j+1] * size(j + 1)]
    BY <1>6 DEF After
  <2>2. \A j \in 0 .. l : s[j] = IF j = l THEN 1 ELSE s[j+1] * size(j + 1)
    BY <2>1
  <2> QED
    BY <1>1, <2>2
<1>8. \A j \in 0 .. l : s[j] \in D
  <2> DEFINE P == {i \in 0 .. l : s[l - i] \in D}
  <2>1. 0 \in P
    BY <1>1, <1>7, <1>b
  <2>2. ASSUME NEW i \in 1 .. l, i - 1 \in P PROVE i \in P
    <3>1. l - (i - 1) = l - i + 1 /\ l - i + 1 \in 1 .. l /\ l - i \in 0 .. l - 1 /\ i \in 0 .. l
      BY <1>1
    <3>2. s[l - i + 1] \in D /\ size(l - i + 1) \in D
      BY <1>1, <2>2, <3>1 DEF D
    <3> QED
      BY <1>7, <1>a, <3>1, <3>2
  <2>3. 0 .. l \subseteq P
    <3> HIDE DEF P
    <3> QED
      BY <1>1, <2>1, <2>2, Induction
  <2>4. ASSUME NEW j \in 0 .. l PROVE s[j] \in D
    <3>1. l - j \in 0 .. l /\ l - (l - j) = j
      BY <1>1
    <3>2. l - j \in P
      BY <2>3, <3>1
    <3> QED
      BY <3>1, <3>2
  <2> QED
    BY <2>4
<1>9. s \in [0 .. l -> D]
  <2>1. s = [j \in 0 .. l |-> IF j = l THEN 1 ELSE s[j+1] * size(j + 1)]
    BY <1>6 DEF After
  <2>2. s = [j \in 0 .. l |-> s[j]]
    BY <2>1
  <2> QED
    BY <1>8, <2>2
<1> QED
  BY <1>0, <1>9 DEF s, l, D

\* each value is that of its parameter
NamedLike(values, params) ==
    /\ DOMAIN values = DOMAIN params
    /\ \A j \in DOMAIN params : values[j][1] = params[j].name

LEMMA PointsAre ==
    ASSUME NEW m, Planned(m), NEW n, n = Loaded(m), NEW ps, ps = Points(n)
    PROVE  /\ ps \in Seq(Point) /\ Len(ps) \in Nat \ {0} /\ DOMAIN ps = 1 .. Len(ps)
           /\ \A i \in 1 .. Len(ps) :
                /\ ps[i] = [index |-> i - 1, values |-> ps[i].values]
                /\ NamedLike(ps[i].values, n.params)
           /\ \A i, j \in 1 .. Len(ps) : ps[i].values = ps[j].values => i = j
<1> DEFINE q == n.params
           l == Len(n.params)
           width == Stride(q)
           size(j) == Len(q[j].values)
           Pick(i, j) == IF n.mode = "zip" THEN i ELSE (i \div width[j]) % size(j)
           count == IF n.mode = "zip" THEN size(1) ELSE width[0]
           pair(i, j) == <<q[j].name, q[j].values[Pick(i - 1, j) + 1]>>
           all == [i \in 1 .. count |-> [j \in DOMAIN q |-> pair(i, j)]]
<1>1. /\ l \in Nat \ {0} /\ DOMAIN q = 1 .. l
      /\ \A j \in 1 .. l :
            /\ q[j].name \in STRING /\ size(j) \in Nat \ {0}
            /\ \A k \in 1 .. size(j) : q[j].values[k] \in Range(Canonical)
  BY ParamsAre
<1>2. width \in [0 .. l -> Nat \ {0}]
  BY <1>1, StrideType
<1>3. Combinations(n) = all /\ Expandable(n)
  BY DEF Combinations, Planned, Plannable
<1> HIDE DEF q, l, width, size
<1>4. count \in Nat \ {0}
  BY <1>1, <1>2
<1>5. ASSUME NEW i \in 1 .. count, NEW j \in 1 .. l PROVE Pick(i - 1, j) + 1 \in 1 .. size(j)
  <2> DEFINE s == size(j)
             w == width[j]
  <2>1. s \in Nat \ {0} /\ w \in Nat \ {0} /\ i - 1 \in Nat
    BY <1>1, <1>2, <1>4
  <2>2. CASE n.mode = "zip"
    <3>1. \A p \in Range(n.params) : Len(p.values) = Len(n.params[1].values)
      BY <1>3, <2>2 DEF Expandable
    <3>2. q[j] \in Range(n.params)
      BY <1>1 DEF Range, q
    <3>3. s = size(1)
      BY <3>1, <3>2 DEF size, q
    <3>4. count = s /\ Pick(i - 1, j) = i - 1
      BY <2>2, <3>3
    <3> HIDE DEF s
    <3>5. i \in 1 .. s
      BY <3>4
    <3> QED
      <4>1. Pick(i - 1, j) + 1 = i
        BY <3>4, <3>5, <2>1
      <4> QED
        BY <3>5, <4>1 DEF s
  <2>3. CASE n.mode # "zip"
    <3> HIDE DEF s, w
    <3>1. (((i - 1) \div w) % s) + 1 \in 1 .. s
      BY <2>1
    <3> QED
      BY <2>3, <3>1 DEF s, w
  <2> QED
    BY <2>2, <2>3
<1>6. \A i \in 1 .. count, j \in 1 .. l : pair(i, j) \in STRING \X Range(Canonical)
  <2> HIDE DEF Pick
  <2> QED
    BY <1>1, <1>5
<1>7. /\ Len(all) = count /\ DOMAIN all = 1 .. count
      /\ \A i \in 1 .. count : /\ all[i] \in Seq(STRING \X Range(Canonical))
                               /\ DOMAIN all[i] = 1 .. l
                               /\ \A j \in 1 .. l : all[i][j] = pair(i, j)
  <2> HIDE DEF pair, count
  <2> QED
    BY <1>1, <1>4, <1>6
<1>8. \A i \in 1 .. count, j \in 1 .. l : pair(i, j)[1] = q[j].name
  OBVIOUS
<1> HIDE DEF all, pair, count
<1>9. \A i, j \in 1 .. count : all[i] = all[j] => i = j
  <2>1. IsInjective(all)
    BY <1>3 DEF Expandable
  <2>2. DOMAIN all = 1 .. count
    BY <1>7
  <2> QED
    BY <2>1, <2>2 DEF IsInjective
<1>10. ps = [i \in 1 .. count |-> [index |-> i - 1, values |-> all[i]]]
  BY <1>3, <1>7 DEF Points
<1>11. Len(ps) = count /\ DOMAIN ps = 1 .. count
       /\ \A i \in 1 .. count : ps[i] = [index |-> i - 1, values |-> all[i]]
  BY <1>4, <1>10
<1>12. \A i \in 1 .. count : ps[i] \in Point
  <2>1. ASSUME NEW i \in 1 .. count PROVE ps[i] \in Point
    <3>1. i - 1 \in Nat
      BY <1>4
    <3>2. PICK index, values : index = i - 1 /\ values = all[i]
      OBVIOUS
    <3>3. index \in Nat /\ values \in Seq(STRING \X Range(Canonical))
      BY <1>7, <3>1, <3>2, Zenon
    <3>4. ps[i] = [index |-> index, values |-> values]
      BY <1>11, <3>2, Zenon
    <3> QED
      BY <3>3, <3>4 DEF Point, Settings
  <2> QED
    BY <2>1
<1>13. ps \in Seq(Point)
  BY <1>4, <1>10, <1>11, <1>12
<1> QED
  BY <1>1, <1>4, <1>7, <1>8, <1>9, <1>11, <1>13 DEF q, NamedLike

LEMMA InRange ==
    ASSUME NEW S, NEW s \in Seq(S)
    PROVE  s \in Seq(Range(s))
<1>1. \A x \in 1 .. Len(s) : s[x] \in Range(s)
  BY DEF Range
<1> QED
  BY <1>1

-----------------------------------------------------------------------------
(* The compiled plan: three activities a point and the aggregate           *)
-----------------------------------------------------------------------------
LEMMA Threes ==
    ASSUME NEW n \in Nat, NEW x \in 1 .. 3 * n
    PROVE  \E i \in 1 .. n, k \in 1 .. 3 : x = 3 * (i - 1) + k
<1> DEFINE i == (x - 1) \div 3 + 1
           k == ((x - 1) % 3) + 1
<1>1. i \in 1 .. n /\ k \in 1 .. 3 /\ x = 3 * (i - 1) + k
  OBVIOUS
<1> QED
  BY <1>1

IsChain(c, n, p, inputs, by) ==
    /\ IsRender(c[1], n, p, inputs)
    /\ IsSimulate(c[2], n, p, c[1].id, by)
    /\ IsExtract(c[3], n, p, c[2].id)

PlanIs(plan, n, inputs, by, ps, chains, aggregate) ==
    LET acts == plan.activities
        l == Len(ps)
    IN  /\ l \in Nat \ {0} /\ DOMAIN chains = 1 .. l
        /\ \A i \in 1 .. l : IsChain(chains[i], n, ps[i], inputs, by)
        /\ IsAggregate(aggregate, n, [i \in 1 .. l |-> chains[i][3].id])
        /\ acts \in Seq(Range(acts)) /\ Len(acts) = 3 * l + 1 /\ DOMAIN acts = 1 .. 3 * l + 1
        /\ \A i \in 1 .. l, k \in 1 .. 3 : acts[3 * (i-1) + k] = chains[i][k]
        /\ acts[3 * l + 1] = aggregate
        /\ plan = [id |-> plan.id, activities |-> acts, jobs |-> n.jobs, limits |-> plan.limits,
                   failFast |-> n.failFast, loose |-> plan.loose, path |-> plan.path]
        /\ plan.id = PlanId(acts, n.jobs, plan.limits, n.failFast)
        /\ n.jobs \in Int /\ n.jobs > 0 /\ n.failFast \in BOOLEAN
        /\ \A name \in DOMAIN plan.limits : plan.limits[name] > 0
        /\ plan.loose = [i \in 1 .. 3 * l + 1 |-> plan.loose[i]]
        /\ \A i \in 1 .. l, k \in 1 .. 3 : plan.loose[3 * (i-1) + k] = LooseChain(n, ps[i], inputs)[k]
        /\ plan.loose[3 * l + 1] = LooseAggregate(n)

LEMMA SequenceIs ==
    ASSUME NEW T, NEW s \in Seq(T), NEW l, l = Len(s)
    PROVE  s = [i \in 1 .. l |-> s[i]]
OBVIOUS

(* Triples one after another and one more at the end.                      *)
Triples(c, l) == /\ c = [i \in 1 .. l |-> c[i]]
                 /\ \A i \in 1 .. l : c[i] = <<c[i][1], c[i][2], c[i][3]>>
LaidOut(all, c, l, last) ==
    /\ all \in Seq(Range(all)) /\ Len(all) = 3 * l + 1 /\ DOMAIN all = 1 .. 3 * l + 1
    /\ all = [i \in 1 .. 3 * l + 1 |-> all[i]]
    /\ \A i \in 1 .. l, k \in 1 .. 3 : all[3 * (i-1) + k] = c[i][k]
    /\ all[3 * l + 1] = last

LEMMA Laid ==
    ASSUME NEW l \in Nat \ {0}, NEW c, Triples(c, l), NEW last, NEW all, all = Append(FlattenSeq(c), last)
    PROVE  LaidOut(all, c, l, last)
<1> DEFINE S == UNION {{c[i][1], c[i][2], c[i][3]} : i \in 1 .. l}
<1>1. \A i \in 1 .. l : c[i] \in Seq(S) /\ Len(c[i]) = 3
  <2>1. ASSUME NEW i \in 1 .. l PROVE c[i] \in Seq(S) /\ Len(c[i]) = 3
    <3>1. PICK x, y, z : x = c[i][1] /\ y = c[i][2] /\ z = c[i][3]
      OBVIOUS
    <3>2. c[i] = <<x, y, z>>
      BY <3>1 DEF Triples
    <3>3. x \in S /\ y \in S /\ z \in S
      BY <3>1
    <3> HIDE DEF S
    <3>4. <<x, y, z>> \in Seq(S) /\ Len(<<x, y, z>>) = 3
      BY <3>3
    <3> QED
      BY <3>2, <3>4
  <2> QED
    BY <2>1
<1> HIDE DEF S
<1>2. c \in Seq(Seq(S)) /\ Len(c) = l /\ c # <<>> /\ DOMAIN c = 1 .. l
  <2>1. c = [i \in 1 .. l |-> c[i]]
    BY DEF Triples
  <2>2. c \in [1 .. l -> Seq(S)]
    BY <1>1, <2>1, Zenon
  <2> QED
    BY <2>2
<1> DEFINE flat == FlattenSeq(c)
<1>3. /\ flat \in Seq(S) /\ Len(flat) = 3 * l
      /\ \A i \in 1 .. l, k \in 1 .. 3 : flat[3 * (i-1) + k] = c[i][k]
  <2> HIDE DEF flat
  <2>1. flat \in Seq(S)
    BY <1>2, FlattenSeqType DEF flat
  <2>3. \A i \in DOMAIN c : Len(c[i]) = 3
    BY <1>1, <1>2
  <2>2. /\ Len(flat) = 3 * l
        /\ \A i \in 1 .. l, k \in 1 .. 3 : flat[3 * (i-1) + k] = c[i][k]
    <3>1. PICK d : d = c
      OBVIOUS
    <3>2. d \in Seq(Seq(S)) /\ d # <<>> /\ Len(d) = l /\ DOMAIN d = 1 .. l /\ \A i \in DOMAIN d : Len(d[i]) = 3
      BY <1>2, <2>3, <3>1
    <3>3. Len(FlattenSeq(d)) = 3 * Len(d) /\ \A i \in 1 .. Len(d), k \in 1 .. 3 : FlattenSeq(d)[3 * (i-1) + k] = d[i][k]
      BY <3>2, FlattenSeqThrees
    <3> QED
      BY <3>1, <3>2, <3>3, Zenon DEF flat
  <2> QED
    BY <2>1, <2>2
<1> HIDE DEF flat
<1>4. /\ Len(all) = 3 * l + 1 /\ DOMAIN all = 1 .. 3 * l + 1
      /\ \A x \in 1 .. 3 * l : all[x] = flat[x]
      /\ all[3 * l + 1] = last
      /\ all \in Seq(S \cup {last})
  <2>1. all = Append(flat, last)
    BY DEF flat
  <2> DEFINE T == S \cup {last}
             w == 3 * l
  <2>2. flat \in Seq(T) /\ last \in T /\ Len(flat) = w /\ w \in Nat
    BY <1>3
  <2> HIDE DEF T, w
  <2>3. /\ all \in Seq(T) /\ Len(all) = w + 1 /\ all[w + 1] = last
        /\ \A x \in 1 .. w : all[x] = flat[x]
    BY <2>1, <2>2, AppendProperties
  <2> QED
    BY <2>1, <2>2, <2>3 DEF T, w
<1>5. \A i \in 1 .. l, k \in 1 .. 3 : all[3 * (i-1) + k] = c[i][k]
  <2>1. \A i \in 1 .. l, k \in 1 .. 3 : 3 * (i-1) + k \in 1 .. 3 * l
    OBVIOUS
  <2> QED
    BY <1>3, <1>4, <2>1
<1>6. all \in Seq(Range(all))
  BY <1>4, InRange
<1>7. all = [i \in 1 .. 3 * l + 1 |-> all[i]]
  <2>1. PICK T : all \in Seq(T) /\ Len(all) = 3 * l + 1
    BY <1>4
  <2> QED
    BY <2>1, SequenceIs
<1> QED
  BY <1>4, <1>5, <1>6, <1>7, Zenon DEF LaidOut

LEMMA CompileIs ==
    ASSUME NEW m, Planned(m), NEW n, n = Loaded(m), NEW digests, NEW by,
           NEW plan, plan = Compile(n, digests, by)
    PROVE  \E chains, aggregate :
              PlanIs(plan, n, Inputs(n, digests), by, Points(n), chains, aggregate)
<1> DEFINE ps == Points(n)
           l == Len(ps)
           inputs == Inputs(n, digests)
           Link(i) == Chain(n, ps[i], inputs, by)
           chains == [i \in DOMAIN ps |-> Link(i)]
           extracts == [i \in DOMAIN ps |-> chains[i][3].id]
           apayload == [measures |-> n.measures]
           anames == <<"results.json", "results.csv", "regression-bundle.json">>
           aggregate == Activity("aggregate", None, extracts, <<>>, anames, apayload, n.measures)
           all == Append(FlattenSeq(chains), aggregate)
           Rest(i) == LooseChain(n, ps[i], inputs)
           rest == [i \in DOMAIN ps |-> Rest(i)]
           loose == Append(FlattenSeq(rest), LooseAggregate(n))
           limits == [name \in DOMAIN n.limits \cup {"simulator"} |->
                        IF name \in DOMAIN n.limits THEN n.limits[name] ELSE n.jobs]
           pid == PlanId(all, n.jobs, limits, n.failFast)
<1>1. plan = [id |-> pid, activities |-> all, jobs |-> n.jobs, limits |-> limits,
              failFast |-> n.failFast, loose |-> loose, path |-> n.path]
  BY DEF Compile
<1>2. l \in Nat \ {0} /\ DOMAIN ps = 1 .. l
  BY PointsAre
<1>3. ASSUME NEW i \in 1 .. l
      PROVE  Len(Link(i)) = 3 /\ Link(i) = <<Link(i)[1], Link(i)[2], Link(i)[3]>>
             /\ IsChain(Link(i), n, ps[i], inputs, by)
  <2>1. PICK c : c = Link(i)
    OBVIOUS
  <2>2. PICK p : p = ps[i]
    OBVIOUS
  <2> HIDE DEF inputs, ps
  <2>3. Len(c) = 3 /\ c = <<c[1], c[2], c[3]>> /\ IsChain(c, n, p, inputs, by)
    BY <2>1, <2>2, ChainIs DEF IsChain
  <2> HIDE DEF Link
  <2> QED
    BY <2>1, <2>2, <2>3
<1>4. IsAggregate(aggregate, n, extracts)
  <2> HIDE DEF extracts, apayload, anames
  <2>1. PICK a : a = aggregate
    OBVIOUS
  <2>2. /\ IsActivity(a) /\ a.kind = "aggregate" /\ a.point = None /\ a.deps = extracts
        /\ a.inputs = <<>> /\ a.artifacts = anames /\ a.payload = apayload /\ a.identity = n.measures
    BY <2>1, ActivityIs
  <2> HIDE DEF aggregate
  <2> QED
    BY <2>1, <2>2 DEF IsAggregate, apayload, anames
<1>5. \A i \in 1 .. l : Rest(i) = <<Rest(i)[1], Rest(i)[2], Rest(i)[3]>>
  BY DEF LooseChain
<1> HIDE DEF ps, l, inputs, Link, Rest, aggregate, apayload, anames
<1>6. /\ DOMAIN chains = 1 .. l /\ \A i \in 1 .. l : chains[i] = Link(i)
      /\ chains = [i \in 1 .. l |-> chains[i]]
      /\ rest = [i \in 1 .. l |-> rest[i]] /\ \A i \in 1 .. l : rest[i] = Rest(i)
  BY <1>2
<1>7. extracts = [i \in 1 .. l |-> chains[i][3].id]
  BY <1>2
<1> HIDE DEF chains, rest, extracts
<1>8. /\ all \in Seq(Range(all)) /\ Len(all) = 3 * l + 1 /\ DOMAIN all = 1 .. 3 * l + 1
      /\ \A i \in 1 .. l, k \in 1 .. 3 : all[3 * (i-1) + k] = chains[i][k]
      /\ all[3 * l + 1] = aggregate
  <2>1. Triples(chains, l)
    <3>1. \A i \in 1 .. l : chains[i] = <<chains[i][1], chains[i][2], chains[i][3]>>
      BY <1>3, <1>6
    <3> QED
      BY <1>6, <3>1, Zenon DEF Triples
  <2>2. PICK a, c, last : a = all /\ c = chains /\ last = aggregate
    OBVIOUS
  <2>3. a = Append(FlattenSeq(c), last) /\ Triples(c, l)
    BY <2>1, <2>2
  <2>4. PICK k : k = l
    OBVIOUS
  <2>5. k \in Nat \ {0} /\ Triples(c, k)
    BY <1>2, <2>3, <2>4
  <2>6. LaidOut(a, c, k, last)
    BY <2>3, <2>5, Laid, Zenon
  <2> HIDE DEF all
  <2> QED
    BY <2>2, <2>4, <2>6 DEF LaidOut
<1>9. /\ loose = [i \in 1 .. 3 * l + 1 |-> loose[i]]
      /\ \A i \in 1 .. l, k \in 1 .. 3 : loose[3 * (i-1) + k] = rest[i][k]
      /\ loose[3 * l + 1] = LooseAggregate(n)
  <2>1. Triples(rest, l)
    <3>1. \A i \in 1 .. l : rest[i] = <<rest[i][1], rest[i][2], rest[i][3]>>
      BY <1>5, <1>6
    <3> QED
      BY <1>6, <3>1, Zenon DEF Triples
  <2>2. PICK a, c, last : a = loose /\ c = rest /\ last = LooseAggregate(n)
    OBVIOUS
  <2>3. a = Append(FlattenSeq(c), last) /\ Triples(c, l)
    BY <2>1, <2>2
  <2>4. PICK k : k = l
    OBVIOUS
  <2>5. k \in Nat \ {0} /\ Triples(c, k)
    BY <1>2, <2>3, <2>4
  <2>6. LaidOut(a, c, k, last)
    BY <2>3, <2>5, Laid, Zenon
  <2> HIDE DEF loose
  <2> QED
    BY <2>2, <2>4, <2>6 DEF LaidOut
<1>10. \A i \in 1 .. l, k \in 1 .. 3 : loose[3 * (i-1) + k] = LooseChain(n, ps[i], inputs)[k]
  BY <1>6, <1>9 DEF Rest
<1>12. n.jobs \in Int /\ n.jobs > 0 /\ n.failFast \in BOOLEAN
       /\ \A name \in DOMAIN n.limits : n.limits[name] > 0
  <2>1. LoadedFrom(n, m)
    BY LoadedIs DEF Planned
  <2>2. n.jobs = m.jobs /\ n.failFast = m.failFast /\ n.limits = m.limits
    BY <2>1 DEF LoadedFrom
  <2>3. m.jobs \in Int /\ m.failFast \in BOOLEAN
    BY DEF Planned, IsManifest, Manifest
  <2>4. m.jobs > 0 /\ \A name \in DOMAIN m.limits : m.limits[name] > 0
    BY DEF Planned, Accepted, RunAccepted
  <2> QED
    BY <2>2, <2>3, <2>4
<1>13. \A name \in DOMAIN limits : limits[name] > 0
  BY <1>12
<1> HIDE DEF all, limits, pid, loose
<1>14. /\ plan.activities = all /\ plan.id = pid /\ plan.limits = limits /\ plan.loose = loose
       /\ plan = [id |-> plan.id, activities |-> all, jobs |-> n.jobs, limits |-> plan.limits,
                  failFast |-> n.failFast, loose |-> plan.loose, path |-> plan.path]
  BY <1>1
<1>16. PlanIs(plan, n, inputs, by, ps, chains, aggregate)
  <2>1. DOMAIN chains = 1 .. l
    BY <1>6
  <2>2. \A i \in 1 .. l : IsChain(chains[i], n, ps[i], inputs, by)
    BY <1>3, <1>6
  <2>3. IsAggregate(aggregate, n, [i \in 1 .. l |-> chains[i][3].id])
    BY <1>4, <1>7
  <2>4. plan.id = PlanId(all, n.jobs, plan.limits, n.failFast)
    BY <1>14 DEF pid
  <2> QED
    BY <1>2, <1>8, <1>9, <1>10, <1>12, <1>13, <1>14, <2>1, <2>2, <2>3, <2>4 DEF PlanIs, l
<1> QED
  BY <1>16 DEF ps, inputs

(* Whatever is in a plan is the render, simulate or extract activity of a   *)
(* point or the aggregate.                                                 *)
(* A sequence with one element before it.                                  *)
HeadedBy(all, first, t, l) ==
    /\ Len(all) = l + 1 /\ all = [i \in 1 .. l + 1 |-> all[i]] /\ all[1] = first
    /\ \A i \in 1 .. l : all[i + 1] = t[i]

LEMMA Headed ==
    ASSUME NEW S, NEW s \in Seq(S), Len(s) = 1, NEW t \in Seq(S), NEW all, all = s \o t,
           NEW l \in Nat, l = Len(t)
    PROVE  HeadedBy(all, s[1], t, l)
<1>1. /\ all \in Seq(S) /\ Len(all) = Len(s) + Len(t)
      /\ \A i \in 1 .. Len(s) + Len(t) : all[i] = IF i <= Len(s) THEN s[i] ELSE t[i - Len(s)]
  BY ConcatProperties
<1>2. Len(all) = l + 1 /\ all = [i \in 1 .. l + 1 |-> all[i]]
  <2>1. Len(all) = l + 1
    BY <1>1
  <2> QED
    BY <1>1, <2>1, SequenceIs
<1>3. all[1] = s[1]
  BY <1>1
<1>4. ASSUME NEW i \in 1 .. l PROVE all[i + 1] = t[i]
  <2>1. i + 1 \in 1 .. Len(s) + Len(t) /\ ~(i + 1 <= Len(s)) /\ i + 1 - Len(s) = i
    OBVIOUS
  <2> QED
    BY <1>1, <2>1
<1> QED
  BY <1>2, <1>3, <1>4 DEF HeadedBy

(* The inputs of a render are the deck and the copies, which lie where the *)
(* manifest says.                                                          *)
DeckAndCopies(inputs, n, m, digests) ==
    /\ m.inputs \in Seq(STRING) /\ n.inputs = m.inputs
    /\ Len(inputs) = Len(m.inputs) + 1 /\ DOMAIN inputs = 1 .. Len(m.inputs) + 1
    /\ inputs[1] = [logical |-> Template, sha |-> digests[n.deck]]
    /\ \A i \in 1 .. Len(m.inputs) :
        inputs[i + 1] = [logical |-> m.inputs[i], sha |-> digests[m.inputs[i]]]

LEMMA InputsAre ==
    ASSUME NEW m, Planned(m), NEW n, n = Loaded(m), NEW digests,
           NEW inputs, inputs = Inputs(n, digests)
    PROVE  DeckAndCopies(inputs, n, m, digests)
<1>1. m.inputs \in Seq(STRING)
  BY DEF Planned, IsManifest, Manifest
<1>2. n.inputs = m.inputs
  <2>1. LoadedFrom(n, m)
    BY LoadedIs DEF Planned
  <2> QED
    BY <2>1 DEF LoadedFrom
<1> DEFINE Digest(file, logical) == [logical |-> logical, sha |-> digests[file]]
           s == <<Digest(n.deck, Template)>>
           q == m.inputs
           t == [i \in DOMAIN q |-> Digest(q[i], q[i])]
           S == {Digest(n.deck, Template)} \cup {Digest(q[i], q[i]) : i \in DOMAIN q}
<1>3. inputs = s \o t
  BY <1>2 DEF Inputs
<1>4. q \in Seq(STRING) /\ DOMAIN q = 1 .. Len(q) /\ Len(q) \in Nat
  BY <1>1
<1> HIDE DEF q, Digest
<1>5. s \in Seq(S) /\ Len(s) = 1 /\ s[1] = Digest(n.deck, Template)
  OBVIOUS
<1>6. t \in Seq(S) /\ Len(t) = Len(q) /\ \A i \in 1 .. Len(q) : t[i] = Digest(q[i], q[i])
  <2>1. \A i \in 1 .. Len(q) : Digest(q[i], q[i]) \in S
    BY <1>4
  <2> HIDE DEF S
  <2> QED
    BY <1>4, <2>1
<1> HIDE DEF s, t, S
<1>7. HeadedBy(inputs, s[1], t, Len(q))
  BY <1>3, <1>4, <1>5, <1>6, Headed
<1> QED
  BY <1>1, <1>2, <1>5, <1>6, <1>7 DEF q, Digest, DeckAndCopies, HeadedBy

(* Those files are in the manifest's directory.                            *)
LEMMA PathsAre ==
    ASSUME NEW m, Planned(m), NEW n, n = Loaded(m)
    PROVE  /\ Paths(n) = [i \in 1 .. Len(m.inputs) + 1 |-> Paths(n)[i]] /\ Paths(n)[1] = n.deck
           /\ \A i \in 1 .. Len(m.inputs) : Paths(n)[i + 1] = m.inputs[i]
           /\ \A i \in DOMAIN Paths(n) : Paths(n)[i] \in Files
<1>1. m.inputs \in Seq(STRING) /\ n.inputs = m.inputs /\ n.deck = m.deck
  <2>1. LoadedFrom(n, m)
    BY LoadedIs DEF Planned
  <2> QED
    BY <2>1 DEF LoadedFrom, Planned, IsManifest, Manifest
<1>2. {m.deck} \cup Range(m.inputs) \subseteq Files
  BY DEF Planned, Accepted, TemplateAccepted
<1> DEFINE s == <<n.deck>>
           t == m.inputs
           l == Len(t)
           S == STRING \cup {n.deck}
<1>3. t \in Seq(S) /\ l \in Nat /\ DOMAIN t = 1 .. l
  BY <1>1
<1>4. \A i \in 1 .. l : t[i] \in Files
  BY <1>2, <1>3 DEF Range
<1>5. s \in Seq(S) /\ Len(s) = 1 /\ s[1] = n.deck
  OBVIOUS
<1>6. Paths(n) = s \o t
  BY <1>1 DEF Paths
<1> HIDE DEF s, t, S, l
<1>7. HeadedBy(Paths(n), s[1], t, l)
  BY <1>3, <1>5, <1>6, Headed DEF l
<1>8. \A i \in 1 .. l + 1 : i = 1 \/ (i - 1 \in 1 .. l /\ i - 1 + 1 = i)
  BY <1>3
<1>9. ASSUME NEW i \in 1 .. l + 1 PROVE Paths(n)[i] \in Files
  <2>1. CASE i = 1
    BY <1>1, <1>2, <1>5, <1>7, <2>1 DEF HeadedBy
  <2>2. CASE i # 1
    <3>1. i - 1 \in 1 .. l /\ i - 1 + 1 = i
      BY <1>8, <2>2
    <3>2. Paths(n)[i - 1 + 1] = t[i - 1]
      BY <1>7, <3>1 DEF HeadedBy
    <3> QED
      BY <1>4, <3>1, <3>2
  <2> QED
    BY <2>1, <2>2
<1> QED
  BY <1>5, <1>7, <1>9 DEF HeadedBy, t, l

Member(a, n, inputs, by, ps) ==
    \/ \E p \in Range(ps) : \/ IsRender(a, n, p, inputs)
                            \/ \E d : IsSimulate(a, n, p, d, by)
                            \/ \E d : IsExtract(a, n, p, d)
    \/ \E d : IsAggregate(a, n, d)

LEMMA Members ==
    ASSUME NEW plan, NEW n, NEW inputs, NEW by, NEW ps, NEW chains, NEW aggregate,
           PlanIs(plan, n, inputs, by, ps, chains, aggregate), DOMAIN ps = 1 .. Len(ps),
           NEW x \in DOMAIN plan.activities
    PROVE  Member(plan.activities[x], n, inputs, by, ps)
<1> DEFINE acts == plan.activities
           l == Len(ps)
<1>1. x \in 1 .. 3 * l + 1 /\ l \in Nat
  BY DEF PlanIs
<1>2. CASE x = 3 * l + 1
  <2>1. IsAggregate(acts[x], n, [i \in 1 .. l |-> chains[i][3].id])
    BY <1>2 DEF PlanIs
  <2> QED
    BY <2>1, Zenon DEF Member
<1>3. CASE x # 3 * l + 1
  <2>1. x \in 1 .. 3 * l
    BY <1>1, <1>3
  <2>2. PICK i \in 1 .. l, k \in 1 .. 3 : x = 3 * (i - 1) + k
    BY <1>1, <2>1, Threes
  <2>3. acts[x] = chains[i][k] /\ IsChain(chains[i], n, ps[i], inputs, by) /\ ps[i] \in Range(ps)
    BY <2>2 DEF PlanIs, Range
  <2>4. k = 1 \/ k = 2 \/ k = 3
    OBVIOUS
  <2> HIDE DEF acts
  <2>5. acts[x] = chains[i][1] \/ acts[x] = chains[i][2] \/ acts[x] = chains[i][3]
    BY <2>3, <2>4
  <2>6. \/ IsRender(acts[x], n, ps[i], inputs)
        \/ IsSimulate(acts[x], n, ps[i], chains[i][1].id, by)
        \/ IsExtract(acts[x], n, ps[i], chains[i][2].id)
    BY <2>3, <2>5, Zenon DEF IsChain
  <2>7. Member(acts[x], n, inputs, by, ps)
    BY <2>3, <2>6, Zenon DEF Member
  <2> QED
    BY <2>7 DEF acts
<1> QED
  BY <1>2, <1>3

LEMMA IdIsDue ==
    ASSUME NEW a, IsActivity(a)
    PROVE  a.id = ActivityId(a)
<1> DEFINE u == ActivityId(a)
<1>1. a = [id |-> u, kind |-> a.kind, point |-> a.point, deps |-> a.deps,
           inputs |-> a.inputs, artifacts |-> a.artifacts, payload |-> a.payload,
           identity |-> a.identity]
  BY DEF IsActivity
<1> HIDE DEF u
<1>2. a.id = u
  BY <1>1
<1> QED
  BY <1>2 DEF u

(* Two activities of a kind differ in nothing that decoding does not miss. *)
LEMMA FieldIsKept ==
    ASSUME NEW n, NEW inputs, NEW by, NEW ps,
           NEW a, Member(a, n, inputs, by, ps),
           NEW b, Member(b, n, inputs, by, ps), a.kind = b.kind,
           NEW field \in {"payload", "point", "deps", "inputs", "id"},
           NEW c, c = Taking(a, field, b), c.id = a.id, NEW l, ActivityDecodes(c, l)
    PROVE  c = a
<1>0. c = [a EXCEPT ![field] = b[field]]
  BY DEF Taking
<1>1. IsActivity(a) /\ IsActivity(b)
  BY DEF Member, IsRender, IsSimulate, IsExtract, IsAggregate
<1>2. ActivityId(c) = ActivityId(a)
  <2>1. a.id = ActivityId(a)
    BY <1>1, IdIsDue
  <2>2. c.id = ActivityId(c)
    BY Zenon DEF ActivityDecodes
  <2> QED
    BY <2>1, <2>2
<1>3. b[field] = a[field] => c = a
  <2> DEFINE u == ActivityId(a)
  <2>1. a = [id |-> u, kind |-> a.kind, point |-> a.point, deps |-> a.deps,
             inputs |-> a.inputs, artifacts |-> a.artifacts, payload |-> a.payload,
             identity |-> a.identity]
    BY <1>1 DEF IsActivity
  <2> HIDE DEF u
  <2> QED
    BY <1>0, <2>1
<1>4. SUFFICES b[field] = a[field]
  BY <1>3
<1>5. CASE field = "id"
  BY <1>0, <1>1, <1>5 DEF IsActivity
<1>6. CASE field = "deps"
  BY <1>0, <1>1, <1>2, <1>6 DEF IsActivity, ActivityId, Fingerprint
<1>7. CASE field = "inputs"
  BY <1>7 DEF Member, IsRender, IsSimulate, IsExtract, IsAggregate
<1>8. CASE field = "point"
  <2>1. c.point = b.point
    BY <1>0, <1>1, <1>8 DEF IsActivity
  <2>2. c.point = a.point
    BY <1>2 DEF ActivityId, Fingerprint
  <2> QED
    BY <1>8, <2>1, <2>2
<1>9. CASE field = "payload"
  <2>1. /\ c.payload = b.payload /\ c.kind = a.kind /\ c.point = a.point
        /\ c.inputs = a.inputs /\ c.identity = a.identity
    BY <1>0, <1>1, <1>9 DEF IsActivity
  <2>2. Contract(c, l)
    BY Zenon DEF ActivityDecodes
  <2>3. SUFFICES b.payload = a.payload
    BY <1>9
  <2>4. CASE a.kind = "render"
    <3>1. c.payload.point = Dict(c.point)
      BY <2>1, <2>2, <2>4 DEF Contract, RenderContract
    <3>2. PICK p : IsRender(a, n, p, inputs)
      BY <2>4 DEF Member, IsSimulate, IsExtract, IsAggregate
    <3>3. PICK q : IsRender(b, n, q, inputs)
      BY <2>4 DEF Member, IsSimulate, IsExtract, IsAggregate
    <3> QED
      BY <2>1, <3>1, <3>2, <3>3 DEF IsRender
  <2>5. CASE a.kind = "simulate"
    <3>1. PICK p, d : IsSimulate(a, n, p, d, by)
      BY <2>5 DEF Member, IsRender, IsExtract, IsAggregate
    <3>2. PICK q, e : IsSimulate(b, n, q, e, by)
      BY <2>5 DEF Member, IsRender, IsExtract, IsAggregate
    <3> QED
      BY <3>1, <3>2 DEF IsSimulate
  <2>6. CASE a.kind = "extract"
    <3>1. c.payload.point = Dict(c.point)
      BY <2>1, <2>2, <2>6 DEF Contract, ExtractContract
    <3>2. PICK p, d : IsExtract(a, n, p, d)
      BY <2>6 DEF Member, IsSimulate, IsRender, IsAggregate
    <3>3. PICK q, e : IsExtract(b, n, q, e)
      BY <2>6 DEF Member, IsSimulate, IsRender, IsAggregate
    <3> QED
      BY <2>1, <3>1, <3>2, <3>3 DEF IsExtract
  <2>7. CASE a.kind = "aggregate"
    <3>1. PICK d : IsAggregate(a, n, d)
      BY <2>7 DEF Member, IsSimulate, IsRender, IsExtract
    <3>2. PICK e : IsAggregate(b, n, e)
      BY <2>7 DEF Member, IsSimulate, IsRender, IsExtract
    <3> QED
      BY <3>1, <3>2 DEF IsAggregate
  <2> QED
    BY <2>4, <2>5, <2>6, <2>7 DEF Member, IsRender, IsSimulate, IsExtract, IsAggregate
<1> QED
  BY <1>5, <1>6, <1>7, <1>8, <1>9

\* what no id covers, with the files that it names
IsLoose(l) == l = Loose(l.index, l.rank, l.paths, l.template, l.copies, l.resources, l.timeout)
Placed(a, l) == IsLoose(l) /\ l.paths = [i \in DOMAIN a.inputs |-> l.paths[i]]
                           /\ \A i \in DOMAIN a.inputs : l.paths[i] \in Files

\* what decoding compares of it
Bound(a, l) ==
    /\ a.kind = "render" => l.template = l.paths[1] /\ l.copies = Copies(a.inputs, l.paths)
    /\ a.kind = "extract" => l.rank = l.index

LooseEdits(l, x, y, ps, z, c, res, time) ==
    \A u, q :
        /\ [l EXCEPT !.timeout = u] = Loose(x, y, ps, z, c, res, u)
        /\ [l EXCEPT !.resources = u] = Loose(x, y, ps, z, c, u, time)
        /\ [l EXCEPT !.index = u] = Loose(u, y, ps, z, c, res, time)
        /\ [l EXCEPT !.rank = u] = Loose(x, u, ps, z, c, res, time)
        /\ [l EXCEPT !.rank = u, !.index = u] = Loose(u, u, ps, z, c, res, time)
        /\ [l EXCEPT !.template = u] = Loose(x, y, ps, u, c, res, time)
        /\ [l EXCEPT !.copies = u] = Loose(x, y, ps, z, u, res, time)
        /\ [l EXCEPT !.paths = q] = Loose(x, y, q, z, c, res, time)
        /\ [l EXCEPT !.paths = q, !.template = u] = Loose(x, y, q, u, c, res, time)
        /\ [l EXCEPT !.paths = q, !.copies = u] = Loose(x, y, q, z, u, res, time)

LEMMA LooseIs ==
    ASSUME NEW x, NEW y, NEW ps, NEW z, NEW c, NEW res, NEW time,
           NEW l, l = Loose(x, y, ps, z, c, res, time)
    PROVE  /\ IsLoose(l) /\ l.paths = ps /\ l.template = z /\ l.copies = c /\ l.rank = y /\ l.index = x
           /\ LooseEdits(l, x, y, ps, z, c, res, time)
<1>1. ASSUME NEW u, NEW q
      PROVE
            /\ [l EXCEPT !.timeout = u] = Loose(x, y, ps, z, c, res, u)
            /\ [l EXCEPT !.resources = u] = Loose(x, y, ps, z, c, u, time)
            /\ [l EXCEPT !.index = u] = Loose(u, y, ps, z, c, res, time)
            /\ [l EXCEPT !.rank = u] = Loose(x, u, ps, z, c, res, time)
            /\ [l EXCEPT !.rank = u, !.index = u] = Loose(u, u, ps, z, c, res, time)
            /\ [l EXCEPT !.template = u] = Loose(x, y, ps, u, c, res, time)
            /\ [l EXCEPT !.copies = u] = Loose(x, y, ps, z, u, res, time)
            /\ [l EXCEPT !.paths = q] = Loose(x, y, q, z, c, res, time)
            /\ [l EXCEPT !.paths = q, !.template = u] = Loose(x, y, q, u, c, res, time)
            /\ [l EXCEPT !.paths = q, !.copies = u] = Loose(x, y, q, z, u, res, time)
  <2>1. [l EXCEPT !.timeout = u] = Loose(x, y, ps, z, c, res, u)
    BY DEF Loose
  <2>2. [l EXCEPT !.resources = u] = Loose(x, y, ps, z, c, u, time)
    BY DEF Loose
  <2>3. [l EXCEPT !.index = u] = Loose(u, y, ps, z, c, res, time)
    BY DEF Loose
  <2>4. [l EXCEPT !.rank = u] = Loose(x, u, ps, z, c, res, time)
    BY DEF Loose
  <2>5. [l EXCEPT !.rank = u, !.index = u] = Loose(u, u, ps, z, c, res, time)
    <3>1. PICK k : k = [l EXCEPT !.rank = u]
      OBVIOUS
    <3>2. k = Loose(x, u, ps, z, c, res, time)
      BY <3>1 DEF Loose
    <3>3. [k EXCEPT !.index = u] = Loose(u, u, ps, z, c, res, time)
      BY <3>2 DEF Loose
    <3>4. [l EXCEPT !.rank = u, !.index = u] = [k EXCEPT !.index = u]
      BY <3>1
    <3> QED
      BY <3>3, <3>4
  <2>6. [l EXCEPT !.template = u] = Loose(x, y, ps, u, c, res, time)
    BY DEF Loose
  <2>7. [l EXCEPT !.copies = u] = Loose(x, y, ps, z, u, res, time)
    BY DEF Loose
  <2>8. [l EXCEPT !.paths = q] = Loose(x, y, q, z, c, res, time)
    BY DEF Loose
  <2>9. [l EXCEPT !.paths = q, !.template = u] = Loose(x, y, q, u, c, res, time)
    <3>1. PICK k : k = [l EXCEPT !.paths = q]
      OBVIOUS
    <3>2. k = Loose(x, y, q, z, c, res, time)
      BY <3>1 DEF Loose
    <3>3. [k EXCEPT !.template = u] = Loose(x, y, q, u, c, res, time)
      BY <3>2 DEF Loose
    <3>4. [l EXCEPT !.paths = q, !.template = u] = [k EXCEPT !.template = u]
      BY <3>1
    <3> QED
      BY <3>3, <3>4
  <2>10. [l EXCEPT !.paths = q, !.copies = u] = Loose(x, y, q, z, u, res, time)
    <3>1. PICK k : k = [l EXCEPT !.paths = q]
      OBVIOUS
    <3>2. k = Loose(x, y, q, z, c, res, time)
      BY <3>1 DEF Loose
    <3>3. [k EXCEPT !.copies = u] = Loose(x, y, q, z, u, res, time)
      BY <3>2 DEF Loose
    <3>4. [l EXCEPT !.paths = q, !.copies = u] = [k EXCEPT !.copies = u]
      BY <3>1
    <3> QED
      BY <3>3, <3>4
  <2> QED
    BY <2>1, <2>2, <2>3, <2>4, <2>5, <2>6, <2>7, <2>8, <2>9, <2>10
<1>2. LooseEdits(l, x, y, ps, z, c, res, time)
  BY <1>1 DEF LooseEdits
<1>3. l.index = x /\ l.rank = y
  BY DEF Loose
<1>4. l.paths = ps /\ l.template = z
  BY DEF Loose
<1>5. l.copies = c /\ l.resources = res
  BY DEF Loose
<1>6. l.timeout = time
  BY DEF Loose
<1>7. IsLoose(l)
  BY <1>3, <1>4, <1>5, <1>6 DEF IsLoose
<1> QED
  BY <1>2, <1>3, <1>4, <1>5, <1>7

(* However one thing that no id covers is altered, it is a record of such  *)
(* things and its paths are files.                                         *)
LEMMA LoosenedIs ==
    ASSUME NEW a, NEW l, Placed(a, l), NEW unused, NEW k \in Loosened(a, l, unused)
    PROVE  Placed(a, k)
<1> DEFINE D == DOMAIN a.inputs
           On(ps) == ps = [i \in D |-> ps[i]] /\ \A i \in D : ps[i] \in Files
<1>1. PICK index, rank, paths, template, copies, resources, timeout :
        l = Loose(index, rank, paths, template, copies, resources, timeout) /\ paths = l.paths
  BY Zenon DEF Placed, IsLoose
<1>u. LooseEdits(l, index, rank, paths, template, copies, resources, timeout)
  BY <1>1, LooseIs
<1>2. On(paths)
  BY <1>1 DEF Placed
<1>3. ASSUME NEW x, NEW y, NEW ps, NEW z, NEW c, NEW res, NEW time, On(ps),
             k = Loose(x, y, ps, z, c, res, time)
      PROVE  Placed(a, k)
  <2> HIDE DEF On
  <2>1. IsLoose(k) /\ k.paths = ps
    BY <1>3, LooseIs
  <2> QED
    BY <1>3, <2>1, Zenon DEF On, Placed
<1> DEFINE Fine(j) == \E x, y, ps, z, c, res, time : On(ps) /\ j = Loose(x, y, ps, z, c, res, time)
<1>4. SUFFICES Fine(k)
  BY <1>3
<1>5. ASSUME NEW t PROVE Fine([l EXCEPT !.timeout = t]) /\ Fine([l EXCEPT !.resources = t])
  <2> HIDE DEF On
  <2>1. /\ [l EXCEPT !.timeout = t] = Loose(index, rank, paths, template, copies, resources, t)
        /\ [l EXCEPT !.resources = t] = Loose(index, rank, paths, template, copies, t, timeout)
    BY <1>u, Zenon DEF LooseEdits
  <2> QED
    BY <1>2, <2>1
<1>6. ASSUME NEW t
      PROVE  /\ Fine([l EXCEPT !.index = t]) /\ Fine([l EXCEPT !.rank = t])
             /\ Fine([l EXCEPT !.rank = t, !.index = t])
  <2> HIDE DEF On
  <2>1. /\ [l EXCEPT !.index = t] = Loose(t, rank, paths, template, copies, resources, timeout)
        /\ [l EXCEPT !.rank = t] = Loose(index, t, paths, template, copies, resources, timeout)
        /\ [l EXCEPT !.rank = t, !.index = t] = Loose(t, t, paths, template, copies, resources, timeout)
    BY <1>u, Zenon DEF LooseEdits
  <2> QED
    BY <1>2, <2>1
<1>7. ASSUME NEW i \in DOMAIN l.paths, NEW f \in Elsewhere, k \in Moving(a, l, [l.paths EXCEPT ![i] = f])
      PROVE  Fine(k)
  <2>1. PICK ps : ps = [l.paths EXCEPT ![i] = f]
    OBVIOUS
  <2>2. On(ps)
    <3>1. f \in Files
      BY ReplayAssumption
    <3> QED
      BY <1>1, <1>2, <2>1, <3>1
  <2>3. PICK u, v : u = ps[1] /\ v = Copies(a.inputs, ps)
    OBVIOUS
  <2>4. \/ k = [l EXCEPT !.paths = ps]
        \/ k = [l EXCEPT !.template = u]
        \/ k = [l EXCEPT !.paths = ps, !.template = u]
        \/ k = [l EXCEPT !.copies = v]
        \/ k = [l EXCEPT !.paths = ps, !.copies = v]
    BY <1>7, <2>1, <2>3, Zenon DEF Moving
  <2> HIDE DEF On
  <2>5. \/ k = Loose(index, rank, ps, template, copies, resources, timeout)
        \/ k = Loose(index, rank, paths, u, copies, resources, timeout)
        \/ k = Loose(index, rank, ps, u, copies, resources, timeout)
        \/ k = Loose(index, rank, paths, template, v, resources, timeout)
        \/ k = Loose(index, rank, ps, template, v, resources, timeout)
    <3>1. /\ [l EXCEPT !.paths = ps] = Loose(index, rank, ps, template, copies, resources, timeout)
          /\ [l EXCEPT !.template = u] = Loose(index, rank, paths, u, copies, resources, timeout)
          /\ [l EXCEPT !.paths = ps, !.template = u]
                = Loose(index, rank, ps, u, copies, resources, timeout)
      BY <1>u DEF LooseEdits
    <3>2. /\ [l EXCEPT !.copies = v] = Loose(index, rank, paths, template, v, resources, timeout)
          /\ [l EXCEPT !.paths = ps, !.copies = v]
                = Loose(index, rank, ps, template, v, resources, timeout)
      BY <1>u DEF LooseEdits
    <3> QED
      BY <2>4, <3>1, <3>2, Zenon
  <2> QED
    BY <1>2, <2>2, <2>5, Zenon
<1> DEFINE A == {[l EXCEPT !.timeout = 0], [l EXCEPT !.timeout = 2 * @],
                 [l EXCEPT !.resources = [licence |-> 0]], [l EXCEPT !.resources = [licence |-> 1]]}
           B(j) == Reranking(l, j)
           C(i, f) == Moving(a, l, [l.paths EXCEPT ![i] = f])
           J == {0, unused}
           D2 == DOMAIN l.paths
<1> HIDE DEF Fine
<1>8. Loosened(a, l, unused) = A \cup (UNION {B(j) : j \in J})
                                \cup (UNION {C(i, f) : i \in D2, f \in Elsewhere})
  BY DEF Loosened
<1>9. ASSUME NEW j, k \in B(j) PROVE Fine(k)
  <2>1. k \in {[l EXCEPT !.index = j], [l EXCEPT !.rank = j], [l EXCEPT !.rank = j, !.index = j]}
    BY <1>9 DEF Reranking
  <2> QED
    BY <1>6, <2>1, Zenon
<1>10. CASE k \in A
  <2>1. [l EXCEPT !.timeout = 2 * @] = [l EXCEPT !.timeout = 2 * l.timeout]
    OBVIOUS
  <2>2. \/ k = [l EXCEPT !.timeout = 0]
        \/ k = [l EXCEPT !.timeout = 2 * l.timeout]
        \/ k = [l EXCEPT !.resources = [licence |-> 0]]
        \/ k = [l EXCEPT !.resources = [licence |-> 1]]
    BY <1>10, <2>1
  <2> QED
    BY <1>5, <2>2, Zenon
<1> HIDE DEF A, B, C, J
<1>11. CASE k \in UNION {B(j) : j \in J}
  BY <1>9, <1>11
<1>12. CASE k \in UNION {C(i, f) : i \in D2, f \in Elsewhere}
  <2>1. PICK i \in D2, f \in Elsewhere : k \in C(i, f)
    BY <1>12
  <2> QED
    BY <1>7, <2>1, Zenon DEF C
<1> QED
  BY <1>8, <1>10, <1>11, <1>12

\* a plan with the work of another: the same activities in the same order,
\* the same id, jobs, limits and fail_fast, and beside each activity what
\* decoding lets stand there
IsPlan(p) == p = [id |-> p.id, activities |-> p.activities, jobs |-> p.jobs, limits |-> p.limits,
                 failFast |-> p.failFast, loose |-> p.loose, path |-> p.path]
Stands(p, base) ==
    /\ IsPlan(p)
    /\ p.id = base.id /\ p.activities = base.activities /\ p.jobs = base.jobs
    /\ p.limits = base.limits /\ p.failFast = base.failFast
    /\ p.loose = [i \in DOMAIN base.activities |-> p.loose[i]]
    /\ \A i \in DOMAIN base.activities :
            Placed(base.activities[i], p.loose[i]) /\ Bound(base.activities[i], p.loose[i])

(* The id of a render's template is that of its first input.               *)
LEMMA DecodedIsBound ==
    ASSUME NEW m, Planned(m), NEW n, n = Loaded(m), NEW digests, NEW by, NEW ps,
           NEW a, Member(a, n, Inputs(n, digests), by, ps), NEW l, ActivityDecodes(a, l)
    PROVE  Bound(a, l)
<1>1. Contract(a, l)
  BY Zenon DEF ActivityDecodes
<1>2. ASSUME a.kind = "extract" PROVE l.rank = l.index
  BY <1>1, <1>2 DEF Contract, ExtractContract
<1>3. ASSUME a.kind = "render"
      PROVE  l.template = l.paths[1] /\ l.copies = Copies(a.inputs, l.paths)
  <2>1. RenderContract(a, l)
    BY <1>1, <1>3 DEF Contract
  <2>2. PICK inputs : inputs = Inputs(n, digests)
    OBVIOUS
  <2>3. a.inputs = inputs
    BY <1>3, <2>2 DEF Member, IsRender, IsSimulate, IsExtract, IsAggregate
  <2>4. 1 \in DOMAIN inputs /\ inputs[1].logical = Template
    <3>1. DeckAndCopies(inputs, n, m, digests)
      BY <2>2, InputsAre, Zenon
    <3>2. Len(m.inputs) \in Nat
      BY <3>1 DEF DeckAndCopies
    <3> QED
      BY <3>1, <3>2 DEF DeckAndCopies
  <2>5. PICK i \in DOMAIN inputs : /\ l.paths[i] = l.template
                                  /\ \A j \in DOMAIN inputs \ {i} : inputs[j].logical # Template
    BY <2>1, <2>3 DEF RenderContract
  <2>6. i = 1
    BY <2>4, <2>5
  <2> QED
    BY <2>1, <2>5, <2>6 DEF RenderContract
<1> QED
  BY <1>2, <1>3 DEF Bound

(* A plan that was compiled stands for itself.                             *)
LEMMA CompiledStands ==
    ASSUME NEW m, Planned(m), NEW n, n = Loaded(m), NEW digests, NEW by,
           NEW plan, plan = Compile(n, digests, by)
    PROVE  Stands(plan, plan)
<1>1. PICK inputs, ps : inputs = Inputs(n, digests) /\ ps = Points(n)
  OBVIOUS
<1>2. PICK chains, aggregate : PlanIs(plan, n, inputs, by, ps, chains, aggregate)
  BY <1>1, CompileIs
<1> DEFINE acts == plan.activities
           l == Len(ps)
<1>3. /\ l \in Nat /\ DOMAIN acts = 1 .. 3 * l + 1 /\ DOMAIN plan.loose = 1 .. 3 * l + 1 /\ IsPlan(plan)
  BY <1>2 DEF PlanIs, IsPlan
<1>4. /\ DeckAndCopies(inputs, n, m, digests)
  BY <1>1, InputsAre, Zenon
<1>6. PICK paths, copies : paths = Paths(n) /\ copies = Copies(inputs, paths)
  OBVIOUS
<1>7. paths = [i \in DOMAIN inputs |-> paths[i]] /\ paths[1] = n.deck
      /\ \A i \in DOMAIN inputs : paths[i] \in Files
  <2>1. /\ paths = [i \in 1 .. Len(m.inputs) + 1 |-> paths[i]] /\ paths[1] = n.deck
        /\ \A i \in DOMAIN paths : paths[i] \in Files
    BY <1>6, PathsAre, Zenon
  <2>2. DOMAIN inputs = 1 .. Len(m.inputs) + 1
    BY <1>4 DEF DeckAndCopies
  <2>3. DOMAIN paths = 1 .. Len(m.inputs) + 1
    BY <2>1
  <2> QED
    BY <2>1, <2>2, <2>3, Zenon
<1>8. ASSUME NEW i \in 1 .. l
      PROVE  LET c == LooseChain(n, ps[i], inputs)
             IN  /\ Placed(chains[i][1], c[1]) /\ Bound(chains[i][1], c[1])
                 /\ Placed(chains[i][2], c[2]) /\ Bound(chains[i][2], c[2])
                 /\ Placed(chains[i][3], c[3]) /\ Bound(chains[i][3], c[3])
  <2>1. IsChain(chains[i], n, ps[i], inputs, by)
    BY <1>2 DEF PlanIs
  <2>2. PICK a, b, c : a = chains[i][1] /\ b = chains[i][2] /\ c = chains[i][3]
    OBVIOUS
  <2>3. /\ a.kind = "render" /\ a.inputs = inputs
        /\ b.kind = "simulate" /\ b.inputs = <<>>
        /\ c.kind = "extract" /\ c.inputs = <<>>
    BY <2>1, <2>2, Zenon DEF IsChain, IsRender, IsSimulate, IsExtract
  <2>4. PICK index, time : index = ps[i].index /\ time = n.timeout
    OBVIOUS
  <2>5. PICK u, v, w :
            /\ u = Loose(index, None, paths, n.deck, copies, <<>>, time)
            /\ v = Loose(index, None, <<>>, None, <<>>, [simulator |-> 1], time)
            /\ w = Loose(index, index, <<>>, None, <<>>, <<>>, time)
    OBVIOUS
  <2>6. LooseChain(n, ps[i], inputs) = <<u, v, w>>
    BY <1>6, <2>4, <2>5, Zenon DEF LooseChain
  <2>7. /\ IsLoose(u) /\ u.paths = paths /\ u.template = n.deck /\ u.copies = copies
        /\ IsLoose(v) /\ v.paths = <<>>
        /\ IsLoose(w) /\ w.paths = <<>> /\ w.rank = index /\ w.index = index
    <3>1. IsLoose(u) /\ u.paths = paths /\ u.template = n.deck /\ u.copies = copies
      BY <2>5, LooseIs
    <3>2. IsLoose(v) /\ v.paths = <<>>
      BY <2>5, LooseIs
    <3>3. IsLoose(w) /\ w.paths = <<>> /\ w.rank = index /\ w.index = index
      BY <2>5, LooseIs
    <3> QED
      BY <3>1, <3>2, <3>3
  <2>8. Placed(a, u) /\ Bound(a, u)
    BY <1>6, <1>7, <2>3, <2>7 DEF Placed, Bound
  <2>9. Placed(b, v) /\ Placed(c, w)
    <3>1. DOMAIN b.inputs = {} /\ DOMAIN c.inputs = {}
      BY <2>3
    <3>2. <<>> = [k \in DOMAIN b.inputs |-> <<>>[k]] /\ <<>> = [k \in DOMAIN c.inputs |-> <<>>[k]]
      BY <3>1
    <3> QED
      BY <2>7, <3>1, <3>2, Zenon DEF Placed
  <2>10. Bound(b, v) /\ Bound(c, w)
    BY <2>3, <2>7 DEF Bound
  <2> QED
    BY <2>2, <2>6, <2>8, <2>9, <2>10
<1>9. Placed(aggregate, LooseAggregate(n)) /\ Bound(aggregate, LooseAggregate(n))
  <2>1. aggregate.kind = "aggregate" /\ aggregate.inputs = <<>>
    BY <1>2 DEF PlanIs, IsAggregate
  <2>2. PICK w, time : w = LooseAggregate(n) /\ w = Loose(None, None, <<>>, None, <<>>, <<>>, time)
    BY DEF LooseAggregate
  <2>3. IsLoose(w) /\ w.paths = <<>>
    BY <2>2, LooseIs
  <2> QED
    BY <2>1, <2>2, <2>3 DEF Placed, Bound
<1>10. ASSUME NEW x \in DOMAIN acts PROVE Placed(acts[x], plan.loose[x]) /\ Bound(acts[x], plan.loose[x])
  <2>1. CASE x = 3 * l + 1
    <3>1. acts[x] = aggregate /\ plan.loose[x] = LooseAggregate(n)
      BY <1>2, <2>1 DEF PlanIs
    <3> QED
      BY <1>9, <3>1
  <2>2. CASE x # 3 * l + 1
    <3>1. x \in 1 .. 3 * l
      BY <1>3, <2>2
    <3>2. PICK i \in 1 .. l, k \in 1 .. 3 : x = 3 * (i - 1) + k
      BY <1>3, <3>1, Threes
    <3>3. acts[x] = chains[i][k] /\ plan.loose[x] = LooseChain(n, ps[i], inputs)[k]
      BY <1>2, <3>2 DEF PlanIs
    <3>4. k = 1 \/ k = 2 \/ k = 3
      OBVIOUS
    <3>5. PICK c : c = LooseChain(n, ps[i], inputs)
      OBVIOUS
    <3>6. /\ Placed(chains[i][1], c[1]) /\ Bound(chains[i][1], c[1])
          /\ Placed(chains[i][2], c[2]) /\ Bound(chains[i][2], c[2])
          /\ Placed(chains[i][3], c[3]) /\ Bound(chains[i][3], c[3])
      BY <1>8, <3>5
    <3> HIDE DEF acts
    <3> QED
      BY <3>3, <3>4, <3>5, <3>6
  <2> QED
    BY <2>1, <2>2
<1>11. plan.loose = [i \in DOMAIN acts |-> plan.loose[i]]
  <2>1. plan.loose = [i \in 1 .. 3 * l + 1 |-> plan.loose[i]]
    BY <1>2 DEF PlanIs
  <2> QED
    BY <1>3, <2>1
<1> QED
  BY <1>3, <1>10, <1>11 DEF Stands

\* the record that a plan is
PlanRecord(id, acts, jobs, limits, ff, loose, path) ==
    [id |-> id, activities |-> acts, jobs |-> jobs, limits |-> limits, failFast |-> ff,
     loose |-> loose, path |-> path]

LEMMA PlanRecordIs ==
    ASSUME NEW id, NEW acts, NEW jobs, NEW limits, NEW ff, NEW loose, NEW path,
           NEW p, p = PlanRecord(id, acts, jobs, limits, ff, loose, path)
    PROVE  /\ p.id = id /\ p.activities = acts /\ p.jobs = jobs /\ p.limits = limits
           /\ p.failFast = ff /\ p.loose = loose /\ IsPlan(p)
<1>1. p.id = id /\ p.activities = acts
  BY DEF PlanRecord
<1>2. p.jobs = jobs /\ p.limits = limits
  BY DEF PlanRecord
<1>3. p.failFast = ff /\ p.loose = loose
  BY DEF PlanRecord
<1>4. p.path = path
  BY DEF PlanRecord
<1>5. p = PlanRecord(p.id, p.activities, p.jobs, p.limits, p.failFast, p.loose, p.path)
  BY <1>1, <1>2, <1>3, <1>4
<1> QED
  BY <1>1, <1>2, <1>3, <1>5 DEF IsPlan, PlanRecord

LEMMA PlanEdited ==
    ASSUME NEW id, NEW acts, NEW jobs, NEW limits, NEW ff, NEW loose, NEW path,
           NEW p, p = PlanRecord(id, acts, jobs, limits, ff, loose, path), NEW u,
           NEW k, k = [p EXCEPT !.activities = u]
    PROVE  k = PlanRecord(id, u, jobs, limits, ff, loose, path)
BY DEF PlanRecord

LEMMA LooseEdited ==
    ASSUME NEW id, NEW acts, NEW jobs, NEW limits, NEW ff, NEW loose, NEW path,
           NEW p, p = PlanRecord(id, acts, jobs, limits, ff, loose, path), NEW u,
           NEW k, k = [p EXCEPT !.loose = u]
    PROVE  k = PlanRecord(id, acts, jobs, limits, ff, u, path)
BY DEF PlanRecord

LEMMA JobsEdited ==
    ASSUME NEW id, NEW acts, NEW jobs, NEW limits, NEW ff, NEW loose, NEW path,
           NEW p, p = PlanRecord(id, acts, jobs, limits, ff, loose, path), NEW u,
           NEW k, k = [p EXCEPT !.jobs = u]
    PROVE  k = PlanRecord(id, acts, u, limits, ff, loose, path)
BY DEF PlanRecord

LEMMA FailFastEdited ==
    ASSUME NEW id, NEW acts, NEW jobs, NEW limits, NEW ff, NEW loose, NEW path,
           NEW p, p = PlanRecord(id, acts, jobs, limits, ff, loose, path), NEW u,
           NEW k, k = [p EXCEPT !.failFast = u]
    PROVE  k = PlanRecord(id, acts, jobs, limits, u, loose, path)
BY DEF PlanRecord

LEMMA PathEdited ==
    ASSUME NEW id, NEW acts, NEW jobs, NEW limits, NEW ff, NEW loose, NEW path,
           NEW p, p = PlanRecord(id, acts, jobs, limits, ff, loose, path), NEW u,
           NEW k, k = [p EXCEPT !.path = u]
    PROVE  k = PlanRecord(id, acts, jobs, limits, ff, loose, u)
BY DEF PlanRecord

(* What Plan.from_dict accepts of an altered plan.json has the work of the *)
(* plan that was saved.                                                    *)
LEMMA AlteredStands ==
    ASSUME NEW m, Planned(m), NEW n, n = Loaded(m), NEW digests, NEW by,
           NEW base, base = Compile(n, digests, by), NEW plan, Stands(plan, base),
           NEW other \in Altered(plan), PlanDecodes(other)
    PROVE  Stands(other, base)
<1>1. PICK inputs, ps : inputs = Inputs(n, digests) /\ ps = Points(n)
  OBVIOUS
<1>2. PICK chains, aggregate : PlanIs(base, n, inputs, by, ps, chains, aggregate)
  BY <1>1, CompileIs
<1>3. DOMAIN ps = 1 .. Len(ps) /\ Len(ps) \in Nat
  BY <1>1, PointsAre
<1>4. PICK id, acts, jobs, limits, ff, loose, path :
        /\ plan = PlanRecord(id, acts, jobs, limits, ff, loose, path)
        /\ id = base.id /\ acts = base.activities /\ jobs = base.jobs /\ limits = base.limits
        /\ ff = base.failFast /\ loose = plan.loose
  BY Zenon DEF Stands, IsPlan, PlanRecord
<1>r. plan = PlanRecord(id, acts, jobs, limits, ff, loose, path)
  BY <1>4
<1>5. /\ plan.activities = acts /\ plan.loose = loose /\ plan.jobs = jobs /\ plan.failFast = ff
  BY <1>4, PlanRecordIs
<1>6. /\ acts \in Seq(Range(acts)) /\ Len(acts) \in Nat \ {0} /\ DOMAIN acts = 1 .. Len(acts)
      /\ id = PlanId(acts, jobs, limits, ff) /\ jobs \in Int /\ ff \in BOOLEAN
  <2>1. /\ acts \in Seq(Range(acts)) /\ Len(acts) = 3 * Len(ps) + 1 /\ DOMAIN acts = 1 .. 3 * Len(ps) + 1
    BY <1>2, <1>4 DEF PlanIs
  <2>2. PICK id2, lim2, lo2, path2 :
            /\ base = PlanRecord(id2, acts, n.jobs, lim2, n.failFast, lo2, path2)
            /\ id2 = PlanId(acts, n.jobs, lim2, n.failFast)
            /\ n.jobs \in Int /\ n.failFast \in BOOLEAN
    <3>1. base = PlanRecord(base.id, acts, n.jobs, base.limits, n.failFast, base.loose, base.path)
      BY <1>2, <1>4 DEF PlanIs, PlanRecord
    <3>2. base.id = PlanId(acts, n.jobs, base.limits, n.failFast) /\ n.jobs \in Int /\ n.failFast \in BOOLEAN
      BY <1>2, <1>4 DEF PlanIs
    <3>3. PICK id2, lim2, lo2, path2 :
                id2 = base.id /\ lim2 = base.limits /\ lo2 = base.loose /\ path2 = base.path
      OBVIOUS
    <3>4. base = PlanRecord(id2, acts, n.jobs, lim2, n.failFast, lo2, path2)
          /\ id2 = PlanId(acts, n.jobs, lim2, n.failFast)
      BY <3>1, <3>2, <3>3
    <3> QED
      BY <3>2, <3>4
  <2>3. base.id = id2 /\ base.jobs = n.jobs /\ base.limits = lim2 /\ base.failFast = n.failFast
    BY <2>2, PlanRecordIs
  <2>4. Len(acts) \in Nat \ {0} /\ DOMAIN acts = 1 .. Len(acts)
    BY <1>3, <2>1
  <2>5. id = id2 /\ jobs = n.jobs /\ limits = lim2 /\ ff = n.failFast
    BY <1>4, <2>3, Zenon
  <2>6. id = PlanId(acts, jobs, limits, ff) /\ jobs \in Int /\ ff \in BOOLEAN
    BY <2>2, <2>5, Zenon
  <2> QED
    BY <2>1, <2>4, <2>6, Zenon
<1>7. \A x \in DOMAIN acts : Member(acts[x], n, inputs, by, ps)
  BY <1>2, <1>3, <1>4, Members
<1>8. loose = [i \in DOMAIN acts |-> loose[i]]
      /\ \A i \in DOMAIN acts : Placed(acts[i], loose[i]) /\ Bound(acts[i], loose[i])
  BY <1>4 DEF Stands
<1>9. ASSUME NEW s, NEW k, NEW f, NEW v, NEW w, other = PlanRecord(id, s, k, limits, f, v, w)
      PROVE  /\ \A x \in DOMAIN s : ActivityDecodes(s[x], v[x])
             /\ IsInjective(Column(s, "id")) /\ Column(s, "id") = Column(acts, "id")
             /\ k = jobs /\ f = ff
  <2>1. /\ other.id = id /\ other.activities = s /\ other.jobs = k /\ other.limits = limits
        /\ other.failFast = f /\ other.loose = v
    BY <1>9, PlanRecordIs
  <2>2. /\ \A x \in DOMAIN other.activities : ActivityDecodes(other.activities[x], other.loose[x])
        /\ IsInjective(Column(other.activities, "id"))
        /\ other.id = PlanId(other.activities, other.jobs, other.limits, other.failFast)
    BY Zenon DEF PlanDecodes
  <2>3. PlanId(s, k, limits, f) = PlanId(acts, jobs, limits, ff)
    BY <1>6, <2>1, <2>2
  <2>4. Column(s, "id") = Column(acts, "id") /\ k = jobs /\ f = ff
    BY <2>3 DEF PlanId, Fingerprint
  <2> QED
    BY <2>1, <2>2, <2>4
<1>10. ASSUME NEW v, NEW w, other = PlanRecord(id, acts, jobs, limits, ff, v, w),
              v = [i \in DOMAIN acts |-> v[i]],
              \A i \in DOMAIN acts : Placed(acts[i], v[i]) /\ Bound(acts[i], v[i])
       PROVE  Stands(other, base)
  <2>1. /\ other.id = id /\ other.activities = acts /\ other.jobs = jobs /\ other.limits = limits
        /\ other.failFast = ff /\ other.loose = v /\ IsPlan(other)
    BY <1>10, PlanRecordIs
  <2>2. /\ other.id = base.id /\ other.activities = base.activities /\ other.jobs = base.jobs
        /\ other.limits = base.limits /\ other.failFast = base.failFast
    BY <1>4, <2>1
  <2>3. other.loose = [i \in DOMAIN base.activities |-> other.loose[i]]
    BY <1>4, <1>10, <2>1, Zenon
  <2>4. \A i \in DOMAIN base.activities :
            Placed(base.activities[i], other.loose[i]) /\ Bound(base.activities[i], other.loose[i])
    BY <1>4, <1>10, <2>1, Zenon
  <2> QED
    BY <2>1, <2>2, <2>3, <2>4, Zenon DEF Stands
<1>11. ASSUME NEW s, NEW v, other = PlanRecord(id, s, jobs, limits, ff, v, path)
       PROVE  DOMAIN s = DOMAIN acts
  <2>1. Column(s, "id") = Column(acts, "id")
    BY <1>9, <1>11
  <2> QED
    BY <2>1 DEF Column
<1>12. ~(other = [plan EXCEPT !.jobs = @ + 1])
  <2>1. SUFFICES ASSUME other = [plan EXCEPT !.jobs = jobs + 1] PROVE FALSE
    BY <1>5
  <2>2. other = PlanRecord(id, acts, jobs + 1, limits, ff, loose, path)
    <3>1. PICK k : k = jobs + 1
      OBVIOUS
    <3>2. other = [plan EXCEPT !.jobs = k]
      BY <2>1, <3>1
    <3>3. other = PlanRecord(id, acts, k, limits, ff, loose, path)
      BY <1>r, <3>2, JobsEdited
    <3> QED
      BY <3>1, <3>3
  <2>3. jobs + 1 = jobs
    BY <1>9, <2>2
  <2> QED
    BY <1>6, <2>3
<1>13. ~(other = [plan EXCEPT !.failFast = ~@])
  <2>1. SUFFICES ASSUME other = [plan EXCEPT !.failFast = ~ff] PROVE FALSE
    BY <1>5
  <2>2. other = PlanRecord(id, acts, jobs, limits, ~ff, loose, path)
    <3>1. PICK k : k = ~ff
      OBVIOUS
    <3>2. other = [plan EXCEPT !.failFast = k]
      BY <2>1, <3>1
    <3>3. other = PlanRecord(id, acts, jobs, limits, k, loose, path)
      BY <1>r, <3>2, FailFastEdited
    <3> QED
      BY <3>1, <3>3
  <2>3. (~ff) = ff
    BY <1>9, <2>2
  <2> QED
    BY <1>6, <2>3
<1>14. ASSUME other = [plan EXCEPT !.path = "elsewhere"] PROVE Stands(other, base)
  <2>1. other = PlanRecord(id, acts, jobs, limits, ff, loose, "elsewhere")
    BY <1>r, <1>14, PathEdited
  <2> QED
    BY <1>8, <1>10, <2>1
<1>15. ~(other = [plan EXCEPT !.activities = Tail(@), !.loose = Tail(@)])
  <2>1. SUFFICES ASSUME other = [plan EXCEPT !.activities = Tail(@), !.loose = Tail(@)] PROVE FALSE
    OBVIOUS
  <2>2. PICK v : other = PlanRecord(id, Tail(acts), jobs, limits, ff, v, path)
    <3>a. PICK s : s = Tail(acts)
      OBVIOUS
    <3>1. PICK k : k = [plan EXCEPT !.activities = s]
      OBVIOUS
    <3>2. PICK v : v = Tail(k.loose)
      OBVIOUS
    <3>3. other = [k EXCEPT !.loose = v]
      BY <1>5, <2>1, <3>a, <3>1, <3>2, Zenon
    <3>4. k = PlanRecord(id, s, jobs, limits, ff, loose, path)
      BY <1>r, <3>1, PlanEdited
    <3>5. other = PlanRecord(id, s, jobs, limits, ff, v, path)
      BY <3>3, <3>4, LooseEdited
    <3> QED
      BY <3>a, <3>5
  <2>3. DOMAIN Tail(acts) # DOMAIN acts
    <3>1. acts # <<>>
      BY <1>6
    <3>2. Tail(acts) \in Seq(Range(acts)) /\ Len(Tail(acts)) = Len(acts) - 1
      BY <1>6, <3>1, HeadTailProperties
    <3>3. DOMAIN Tail(acts) = 1 .. Len(acts) - 1
      BY <3>2
    <3>4. Len(acts) \in 1 .. Len(acts) /\ Len(acts) \notin 1 .. Len(acts) - 1
      BY <1>6
    <3> QED
      BY <1>6, <3>3, <3>4
  <2> QED
    BY <1>11, <2>2, <2>3
<1>16. ~(other = [plan EXCEPT !.activities = Front(@), !.loose = Front(@)])
  <2>1. SUFFICES ASSUME other = [plan EXCEPT !.activities = Front(@), !.loose = Front(@)] PROVE FALSE
    OBVIOUS
  <2>2. PICK v : other = PlanRecord(id, Front(acts), jobs, limits, ff, v, path)
    <3>a. PICK s : s = Front(acts)
      OBVIOUS
    <3>1. PICK k : k = [plan EXCEPT !.activities = s]
      OBVIOUS
    <3>2. PICK v : v = Front(k.loose)
      OBVIOUS
    <3>3. other = [k EXCEPT !.loose = v]
      BY <1>5, <2>1, <3>a, <3>1, <3>2, Zenon
    <3>4. k = PlanRecord(id, s, jobs, limits, ff, loose, path)
      BY <1>r, <3>1, PlanEdited
    <3>5. other = PlanRecord(id, s, jobs, limits, ff, v, path)
      BY <3>3, <3>4, LooseEdited
    <3> QED
      BY <3>a, <3>5
  <2>3. DOMAIN Front(acts) # DOMAIN acts
    <3>1. Front(acts) \in Seq(Range(acts)) /\ Len(Front(acts)) = Len(acts) - 1
      <4>1. SubSeq(acts, 1, Len(acts) - 1) \in Seq(Range(acts))
            /\ Len(SubSeq(acts, 1, Len(acts) - 1)) = Len(acts) - 1
        BY <1>6, SubSeqProperties
      <4> QED
        BY <4>1 DEF Front
    <3>2. DOMAIN Front(acts) = 1 .. Len(acts) - 1
      BY <3>1
    <3>3. Len(acts) \in 1 .. Len(acts) /\ Len(acts) \notin 1 .. Len(acts) - 1
      BY <1>6
    <3> QED
      BY <1>6, <3>2, <3>3
  <2> QED
    BY <1>11, <2>2, <2>3
<1>17. ASSUME NEW i \in 1 .. Len(acts) - 1
       PROVE  ~(other = [plan EXCEPT !.activities = Swapped(@, i), !.loose = Swapped(@, i)])
  <2>1. SUFFICES ASSUME other = [plan EXCEPT !.activities = Swapped(@, i), !.loose = Swapped(@, i)]
                 PROVE  FALSE
    OBVIOUS
  <2>2. PICK s, v : other = PlanRecord(id, s, jobs, limits, ff, v, path) /\ s = Swapped(acts, i)
    <3>a. PICK s : s = Swapped(acts, i)
      OBVIOUS
    <3>1. PICK k : k = [plan EXCEPT !.activities = s]
      OBVIOUS
    <3>2. PICK v : v = Swapped(k.loose, i)
      OBVIOUS
    <3>3. other = [k EXCEPT !.loose = v]
      BY <1>5, <2>1, <3>a, <3>1, <3>2, Zenon
    <3>4. k = PlanRecord(id, s, jobs, limits, ff, loose, path)
      BY <1>r, <3>1, PlanEdited
    <3>5. other = PlanRecord(id, s, jobs, limits, ff, v, path)
      BY <3>3, <3>4, LooseEdited
    <3> QED
      BY <3>a, <3>5
  <2>3. i \in DOMAIN acts /\ i + 1 \in DOMAIN acts /\ i + 1 # i
    BY <1>6
  <2>4. DOMAIN s = DOMAIN acts /\ s[i + 1] = acts[i]
    BY <2>2, <2>3 DEF Swapped
  <2>5. IsInjective(Column(s, "id")) /\ Column(s, "id") = Column(acts, "id")
    BY <1>9, <2>2
  <2>6. Column(acts, "id")[i] = acts[i].id /\ Column(acts, "id")[i + 1] = acts[i].id
        /\ DOMAIN Column(acts, "id") = DOMAIN acts
    <3>1. Column(s, "id")[i + 1] = s[i + 1].id
      BY <2>3, <2>4 DEF Column
    <3> QED
      BY <2>3, <2>4, <2>5, <3>1 DEF Column
  <2> QED
    BY <2>3, <2>5, <2>6 DEF IsInjective
<1> DEFINE fields == {"payload", "point", "deps", "inputs", "id"}
<1>18. ASSUME NEW field \in fields, NEW x \in DOMAIN acts, NEW y \in DOMAIN acts,
              acts[x].kind = acts[y].kind, NEW s,
              s = [acts EXCEPT ![x] = Taking(acts[x], field, acts[y])],
              other = [plan EXCEPT !.activities = s]
       PROVE  Stands(other, base)
  <2>1. PICK a, b, c : a = acts[x] /\ b = acts[y] /\ c = Taking(a, field, b)
    OBVIOUS
  <2>2. s[x] = c /\ DOMAIN s = DOMAIN acts /\ (c = a => s = acts)
    BY <1>6, <1>18, <2>1
  <2>3. other = PlanRecord(id, s, jobs, limits, ff, loose, path)
    <3>1. other = [plan EXCEPT !.activities = s]
      BY <1>18
    <3> QED
      BY <1>r, <3>1, PlanEdited
  <2>4. Column(s, "id") = Column(acts, "id") /\ \A k \in DOMAIN s : ActivityDecodes(s[k], loose[k])
    BY <1>9, <2>3
  <2>5. c.id = a.id
    <3>1. Column(s, "id")[x] = s[x].id /\ Column(acts, "id")[x] = acts[x].id
      BY <2>2 DEF Column
    <3> QED
      BY <2>1, <2>2, <2>4, <3>1
  <2>6. PICK l : ActivityDecodes(c, l)
    BY <2>2, <2>4
  <2>7. /\ Member(a, n, inputs, by, ps) /\ Member(b, n, inputs, by, ps) /\ a.kind = b.kind
    BY <1>7, <1>18, <2>1
  <2>8. c = a
    <3>1. field \in {"payload", "point", "deps", "inputs", "id"}
      OBVIOUS
    <3> QED
      BY <2>1, <2>5, <2>6, <2>7, <3>1, FieldIsKept
  <2> QED
    BY <1>8, <1>10, <2>2, <2>3, <2>8
<1>19. ASSUME NEW i \in DOMAIN acts, NEW l \in Loosened(acts[i], loose[i], Len(acts)),
              other = [plan EXCEPT !.loose[i] = l]
       PROVE  Stands(other, base)
  <2>1. PICK v : v = [loose EXCEPT ![i] = l]
    OBVIOUS
  <2>2. other = PlanRecord(id, acts, jobs, limits, ff, v, path)
    <3>1. other = [plan EXCEPT !.loose = v]
      BY <1>5, <1>19, <2>1
    <3> QED
      BY <1>r, <3>1, LooseEdited
  <2>3. v = [k \in DOMAIN acts |-> v[k]] /\ v[i] = l /\ \A k \in DOMAIN acts \ {i} : v[k] = loose[k]
    BY <1>8, <2>1
  <2>4. ActivityDecodes(acts[i], l)
    BY <1>9, <2>2, <2>3
  <2>5. Placed(acts[i], l)
    <3>1. PICK a, w, unused : a = acts[i] /\ w = loose[i] /\ unused = Len(acts)
      OBVIOUS
    <3>2. Placed(a, w) /\ l \in Loosened(a, w, unused)
      BY <1>8, <3>1
    <3> QED
      BY <3>1, <3>2, LoosenedIs
  <2>6. Bound(acts[i], l)
    <3>1. PICK a : a = acts[i]
      OBVIOUS
    <3>2. Member(a, n, Inputs(n, digests), by, ps) /\ ActivityDecodes(a, l)
      BY <1>1, <1>7, <2>4, <3>1
    <3> QED
      BY <3>1, <3>2, DecodedIsBound
  <2>7. ASSUME NEW k \in DOMAIN acts PROVE Placed(acts[k], v[k]) /\ Bound(acts[k], v[k])
    BY <1>8, <2>3, <2>5, <2>6
  <2> QED
    BY <1>10, <2>2, <2>3, <2>7
<1> DEFINE A == {[plan EXCEPT !.jobs = @ + 1], [plan EXCEPT !.failFast = ~@], [plan EXCEPT !.path = "elsewhere"],
                 [plan EXCEPT !.activities = Tail(@), !.loose = Tail(@)],
                 [plan EXCEPT !.activities = Front(@), !.loose = Front(@)]}
           B == {[plan EXCEPT !.activities = Swapped(@, i), !.loose = Swapped(@, i)] : i \in 1 .. Len(plan.activities) - 1}
           C == {[plan EXCEPT !.activities = s] : s \in Mixed(plan.activities)}
           E(i) == {[plan EXCEPT !.loose[i] = l] :
                        l \in Loosened(plan.activities[i], plan.loose[i], Len(plan.activities))}
           I == DOMAIN plan.activities \cap 1 .. MaxSpot
<1>20. Altered(plan) = A \cup B \cup C \cup (UNION {E(i) : i \in I})
  BY Zenon DEF Altered
<1>21. CASE other \in A
  BY <1>12, <1>13, <1>14, <1>15, <1>16, <1>21
<1>22. CASE other \in B
  BY <1>5, <1>17, <1>22
<1>23. CASE other \in C
  <2>1. PICK s \in Mixed(acts) : other = [plan EXCEPT !.activities = s]
    BY <1>5, <1>23
  <2>2. PICK field \in fields, ij \in Alike(acts) :
            s = [acts EXCEPT ![ij[1]] = Taking(acts[ij[1]], field, acts[ij[2]])]
    BY DEF Mixed
  <2>3. PICK x, y : x = ij[1] /\ y = ij[2]
    OBVIOUS
  <2>4. x \in DOMAIN acts /\ y \in DOMAIN acts /\ acts[x].kind = acts[y].kind
    BY <2>3 DEF Alike
  <2>5. s = [acts EXCEPT ![x] = Taking(acts[x], field, acts[y])]
    BY <2>2, <2>3
  <2> QED
    BY <1>18, <2>1, <2>4, <2>5
<1>24. CASE other \in UNION {E(i) : i \in I}
  <2>1. PICK i \in I : other \in E(i)
    <3> HIDE DEF E, I
    <3> QED
      BY <1>24
  <2>2. PICK l \in Loosened(acts[i], loose[i], Len(acts)) : other = [plan EXCEPT !.loose[i] = l]
    BY <1>5, <2>1
  <2> QED
    BY <1>5, <1>19, <2>1, <2>2
<1> HIDE DEF A, B, C, E, I
<1> QED
  BY <1>20, <1>21, <1>22, <1>23, <1>24

-----------------------------------------------------------------------------
(* Theorems about the runs of PlanReplay                                   *)
-----------------------------------------------------------------------------
Under(r) == at[r] \notin {"new", "rejected"}

\* every run is at a label, and the tables are tables of the runs
Shapes ==
    /\ DOMAIN at = Runs /\ DOMAIN source = Runs /\ DOMAIN saved = Runs
    /\ DOMAIN counted = Runs /\ DOMAIN lost = Runs
    /\ \A r \in Runs : at[r] \in RunLabels

\* a run that was planned holds the plan that was compiled for it, or one with
\* its work that was decoded
PlanKept(r) ==
    \E m, digests, by, base :
        /\ m \in Manifests[r] /\ Planned(m)
        /\ source[r] = [manifest |-> m, digests |-> digests, by |-> by]
        /\ base = Compile(Loaded(m), digests, by) /\ Stands(saved[r], base)
        /\ saved[r] = base \/ PlanDecodes(saved[r])

\* what is compared or computed was ready, on entries that verify
AtWork(r) == Pending(r) # {} /\ \A d \in Range(AtHand(r).deps) : Verified(d)

RunInv(r) ==
    /\ Under(r) => PlanKept(r) /\ counted[r] \subseteq DOMAIN cache
    /\ at[r] \in {"compared", "computed"} => AtWork(r)
    /\ at[r] = "succeeded" => Ids(saved[r]) \subseteq counted[r]
    /\ at[r] = "refused" => ~PlanDecodes(saved[r])

\* an entry is an activity of some run, published when it was ready
Entered(id) ==
    \E r \in Runs : /\ Under(r)
                    /\ \E a \in Range(saved[r].activities) :
                        /\ a.id = id /\ \E l : cache[id].whole = ActivityDecodes(a, l)
                        /\ \A d \in Range(a.deps) : Verified(d)

ReplayInv ==
    /\ Shapes
    /\ \A r \in Runs : RunInv(r)
    /\ \A id \in DOMAIN cache : Entered(id)

(* The activity at hand is one of the plan's.                              *)
LEMMA AtHandIs ==
    ASSUME NEW r \in Runs, PlanKept(r), Pending(r) # {}
    PROVE  /\ AtHand(r) \in Range(saved[r].activities) /\ AtHand(r).id \notin lost[r]
           /\ AtHand(r).id \notin counted[r] /\ Turn(r) \in DOMAIN saved[r].activities
<1> DEFINE acts == saved[r].activities
           P == Pending(r)
           First(i) == i \in P /\ \A j \in P : i <= j
           h == CHOOSE i \in P : \A j \in P : i <= j
<1>1. DOMAIN acts \subseteq Nat
  <2>1. PICK m, digests, by, base :
            Planned(m) /\ base = Compile(Loaded(m), digests, by) /\ Stands(saved[r], base)
    BY DEF PlanKept
  <2>2. PICK n : n = Loaded(m)
    OBVIOUS
  <2>3. PICK chains, aggregate :
            PlanIs(base, n, Inputs(n, digests), by, Points(n), chains, aggregate)
    BY <2>1, <2>2, CompileIs
  <2>4. DOMAIN base.activities \subseteq Nat
    BY <2>3 DEF PlanIs
  <2>5. acts = base.activities
    BY <2>1 DEF Stands
  <2> QED
    BY <2>4, <2>5
<1>2. P \subseteq DOMAIN acts /\ P # {}
      /\ \A i \in P : acts[i].id \notin lost[r] /\ acts[i].id \notin counted[r]
  BY DEF Pending
<1>3. AtHand(r) = acts[h] /\ Turn(r) = h
  BY DEF AtHand, Turn
<1> HIDE DEF acts, P
<1>4. \E i \in P : \A j \in P : i <= j
  BY <1>1, <1>2, Least
<1>5. h \in P
  BY <1>4
<1> HIDE DEF h
<1> QED
  BY <1>2, <1>3, <1>5 DEF Range, acts

LEMMA AtWorkStays ==
    ASSUME NEW r \in Runs, AtWork(r), saved'[r] = saved[r], counted'[r] = counted[r],
           lost'[r] = lost[r], \A id : Verified(id) => Verified(id)'
    PROVE  AtWork(r)'
<1>1. Pending(r)' = Pending(r)
  BY DEF Pending
<1>2. AtHand(r)' = AtHand(r)
  BY <1>1 DEF AtHand, Turn
<1> QED
  BY <1>1, <1>2 DEF AtWork

(* What a step of another run leaves alone keeps what it had.              *)
LEMMA RunStays ==
    ASSUME NEW q \in Runs, RunInv(q), source'[q] = source[q], saved'[q] = saved[q],
           at'[q] = at[q], counted'[q] = counted[q], lost'[q] = lost[q],
           DOMAIN cache \subseteq DOMAIN cache', \A id : Verified(id) => Verified(id)'
    PROVE  RunInv(q)'
<1>1. Under(q)' => PlanKept(q)' /\ counted'[q] \subseteq DOMAIN cache'
  BY DEF RunInv, Under, PlanKept
<1>2. at'[q] \in {"compared", "computed"} => AtWork(q)'
  BY AtWorkStays DEF RunInv
<1>3. at'[q] = "succeeded" => Ids(saved'[q]) \subseteq counted'[q]
  BY DEF RunInv
<1>4. at'[q] = "refused" => ~PlanDecodes(saved'[q])
  BY DEF RunInv
<1> QED
  BY <1>1, <1>2, <1>3, <1>4 DEF RunInv

LEMMA EntryStays ==
    ASSUME NEW id, Entered(id), cache'[id] = cache[id],
           \A r \in Runs : Under(r) => Under(r)' /\ saved'[r].activities = saved[r].activities,
           \A d : Verified(d) => Verified(d)'
    PROVE  Entered(id)'
<1>0. PICK r \in Runs : /\ Under(r)
                       /\ \E a \in Range(saved[r].activities) :
                            /\ a.id = id /\ \E l : cache[id].whole = ActivityDecodes(a, l)
                            /\ \A d \in Range(a.deps) : Verified(d)
  BY DEF Entered
<1>1. PICK a \in Range(saved[r].activities) :
            /\ a.id = id /\ (\E l : cache[id].whole = ActivityDecodes(a, l))
            /\ \A d \in Range(a.deps) : Verified(d)
  BY <1>0
<1>2. /\ Under(r)' /\ a \in Range(saved'[r].activities)
      /\ \E l : cache'[id].whole = ActivityDecodes(a, l)
      /\ \A d \in Range(a.deps) : Verified(d)'
  BY <1>0, <1>1
<1> QED
  BY <1>1, <1>2 DEF Entered

(* A run under way goes on to a label under way; the cache stays.          *)
LEMMA MoveKeeps ==
    ASSUME ReplayInv, NEW r \in Runs, Under(r), NEW l \in RunLabels \ {"new", "rejected", "refused"},
           at' = [at EXCEPT ![r] = l], UNCHANGED <<source, saved, counted, cache>>,
           DOMAIN lost' = Runs, \A q \in Runs \ {r} : lost'[q] = lost[q],
           l \in {"compared", "computed"} => AtWork(r) /\ lost' = lost,
           l = "succeeded" => Ids(saved[r]) \subseteq counted[r]
    PROVE  ReplayInv'
<1>1. Shapes'
  BY DEF ReplayInv, Shapes
<1>2. \A id : Verified(id) => Verified(id)'
  BY DEF Verified
<1>3. ASSUME NEW q \in Runs \ {r} PROVE RunInv(q)'
  <2>1. at'[q] = at[q]
    BY DEF ReplayInv, Shapes
  <2> QED
    BY <1>2, <2>1, RunStays DEF ReplayInv
<1>4. at'[r] = l
  BY DEF ReplayInv, Shapes
<1>5. RunInv(r)'
  <2>1. RunInv(r)
    BY DEF ReplayInv
  <2>2. PlanKept(r)' /\ counted'[r] \subseteq DOMAIN cache'
    BY <2>1 DEF RunInv, PlanKept
  <2>3. at'[r] \in {"compared", "computed"} => AtWork(r)'
    BY <1>2, <1>4, AtWorkStays
  <2> QED
    BY <1>4, <2>2, <2>3 DEF RunInv
<1>6. \A q \in Runs : Under(q) => Under(q)' /\ saved'[q] = saved[q]
  BY <1>4 DEF Under, ReplayInv, Shapes
<1>7. \A id \in DOMAIN cache' : Entered(id)'
  BY <1>2, <1>6, EntryStays DEF ReplayInv
<1> QED
  BY <1>1, <1>3, <1>5, <1>7 DEF ReplayInv

(* A run starts with its plan, or starts again with it.                    *)
LEMMA StartKeeps ==
    ASSUME ReplayInv, NEW r \in Runs, NEW plan, Start(r, plan), cache' = cache,
           DOMAIN source' = Runs, \A q \in Runs \ {r} : source'[q] = source[q],
           PlanKept(r)', Under(r) => plan.activities = saved[r].activities
    PROVE  ReplayInv'
<1>1. /\ at' = [at EXCEPT ![r] = "idle"] /\ saved' = [saved EXCEPT ![r] = plan]
      /\ counted' = [counted EXCEPT ![r] = {id \in Ids(plan) : Verified(id)}]
      /\ lost' = [lost EXCEPT ![r] = {}]
  BY DEF Start
<1>2. Shapes'
  BY <1>1 DEF ReplayInv, Shapes, RunLabels
<1>3. \A id : Verified(id) => Verified(id)'
  BY DEF Verified
<1>4. ASSUME NEW q \in Runs \ {r} PROVE RunInv(q)'
  <2>1. at'[q] = at[q] /\ saved'[q] = saved[q] /\ counted'[q] = counted[q] /\ lost'[q] = lost[q]
    BY <1>1 DEF ReplayInv, Shapes
  <2> QED
    BY <1>3, <2>1, RunStays DEF ReplayInv
<1>5. /\ at'[r] = "idle" /\ counted'[r] = {id \in Ids(plan) : Verified(id)}
      /\ saved'[r] = plan
  BY <1>1 DEF ReplayInv, Shapes
<1>6. RunInv(r)'
  <2>1. counted'[r] \subseteq DOMAIN cache'
    BY <1>5 DEF Verified
  <2> QED
    BY <1>5, <2>1 DEF RunInv
<1>7. \A q \in Runs : Under(q) => Under(q)' /\ saved'[q].activities = saved[q].activities
  BY <1>1, <1>5 DEF Under, ReplayInv, Shapes
<1>8. \A id \in DOMAIN cache' : Entered(id)'
  BY <1>3, <1>7, EntryStays DEF ReplayInv
<1> QED
  BY <1>2, <1>4, <1>6, <1>8 DEF ReplayInv

(* What was ready is published.                                            *)
LEMMA EnterKeeps ==
    ASSUME ReplayInv, NEW r \in Runs, Under(r), AtWork(r), NEW content,
           NEW l, Enter(r, AtHand(r), l, content)
    PROVE  ReplayInv'
<1> DEFINE a == AtHand(r)
           entry == [whole |-> ActivityDecodes(a, l), content |-> content]
<1>1. /\ cache' = IF Verified(a.id) THEN cache
                  ELSE [id \in DOMAIN cache \cup {a.id} |-> IF id = a.id THEN entry ELSE cache[id]]
      /\ counted' = [counted EXCEPT ![r] = @ \cup {a.id}]
      /\ at' = [at EXCEPT ![r] = "idle"]
      /\ UNCHANGED <<source, saved, lost>>
  BY DEF Enter
<1>2. RunInv(r) /\ PlanKept(r)
  BY DEF ReplayInv, RunInv
<1>3. a \in Range(saved[r].activities)
  BY <1>2, AtHandIs DEF AtWork
<1>4. /\ a.id \in DOMAIN cache' /\ DOMAIN cache \subseteq DOMAIN cache'
      /\ \A id \in DOMAIN cache' : id # a.id => id \in DOMAIN cache /\ cache'[id] = cache[id]
      /\ Verified(a.id) => cache' = cache
      /\ ~Verified(a.id) => cache'[a.id].whole = ActivityDecodes(a, l)
  <2>1. CASE Verified(a.id)
    BY <1>1, <2>1 DEF Verified
  <2>2. CASE ~Verified(a.id)
    <3>1. cache' = [id \in DOMAIN cache \cup {a.id} |-> IF id = a.id THEN entry ELSE cache[id]]
      BY <1>1, <2>2
    <3>2. entry.whole = ActivityDecodes(a, l)
      BY Zenon
    <3> HIDE DEF entry, a
    <3> QED
      BY <2>2, <3>1, <3>2
  <2> QED
    BY <2>1, <2>2
<1> HIDE DEF entry
<1>5. \A id : Verified(id) => Verified(id)'
  BY <1>4 DEF Verified
<1>6. Shapes'
  BY <1>1 DEF ReplayInv, Shapes, RunLabels
<1>7. ASSUME NEW q \in Runs \ {r} PROVE RunInv(q)'
  <2>1. at'[q] = at[q] /\ counted'[q] = counted[q]
    BY <1>1 DEF ReplayInv, Shapes
  <2> HIDE DEF a
  <2> QED
    BY <1>1, <1>4, <1>5, <2>1, RunStays DEF ReplayInv
<1>8. at'[r] = "idle" /\ counted'[r] = counted[r] \cup {a.id}
  BY <1>1 DEF ReplayInv, Shapes
<1> HIDE DEF a
<1>9. RunInv(r)'
  <2>1. PlanKept(r)'
    BY <1>1, <1>2 DEF PlanKept
  <2>2. counted'[r] \subseteq DOMAIN cache'
    BY <1>2, <1>4, <1>8 DEF RunInv
  <2> QED
    BY <1>8, <2>1, <2>2 DEF RunInv
<1>10. \A q \in Runs : Under(q) => Under(q)' /\ saved'[q] = saved[q]
  BY <1>1, <1>8 DEF Under, ReplayInv, Shapes
<1>11. ASSUME NEW id \in DOMAIN cache' PROVE Entered(id)'
  <2>1. CASE id \in DOMAIN cache /\ cache'[id] = cache[id]
    BY <1>5, <1>10, <2>1, EntryStays DEF ReplayInv
  <2>2. CASE id = a.id /\ ~Verified(a.id)
    <3>1. \A d \in Range(a.deps) : Verified(d)'
      BY <1>5 DEF AtWork, a
    <3>2. a \in Range(saved'[r].activities) /\ Under(r)'
      BY <1>1, <1>3, <1>10
    <3> QED
      BY <1>4, <2>2, <3>1, <3>2 DEF Entered
  <2>3. Verified(a.id) => id \in DOMAIN cache /\ cache'[id] = cache[id]
    BY <1>4
  <2> QED
    BY <1>4, <2>1, <2>2, <2>3
<1> QED
  BY <1>6, <1>7, <1>9, <1>11 DEF ReplayInv

LEMMA ReloadKeeps ==
    ASSUME ReplayInv, NEW r \in Runs, Reload(r)
    PROVE  ReplayInv'
<1>1. /\ at[r] \in {"idle", "compared", "computed", "succeeded", "failed"} /\ Under(r)
      /\ source' = source /\ cache' = cache
  BY DEF Reload, Under
<1>2. PlanKept(r) /\ RunInv(r)
  BY <1>1 DEF ReplayInv, RunInv
<1>3. PICK plan \in {saved[r]} \cup Altered(saved[r]) :
        IF PlanDecodes(plan) THEN Start(r, plan)
        ELSE /\ at' = [at EXCEPT ![r] = IF plan = saved[r] THEN "refused" ELSE "damaged"]
             /\ UNCHANGED <<saved, counted, lost, ranks>>
  BY DEF Reload
<1>4. CASE PlanDecodes(plan)
  <2>1. Start(r, plan)
    BY <1>3, <1>4
  <2>2. PICK m, digests, by, base :
            /\ m \in Manifests[r] /\ Planned(m)
            /\ source[r] = [manifest |-> m, digests |-> digests, by |-> by]
            /\ base = Compile(Loaded(m), digests, by) /\ Stands(saved[r], base)
    BY <1>2 DEF PlanKept
  <2>3. Stands(plan, base)
    <3>1. CASE plan \in Altered(saved[r])
      <4>1. PICK n, p : n = Loaded(m) /\ p = saved[r]
        OBVIOUS
      <4> QED
        BY <1>4, <2>2, <3>1, <4>1, AlteredStands
    <3> QED
      BY <2>2, <3>1
  <2>4. DOMAIN source' = Runs /\ \A q \in Runs \ {r} : source'[q] = source[q]
    BY <1>1 DEF ReplayInv, Shapes
  <2>5. saved'[r] = plan
    BY <2>1 DEF Start, ReplayInv, Shapes
  <2>6. PlanKept(r)'
    <3>1. source'[r] = [manifest |-> m, digests |-> digests, by |-> by]
      BY <1>1, <2>2
    <3> QED
      BY <1>4, <2>2, <2>3, <2>5, <3>1, Zenon DEF PlanKept
  <2>7. plan.activities = saved[r].activities
    BY <2>2, <2>3, Zenon DEF Stands
  <2> QED
    BY <1>1, <2>1, <2>4, <2>6, <2>7, StartKeeps
<1>5. CASE ~PlanDecodes(plan)
  <2> DEFINE l == IF plan = saved[r] THEN "refused" ELSE "damaged"
  <2>1. at' = [at EXCEPT ![r] = l] /\ UNCHANGED <<saved, counted, lost>> /\ l \in {"refused", "damaged"}
    BY <1>3, <1>5
  <2>2. l = "refused" => ~PlanDecodes(saved[r])
    BY <1>5
  <2> HIDE DEF l
  <2>3. Shapes'
    BY <1>1, <2>1 DEF ReplayInv, Shapes, RunLabels
  <2>4. \A id : Verified(id) => Verified(id)'
    BY <1>1 DEF Verified
  <2>5. ASSUME NEW q \in Runs \ {r} PROVE RunInv(q)'
    <3>1. at'[q] = at[q]
      BY <2>1 DEF ReplayInv, Shapes
    <3> QED
      BY <1>1, <2>1, <2>4, <3>1, RunStays DEF ReplayInv
  <2>6. at'[r] = l
    BY <2>1 DEF ReplayInv, Shapes
  <2>7. RunInv(r)'
    <3>1. PlanKept(r)' /\ counted'[r] \subseteq DOMAIN cache'
      BY <1>1, <1>2, <2>1 DEF RunInv, PlanKept
    <3> QED
      BY <2>1, <2>2, <2>6, <3>1 DEF RunInv
  <2>8. \A q \in Runs : Under(q) => Under(q)' /\ saved'[q] = saved[q]
    BY <2>1, <2>6 DEF Under, ReplayInv, Shapes
  <2>9. \A id \in DOMAIN cache' : Entered(id)'
    BY <1>1, <2>4, <2>8, EntryStays DEF ReplayInv
  <2> QED
    BY <2>3, <2>5, <2>7, <2>9 DEF ReplayInv
<1> QED
  BY <1>4, <1>5

LEMMA SubmitKeeps ==
    ASSUME ReplayInv, NEW r \in Runs, NEW m \in Manifests[r], Submit(r, m)
    PROVE  ReplayInv'
<1>1. at[r] = "new" /\ cache' = cache /\ ~Under(r)
  BY DEF Submit, Under
<1>2. CASE Accepted(m) /\ Plannable(Loaded(m))
  <2> DEFINE plan == Compile(Loaded(m), contents, installed)
             s == [manifest |-> m, digests |-> contents, by |-> installed]
  <2>1. source' = [source EXCEPT ![r] = s] /\ Start(r, plan)
    BY <1>2 DEF Submit
  <2>2. Planned(m)
    BY <1>2, ReplayAssumption DEF Planned
  <2>3. DOMAIN source' = Runs /\ source'[r] = s /\ \A q \in Runs \ {r} : source'[q] = source[q]
    <3> HIDE DEF s
    <3> QED
      BY <2>1 DEF ReplayInv, Shapes
  <2>4. saved'[r] = plan
    <3> HIDE DEF plan
    <3> QED
      BY <2>1 DEF Start, ReplayInv, Shapes
  <2>5. PlanKept(r)'
    <3>1. PICK n, base, digests, by :
            n = Loaded(m) /\ base = Compile(n, digests, by) /\ digests = contents /\ by = installed
      OBVIOUS
    <3>2. Stands(base, base)
      BY <2>2, <3>1, CompiledStands
    <3>3. saved'[r] = base /\ source'[r] = [manifest |-> m, digests |-> digests, by |-> by]
      BY <2>3, <2>4, <3>1
    <3> HIDE DEF plan, s
    <3> QED
      BY <2>2, <3>1, <3>2, <3>3 DEF PlanKept
  <2> HIDE DEF plan, s
  <2> QED
    BY <1>1, <2>1, <2>3, <2>5, StartKeeps
<1>3. CASE ~(Accepted(m) /\ Plannable(Loaded(m)))
  <2>1. at' = [at EXCEPT ![r] = "rejected"] /\ UNCHANGED <<source, saved, counted, lost>>
    BY <1>3 DEF Submit
  <2>2. Shapes'
    BY <2>1 DEF ReplayInv, Shapes, RunLabels
  <2>3. \A id : Verified(id) => Verified(id)'
    BY <1>1 DEF Verified
  <2>4. ASSUME NEW q \in Runs \ {r} PROVE RunInv(q)'
    <3>1. at'[q] = at[q]
      BY <2>1 DEF ReplayInv, Shapes
    <3> QED
      BY <1>1, <2>1, <2>3, <3>1, RunStays DEF ReplayInv
  <2>5. at'[r] = "rejected"
    BY <2>1 DEF ReplayInv, Shapes
  <2>6. RunInv(r)'
    BY <2>5 DEF RunInv, Under
  <2>7. \A q \in Runs : Under(q) => Under(q)' /\ saved'[q] = saved[q]
    BY <1>1, <2>1 DEF Under, ReplayInv, Shapes
  <2>8. \A id \in DOMAIN cache' : Entered(id)'
    BY <1>1, <2>3, <2>7, EntryStays DEF ReplayInv
  <2> QED
    BY <2>2, <2>4, <2>6, <2>8 DEF ReplayInv
<1> QED
  BY <1>2, <1>3

\* a run whose activity fails or is skipped goes on
LEMMA FailsKeeps ==
    ASSUME ReplayInv, NEW r \in Runs, Under(r), Fails(r)
    PROVE  ReplayInv'
<1>1. at' = [at EXCEPT ![r] = "idle"] /\ UNCHANGED <<source, saved, counted, cache>>
  BY DEF Fails
<1>2. DOMAIN lost' = Runs /\ \A q \in Runs \ {r} : lost'[q] = lost[q]
  BY DEF Fails, ReplayInv, Shapes
<1>3. "idle" \in RunLabels \ {"new", "rejected", "refused"}
  BY DEF RunLabels
<1> QED
  BY <1>1, <1>2, <1>3, MoveKeeps

LEMMA StepKeeps ==
    ASSUME ReplayInv, NEW r \in Runs, Step(r)
    PROVE  ReplayInv'
<1>1. at[r] \in {"idle", "compared", "computed"} => Under(r)
  BY DEF Under
<1>2. DOMAIN lost = Runs /\ RunInv(r)
  BY DEF ReplayInv, Shapes
<1>3. CASE Skip(r) \/ Disagree(r) \/ WorkFails(r) \/ PublishFails(r) \/ DeriveFails(r)
  <2>1. Under(r)
    BY <1>1, <1>3 DEF Skip, Disagree, Runnable, WorkFails, PublishFails, DeriveFails
  <2>2. Fails(r)
    BY <1>3 DEF Skip, Disagree, WorkFails, PublishFails, DeriveFails, MustFail, MayFail
  <2> QED
    BY <2>1, <2>2, FailsKeeps
<1>4. CASE Compare(r)
  <2>1. /\ Under(r) /\ at' = [at EXCEPT ![r] = "compared"]
        /\ UNCHANGED <<source, saved, counted, lost, cache>>
    BY <1>1, <1>4 DEF Compare, Runnable
  <2>2. AtWork(r)
    BY <1>4 DEF Compare, Runnable, Admitted, Agrees, AtWork
  <2>3. "compared" \in RunLabels \ {"new", "rejected", "refused"}
    BY DEF RunLabels
  <2> QED
    BY <1>2, <2>1, <2>2, <2>3, MoveKeeps
<1>5. CASE Work(r)
  <2>1. /\ Under(r) /\ at' = [at EXCEPT ![r] = "computed"] /\ AtWork(r)
        /\ UNCHANGED <<source, saved, counted, lost, cache>>
    BY <1>1, <1>2, <1>5 DEF Work, RunInv
  <2>2. "computed" \in RunLabels \ {"new", "rejected", "refused"}
    BY DEF RunLabels
  <2> QED
    BY <1>2, <2>1, <2>2, MoveKeeps
<1>6. CASE Publish(r)
  <2>1. Under(r) /\ AtWork(r) /\ Enter(r, AtHand(r), Beside(r), box[r])
    BY <1>1, <1>2, <1>6 DEF Publish, RunInv
  <2> QED
    BY <2>1, EnterKeeps
<1>7. CASE Derive(r)
  <2>1. Under(r) /\ AtWork(r) /\ Enter(r, AtHand(r), Beside(r), Compute(AtHand(r), Beside(r)))
    BY <1>1, <1>7 DEF Derive, Runnable, Admitted, Agrees, AtWork
  <2> QED
    BY <2>1, EnterKeeps
<1>8. CASE Close(r)
  <2> DEFINE l == IF lost[r] = {} THEN "succeeded" ELSE "failed"
  <2>1. /\ Under(r) /\ at' = [at EXCEPT ![r] = l] /\ Pending(r) = {}
        /\ UNCHANGED <<source, saved, counted, lost, cache>>
    BY <1>1, <1>8 DEF Close
  <2>2. l \in RunLabels \ {"new", "rejected", "refused"} /\ l \notin {"compared", "computed"}
    BY DEF RunLabels
  <2>3. l = "succeeded" => Ids(saved[r]) \subseteq counted[r]
    <3>1. SUFFICES ASSUME lost[r] = {} PROVE Ids(saved[r]) \subseteq counted[r]
      OBVIOUS
    <3>2. \A i \in DOMAIN saved[r].activities : saved[r].activities[i].id \in counted[r]
      BY <2>1, <3>1 DEF Pending
    <3> QED
      BY <3>2 DEF Ids, Column, Range
  <2> HIDE DEF l
  <2> QED
    BY <1>2, <2>1, <2>2, <2>3, MoveKeeps
<1>9. CASE Reload(r)
  BY <1>9, ReloadKeeps
<1>10. CASE \E m \in Manifests[r] : Submit(r, m)
  BY <1>10, SubmitKeeps
<1> QED
  BY <1>3, <1>4, <1>5, <1>6, <1>7, <1>8, <1>9, <1>10 DEF Step

\* edits and replacements touch no run and no entry
LEMMA AroundKeeps ==
    ASSUME ReplayInv, UNCHANGED <<source, saved, at, counted, lost, cache>>
    PROVE  ReplayInv'
<1>1. \A id : Verified(id) => Verified(id)'
  BY DEF Verified
<1>2. Shapes'
  BY DEF ReplayInv, Shapes
<1>3. ASSUME NEW q \in Runs PROVE RunInv(q)'
  BY <1>1, RunStays DEF ReplayInv
<1>4. \A q \in Runs : Under(q) => Under(q)' /\ saved'[q] = saved[q]
  BY DEF Under
<1>5. \A id \in DOMAIN cache' : Entered(id)'
  BY <1>1, <1>4, EntryStays DEF ReplayInv
<1> QED
  BY <1>2, <1>3, <1>5 DEF ReplayInv

(* Whatever is edited, replaced, interrupted or damaged on the way: every  *)
(* planned run holds the work that was compiled for it, and every entry of *)
(* the cache is an activity of some run, published when the entries it     *)
(* depends on were good.                                                   *)
THEOREM ReplayInvariance == PlanSpec => []ReplayInv
<1>1. PlanInit => ReplayInv
  <2>1. SUFFICES ASSUME PlanInit PROVE ReplayInv
    OBVIOUS
  <2>2. /\ \A r \in Runs : at[r] = "new"
        /\ Shapes /\ DOMAIN cache = {}
    BY <2>1 DEF PlanInit, Shapes, RunLabels
  <2> QED
    BY <2>2 DEF ReplayInv, RunInv, Under
<1>2. ReplayInv /\ [PlanNext]_planVars => ReplayInv'
  <2>1. SUFFICES ASSUME ReplayInv, [PlanNext]_planVars PROVE ReplayInv'
    OBVIOUS
  <2>2. CASE \E r \in Runs : Step(r)
    BY <2>1, <2>2, StepKeeps
  <2>3. CASE (\E f \in Files : Edit(f)) \/ Replace \/ PutBack \/ UNCHANGED planVars
    <3>1. UNCHANGED <<source, saved, at, counted, lost, cache>>
      BY <2>3 DEF Edit, Replace, PutBack, Installed, planVars
    <3> QED
      BY <2>1, <3>1, AroundKeeps
  <2> QED
    BY <2>1, <2>2, <2>3 DEF PlanNext
<1> QED
  BY <1>1, <1>2, PTL DEF PlanSpec

(* What a run executes is the work that was compiled for it, however often *)
(* it was stopped and resumed and whatever plan.json held meanwhile.  Of an *)
(* altered plan.json Plan.from_dict and Activity.from_dict refuse what     *)
(* differs in an id or in what an id covers, and let pass the manifest's   *)
(* path, ranks, resources, time-outs and the places of the inputs, as long *)
(* as these agree with each other: the template is where the first input   *)
(* is digested, the copies are where the others are, and the rank of an    *)
(* extract is that of its point.                                           *)
THEOREM ResumedWorkHolds == PlanSpec => []ResumedWorkIsThePlans
<1>1. ReplayInv => ResumedWorkIsThePlans
  <2>1. SUFFICES ASSUME ReplayInv, NEW r \in Runs, at[r] \in Resumable, NEW plan, plan = PlanOf(source[r])
                 PROVE  /\ \A field \in DOMAIN plan \ {"loose", "path"} : saved[r][field] = plan[field]
                        /\ \A i \in DOMAIN plan.activities :
                             LET a == plan.activities[i]
                                 l == saved[r].loose[i]
                             IN  /\ a.kind = "render" => /\ l.template = l.paths[1]
                                                         /\ l.copies = Copies(a.inputs, l.paths)
                                 /\ a.kind = "extract" => l.rank = l.index
    BY DEF ResumedWorkIsThePlans
  <2>2. PlanKept(r)
    BY <2>1 DEF ReplayInv, RunInv, Under, Resumable
  <2>3. PICK m, digests, by, base :
            /\ Planned(m) /\ source[r] = [manifest |-> m, digests |-> digests, by |-> by]
            /\ base = Compile(Loaded(m), digests, by) /\ Stands(saved[r], base)
    BY <2>2 DEF PlanKept
  <2>4. source[r].manifest = m /\ source[r].digests = digests /\ source[r].by = by
    BY <2>3
  <2>5. plan = base
    BY <2>1, <2>3, <2>4 DEF PlanOf
  <2>6. PICK n, chains, aggregate : PlanIs(base, n, Inputs(n, digests), by, Points(n), chains, aggregate)
    <3>1. PICK n : n = Loaded(m)
      OBVIOUS
    <3> QED
      BY <2>3, <3>1, CompileIs
  <2>7. DOMAIN base = {"id", "activities", "jobs", "limits", "failFast", "loose", "path"}
    BY <2>6 DEF PlanIs
  <2>8. PICK p : p = saved[r]
    OBVIOUS
  <2>9. /\ p.id = base.id /\ p.activities = base.activities /\ p.jobs = base.jobs
        /\ p.limits = base.limits /\ p.failFast = base.failFast
        /\ \A i \in DOMAIN base.activities :
                Bound(base.activities[i], p.loose[i])
    BY <2>3, <2>8 DEF Stands
  <2>10. \A field \in DOMAIN base \ {"loose", "path"} : p[field] = base[field]
    BY <2>7, <2>9
  <2> QED
    BY <2>5, <2>8, <2>9, <2>10 DEF Bound
<1> QED
  BY <1>1, ReplayInvariance, PTL

-----------------------------------------------------------------------------
(* The copies are every input but the template.                            *)
LEMMA CopiesAre ==
    ASSUME NEW inputs, NEW paths, Len(inputs) \in Nat \ {0}, inputs[1].logical = Template,
           \A i \in 2 .. Len(inputs) : inputs[i].logical # Template
    PROVE  Copies(inputs, paths) = [i \in 1 .. Len(inputs) - 1 |->
                                [path |-> paths[i + 1], logical |-> inputs[i + 1].logical]]
<1> DEFINE l == Len(inputs)
           copy(i) == [path |-> paths[i], logical |-> inputs[i].logical]
           deck(i) == inputs[i].logical = Template
           T == {copy(i) : i \in 1 .. l}
           D == Seq(T)
           cat(v, i) == Append(v, copy(i))
           Rec(f) == f = [i \in 0 .. l |-> IF i = 0 THEN <<>> ELSE IF deck(i) THEN f[i-1]
                                           ELSE cat(f[i-1], i)]
           G == [i \in 1 .. l |-> [v \in D |-> IF deck(i) THEN v ELSE cat(v, i)]]
<1>0. Copies(inputs, paths) = (CHOOSE f : Rec(f))[l]
  BY DEF Copies
<1>1. l \in Nat \ {0} /\ deck(1) /\ \A i \in 2 .. l : ~deck(i)
  OBVIOUS
<1> HIDE DEF copy, deck, l
<1>a. <<>> \in D
  OBVIOUS
<1>2. G \in [1 .. l -> [D -> D]]
  <2>1. ASSUME NEW i \in 1 .. l, NEW v \in D PROVE cat(v, i) \in D
    <3>1. copy(i) \in T
      OBVIOUS
    <3> HIDE DEF T
    <3> QED
      BY <3>1, AppendProperties
  <2> HIDE DEF D, cat
  <2> QED
    BY <2>1
<1>3. \A i \in 1 .. l, v \in D : G[i][v] = IF deck(i) THEN v ELSE cat(v, i)
  OBVIOUS
<1> HIDE DEF G, D, Rec, cat
<1>4. PICK h : h \in [0 .. l -> D] /\ h[0] = <<>> /\ \A i \in 1 .. l : h[i] = G[i][h[i-1]]
  <2>1. PICK f : Recurses(f, l, D, <<>>, G)
    BY <1>1, <1>2, <1>a, Recursion
  <2> QED
    BY <2>1 DEF Recurses
<1>5. \A i \in 1 .. l : h[i] = IF deck(i) THEN h[i-1] ELSE cat(h[i-1], i)
  <2>1. \A i \in 1 .. l : i - 1 \in 0 .. l
    BY <1>1
  <2> QED
    BY <1>3, <1>4, <2>1
<1>6. Rec(h)
  <2>1. \A i \in 0 .. l : i = 0 \/ i \in 1 .. l
    BY <1>1
  <2>2. h = [i \in 0 .. l |-> h[i]]
    BY <1>4
  <2>3. h = [i \in 0 .. l |-> IF i = 0 THEN <<>> ELSE IF deck(i) THEN h[i-1] ELSE cat(h[i-1], i)]
    BY <1>4, <1>5, <2>1, <2>2
  <2> QED
    BY <2>3 DEF Rec
<1> DEFINE s == CHOOSE f : Rec(f)
<1>7. Rec(s)
  BY <1>6
<1> HIDE DEF s
<1>8. s[0] = <<>> /\ s[1] = s[0] /\ \A i \in 2 .. l : s[i] = cat(s[i-1], i)
  <2>1. \A i \in 0 .. l : s[i] = IF i = 0 THEN <<>> ELSE IF deck(i) THEN s[i-1] ELSE cat(s[i-1], i)
    BY <1>7 DEF Rec
  <2>2. 0 \in 0 .. l /\ 1 \in 0 .. l /\ 1 - 1 = 0 /\ \A i \in 2 .. l : i \in 0 .. l /\ i # 0
    BY <1>1
  <2> QED
    BY <1>1, <2>1, <2>2
<1> DEFINE upto(i) == [k \in 1 .. i |-> copy(k + 1)]
           P == {i \in 0 .. l - 1 : s[i + 1] = upto(i)}
<1>9. 0 \in P
  BY <1>1, <1>8
<1>10. ASSUME NEW i \in 1 .. l - 1, i - 1 \in P PROVE i \in P
  <2>1. i \in 0 .. l - 1 /\ i + 1 \in 2 .. l /\ i + 1 - 1 = i /\ i - 1 + 1 = i /\ i - 1 \in Nat /\ i \in Nat
    BY <1>1
  <2>2. s[i] = upto(i - 1)
    BY <1>10, <2>1
  <2>3. s[i + 1] = Append(upto(i - 1), copy(i + 1))
    BY <1>8, <2>1, <2>2 DEF cat
  <2>4. Append(upto(i - 1), copy(i + 1)) = upto(i)
    <3> DEFINE j == i - 1
               U == {copy(k) : k \in 1 .. i + 1}
               t == upto(j)
               e == copy(i + 1)
               u == Append(t, e)
    <3>1. j \in Nat /\ i = j + 1
      BY <2>1
    <3>2. ASSUME NEW k \in 1 .. j PROVE copy(k + 1) \in U
      <4>1. k + 1 \in 1 .. i + 1
        BY <2>1
      <4> QED
        BY <4>1
    <3>3. e \in U
      BY <2>1
    <3>4. t \in Seq(U) /\ Len(t) = j
      <4> HIDE DEF U, j
      <4> QED
        BY <3>1, <3>2
    <3>a. \A k \in 1 .. j : t[k] = copy(k + 1)
      OBVIOUS
    <3> HIDE DEF U, t, e, j
    <3>5. u \in Seq(U) /\ Len(u) = j + 1 /\ (\A k \in 1 .. j : u[k] = t[k]) /\ u[j + 1] = e
      BY <3>3, <3>4, AppendProperties
    <3> HIDE DEF u
    <3>6. \A k \in 1 .. i : u[k] = copy(k + 1)
      <4>1. \A k \in 1 .. i : k \in 1 .. j \/ k = j + 1
        BY <3>1
      <4>2. u[j + 1] = copy(j + 1 + 1)
        BY <3>1, <3>5 DEF e
      <4> QED
        BY <3>5, <3>a, <4>1, <4>2
    <3>7. u = [k \in 1 .. i |-> u[k]]
      BY <3>1, <3>5
    <3>8. u = upto(i)
      BY <3>6, <3>7
    <3> QED
      BY <3>8 DEF u, t, e, j
  <2> HIDE DEF upto
  <2> QED
    BY <2>1, <2>3, <2>4
<1>11. s[l] = upto(l - 1)
  <2>1. l - 1 \in Nat /\ l - 1 \in 0 .. l - 1 /\ l - 1 + 1 = l
    BY <1>1
  <2>2. l - 1 \in P
    <3> HIDE DEF P
    <3> QED
      BY <1>9, <1>10, <2>1, Induction
  <2> HIDE DEF upto
  <2> QED
    BY <2>1, <2>2
<1> QED
  BY <1>0, <1>11 DEF s, l, copy

LEMMA GivenFolds ==
    \A x \in Given : Fold(x) = x
BY GivenAssumption DEF Fold

\* no two of the inputs, nor one of them and the template, are told apart by case alone
InputsApart(m) ==
    /\ \A i, j \in 1 .. Len(m.inputs) : Fold(m.inputs[i]) = Fold(m.inputs[j]) => i = j
    /\ \A i \in 1 .. Len(m.inputs) : Fold(m.inputs[i]) # Fold(Template)

LEMMA LogicalsApart ==
    ASSUME NEW m, Planned(m), NEW n, n = Loaded(m), NEW digests,
           NEW inputs, inputs = Inputs(n, digests)
    PROVE  /\ FoldDistinct(Append(m.inputs, Template)) <=> InputsApart(m)
           /\ FoldDistinct(Column(inputs, "logical")) <=> InputsApart(m)
<1> DEFINE q == m.inputs
           l == Len(q)
           s == Append(q, Template)
           c == Column(inputs, "logical")
           Distinct(t) == \A i, j \in DOMAIN t : Fold(t[i]) = Fold(t[j]) => i = j
<1>1. /\ q \in Seq(STRING) /\ Len(inputs) = l + 1 /\ DOMAIN inputs = 1 .. l + 1
      /\ inputs[1].logical = Template
      /\ \A i \in 1 .. l : inputs[i + 1].logical = q[i]
  <2>1. /\ m.inputs \in Seq(STRING)
        /\ Len(inputs) = Len(m.inputs) + 1 /\ DOMAIN inputs = 1 .. Len(m.inputs) + 1
        /\ inputs[1] = [logical |-> Template, sha |-> digests[n.deck]]
        /\ \A i \in 1 .. Len(m.inputs) :
            inputs[i + 1] = [logical |-> m.inputs[i], sha |-> digests[m.inputs[i]]]
    <3>1. DeckAndCopies(inputs, n, m, digests)
      BY InputsAre, Zenon
    <3> QED
      BY <3>1 DEF DeckAndCopies
  <2>2. inputs[1].logical = Template
    BY <2>1
  <2>3. ASSUME NEW i \in 1 .. Len(m.inputs) PROVE inputs[i + 1].logical = m.inputs[i]
    <3>1. inputs[i + 1] = [logical |-> m.inputs[i], sha |-> digests[m.inputs[i]]]
      BY <2>1, Zenon
    <3> QED
      BY <3>1
  <2> QED
    BY <2>1, <2>2, <2>3
<1> HIDE DEF q
<1>2. l \in Nat
  BY <1>1
<1>3. DOMAIN s = 1 .. l + 1 /\ s[l + 1] = Template /\ \A i \in 1 .. l : s[i] = q[i]
  BY <1>1
<1>4. DOMAIN c = 1 .. l + 1 /\ c[1] = Template /\ \A i \in 1 .. l : c[i + 1] = q[i]
  <2>1. \A i \in 1 .. l : i + 1 \in 1 .. l + 1
    BY <1>2
  <2> QED
    BY <1>1, <1>2, <2>1 DEF Column
<1>5. \A t : FoldDistinct(t) <=> Distinct(t)
  BY DEF FoldDistinct, IsInjective
<1> HIDE DEF l, s, c
<1>6. InputsApart(m) <=> /\ \A i, j \in 1 .. l : Fold(q[i]) = Fold(q[j]) => i = j
                         /\ \A i \in 1 .. l : Fold(q[i]) # Fold(Template)
  BY DEF InputsApart, q, l
<1>7. Distinct(s) <=> InputsApart(m)
  <2>1. Distinct(s) => InputsApart(m)
    <3>1. SUFFICES ASSUME Distinct(s) PROVE InputsApart(m)
      OBVIOUS
    <3>2. \A i \in 1 .. l : i \in 1 .. l + 1 /\ i # l + 1 /\ l + 1 \in 1 .. l + 1
      BY <1>2
    <3> QED
      BY <1>3, <1>6, <3>1, <3>2
  <2>2. InputsApart(m) => Distinct(s)
    <3>1. SUFFICES ASSUME InputsApart(m), NEW i \in 1 .. l + 1, NEW j \in 1 .. l + 1,
                          Fold(s[i]) = Fold(s[j])
                   PROVE  i = j
      BY <1>3
    <3>2. (i \in 1 .. l \/ i = l + 1) /\ (j \in 1 .. l \/ j = l + 1)
      BY <1>2
    <3> QED
      BY <1>3, <1>6, <3>1, <3>2
  <2> QED
    BY <2>1, <2>2
<1>8. Distinct(c) <=> InputsApart(m)
  <2>1. Distinct(c) => InputsApart(m)
    <3>1. SUFFICES ASSUME Distinct(c) PROVE InputsApart(m)
      OBVIOUS
    <3>2. \A i \in 1 .. l : i + 1 \in 1 .. l + 1 /\ i + 1 # 1 /\ 1 \in 1 .. l + 1
      BY <1>2
    <3>3. \A i, j \in 1 .. l : i + 1 = j + 1 => i = j
      OBVIOUS
    <3> QED
      BY <1>4, <1>6, <3>1, <3>2, <3>3
  <2>2. InputsApart(m) => Distinct(c)
    <3>1. SUFFICES ASSUME InputsApart(m), NEW i \in 1 .. l + 1, NEW j \in 1 .. l + 1,
                          Fold(c[i]) = Fold(c[j])
                   PROVE  i = j
      BY <1>4
    <3>2. /\ i = 1 \/ (i - 1 \in 1 .. l /\ i - 1 + 1 = i)
          /\ j = 1 \/ (j - 1 \in 1 .. l /\ j - 1 + 1 = j)
      BY <1>2
    <3>3. i # 1 => c[i] = q[i - 1]
      BY <1>4, <3>2
    <3>4. j # 1 => c[j] = q[j - 1]
      BY <1>4, <3>2
    <3>5. CASE i = 1 \/ j = 1
      BY <1>4, <1>6, <3>1, <3>2, <3>3, <3>4, <3>5
    <3>6. CASE i # 1 /\ j # 1
      <4>1. i - 1 = j - 1
        BY <1>6, <3>1, <3>2, <3>3, <3>4, <3>6
      <4> QED
        BY <3>2, <3>6, <4>1
    <3> QED
      BY <3>5, <3>6
  <2> QED
    BY <2>1, <2>2
<1> QED
  BY <1>5, <1>7, <1>8 DEF s, c, q

\* what makes an accepted manifest one whose plan can be decoded
Plain(m) == Planned(m) /\ ~Ambiguous(m)

LEMMA PlainIs ==
    ASSUME NEW m, Plain(m), NEW n, n = Loaded(m)
    PROVE  /\ Planned(m) /\ InputsApart(m) /\ FoldDistinct(Column(n.measures, "field"))
           /\ Range(m.inputs) \cap Unsafe = {}
           /\ n.adapter \in {"mock-rc", "ngspice", "xyce"}
           /\ IF n.adapter = "xyce" THEN n.analysis \in Analyses ELSE n.analysis = None
           /\ \A i \in 1 .. Len(m.inputs) : Fold(m.inputs[i]) \notin Reserved
           /\ MeasuresDecode(n.measures)
<1>1. Planned(m) /\ LoadedFrom(n, m) /\ Accepted(m)
  BY LoadedIs DEF Plain, Planned
<1>2. InputsApart(m)
  <2>1. PICK inputs : inputs = Inputs(n, <<>>)
    OBVIOUS
  <2>2. FoldDistinct(Append(m.inputs, Template))
    BY DEF Plain, Ambiguous
  <2> QED
    BY <1>1, <2>1, <2>2, LogicalsApart
<1>3. FoldDistinct(Column(n.measures, "field")) /\ Range(m.inputs) \cap Unsafe = {}
  BY DEF Plain, Ambiguous
<1>4. /\ n.adapter \in {"mock-rc", "ngspice", "xyce"}
      /\ IF n.adapter = "xyce" THEN n.analysis \in Analyses ELSE n.analysis = None
  BY <1>1 DEF LoadedFrom, Accepted, SimulatorAccepted
<1>5. \A i \in 1 .. Len(m.inputs) : Fold(m.inputs[i]) \notin Reserved
  <2>1. m.inputs \in Seq(STRING) /\ n.inputs = m.inputs
    BY <1>1 DEF LoadedFrom, Planned, IsManifest, Manifest
  <2>2. \A f \in Range(n.inputs) : Fold(f) \notin Reserved
    BY <1>1 DEF Planned, Plannable
  <2> QED
    BY <2>1, <2>2 DEF Range
<1>6. MeasuresDecode(n.measures)
  <2> DEFINE M == [name : STRING, source : STRING, field : STRING \cup {None}]
  <2>1. m.measures \in Seq(M)
    BY <1>1 DEF Planned, IsManifest, Manifest
  <2>2. DOMAIN m.measures = 1 .. Len(m.measures) /\ Len(m.measures) \in Nat
        /\ m.measures # <<>> /\ FoldDistinct(Column(m.measures, "name"))
        /\ \A x \in Range(m.measures) : x.source \notin Unsafe
    <3> HIDE DEF M
    <3> QED
      BY <1>1, <2>1 DEF Accepted, MeasuresAccepted
  <2>3. /\ DOMAIN n.measures = DOMAIN m.measures
        /\ \A i \in DOMAIN m.measures : /\ n.measures[i].name = m.measures[i].name
                                        /\ n.measures[i].source = m.measures[i].source
    BY <1>1 DEF LoadedFrom
  <2>4. Column(n.measures, "name") = Column(m.measures, "name")
    BY <2>3 DEF Column
  <2>5. n.measures # <<>>
    <3>1. Len(m.measures) # 0
      BY <2>1, <2>2, EmptySeq
    <3>2. 1 \in DOMAIN m.measures
      BY <2>2, <3>1
    <3> QED
      BY <2>3, <3>2
  <2>6. \A x \in Range(n.measures) : x.source \notin Unsafe
    BY <2>2, <2>3 DEF Range
  <2> QED
    BY <2>2, <2>4, <2>5, <2>6 DEF MeasuresDecode
<1> QED
  BY <1>1, <1>2, <1>3, <1>4, <1>5, <1>6

(* The parameters of a point are told apart.                               *)
LEMMA NamesApart ==
    ASSUME NEW m, Planned(m), NEW n, n = Loaded(m), NEW p \in Range(Points(n))
    PROVE  /\ FoldDistinct([i \in DOMAIN p.values |-> p.values[i][1]])
           /\ p.values # None /\ p.index \in Nat
<1>1. PICK ps : ps = Points(n)
  OBVIOUS
<1>2. PICK i \in 1 .. Len(ps) : p = ps[i]
  BY <1>1, PointsAre DEF Range
<1>3. /\ DOMAIN p.values = DOMAIN n.params
      /\ \A j \in DOMAIN n.params : p.values[j][1] = n.params[j].name
      /\ p \in Point
  <2>1. ps \in Seq(Point) /\ DOMAIN ps = 1 .. Len(ps)
    BY <1>1, PointsAre
  <2>2. p \in Point
    BY <1>2, <2>1, Elements
  <2>3. /\ DOMAIN ps[i].values = DOMAIN n.params
        /\ \A j \in DOMAIN n.params : ps[i].values[j][1] = n.params[j].name
    <3>1. NamedLike(ps[i].values, n.params)
      BY <1>1, PointsAre
    <3> QED
      BY <3>1 DEF NamedLike
  <2> QED
    BY <1>2, <2>2, <2>3
<1>4. /\ DOMAIN m.params = DOMAIN n.params
      /\ \A j \in DOMAIN n.params : n.params[j].name = m.params[j].name
  BY ParamsAre
<1>5. [j \in DOMAIN p.values |-> p.values[j][1]] = Column(m.params, "name")
  BY <1>3, <1>4 DEF Column
<1>6. FoldDistinct(Column(m.params, "name"))
  BY DEF Planned, Accepted, SweepAccepted
<1> QED
  BY <1>3, <1>5, <1>6, NoneAssumption DEF Point

\* what decoding compares of it with nothing else
Timely(l) == /\ \A name \in DOMAIN l.resources : l.resources[name] > 0
             /\ l.timeout > 0 /\ l.timeout <= Year

LEMMA LooseDecodes ==
    ASSUME NEW m, Planned(m), NEW n, n = Loaded(m), NEW p, NEW inputs,
           NEW c, c = LooseChain(n, p, inputs), NEW w, w = LooseAggregate(n)
    PROVE  /\ \A k \in 1 .. 3 : Timely(c[k]) /\ c[k].index = p.index
           /\ c[1].paths = Paths(n) /\ c[1].template = n.deck
           /\ c[1].copies = Copies(inputs, Paths(n)) /\ c[3].rank = p.index
           /\ Timely(w)
<1>1. n.timeout > 0 /\ n.timeout <= Year
  <2>1. n.timeout = m.timeout
    BY LoadedIs DEF LoadedFrom, Planned
  <2> QED
    BY <2>1 DEF Planned, Accepted, RunAccepted
<1>2. PICK index, time, paths, deck, copies :
            /\ index = p.index /\ time = n.timeout /\ paths = Paths(n) /\ deck = n.deck
            /\ copies = Copies(inputs, Paths(n))
  OBVIOUS
<1>3. /\ c = <<Loose(index, None, paths, deck, copies, <<>>, time),
                Loose(index, None, <<>>, None, <<>>, [simulator |-> 1], time),
                Loose(index, index, <<>>, None, <<>>, <<>>, time)>>
      /\ w = Loose(None, None, <<>>, None, <<>>, <<>>, time)
  BY <1>2, Zenon DEF LooseChain, LooseAggregate
<1>4. PICK x, y, z : /\ x = Loose(index, None, paths, deck, copies, <<>>, time)
                     /\ y = Loose(index, None, <<>>, None, <<>>, [simulator |-> 1], time)
                     /\ z = Loose(index, index, <<>>, None, <<>>, <<>>, time)
  OBVIOUS
<1>5. c = <<x, y, z>>
  BY <1>3, <1>4, Zenon
<1>6. /\ x.index = index /\ x.paths = paths /\ x.template = deck /\ x.copies = copies
      /\ x.resources = <<>> /\ x.timeout = time
  BY <1>4 DEF Loose
<1>7. y.index = index /\ y.resources = [simulator |-> 1] /\ y.timeout = time
  BY <1>4 DEF Loose
<1>8. z.index = index /\ z.rank = index /\ z.resources = <<>> /\ z.timeout = time
  BY <1>4 DEF Loose
<1>9. w.resources = <<>> /\ w.timeout = time
  BY <1>3 DEF Loose
<1>10. DOMAIN <<>> = {} /\ \A name \in DOMAIN [simulator |-> 1] : [simulator |-> 1][name] > 0
  OBVIOUS
<1>11. Timely(x) /\ Timely(y) /\ Timely(z) /\ Timely(w)
  BY <1>1, <1>2, <1>6, <1>7, <1>8, <1>9, <1>10 DEF Timely
<1>12. \A k \in 1 .. 3 : c[k] = x \/ c[k] = y \/ c[k] = z
  BY <1>5
<1>13. c[1] = x /\ c[3] = z
  BY <1>5
<1> QED
  BY <1>2, <1>6, <1>7, <1>8, <1>11, <1>12, <1>13

LEMMA RenderDecodes ==
    ASSUME NEW m, Plain(m), NEW n, n = Loaded(m), NEW p \in Range(Points(n)), NEW digests,
           NEW inputs, inputs = Inputs(n, digests), NEW a, IsRender(a, n, p, inputs),
           NEW x, x = LooseChain(n, p, inputs)[1]
    PROVE  ActivityDecodes(a, x)
<1> DEFINE q == m.inputs
           l == Len(q)
           paths == Paths(n)
           copies == Copies(inputs, paths)
<1>0. paths[1] = n.deck
  BY PathsAre DEF Plain
<1>1. /\ Planned(m) /\ InputsApart(m) /\ Range(q) \cap Unsafe = {}
      /\ \A i \in 1 .. l : Fold(q[i]) \notin Reserved
  BY PlainIs
<1>2. /\ q \in Seq(STRING) /\ Len(inputs) = l + 1 /\ DOMAIN inputs = 1 .. l + 1
      /\ inputs[1] = [logical |-> Template, sha |-> digests[n.deck]]
      /\ \A i \in 1 .. l :
            inputs[i + 1] = [logical |-> q[i], sha |-> digests[q[i]]]
  <2>1. DeckAndCopies(inputs, n, m, digests)
    BY <1>1, InputsAre, Zenon
  <2> QED
    BY <2>1 DEF DeckAndCopies
<1>3. l \in Nat /\ DOMAIN q = 1 .. l
  BY <1>2
<1>4. \A i \in 1 .. l : Fold(q[i]) # Fold(Template)
  BY <1>1 DEF InputsApart
<1>5. \A i \in 1 .. l : q[i] \notin Unsafe
  BY <1>1, <1>3 DEF Range
<1> HIDE DEF q, l
<1>6. inputs[1].logical = Template
  BY <1>2
<1>7. \A i \in 1 .. l : inputs[i + 1].logical = q[i]
  <2>1. ASSUME NEW i \in 1 .. l PROVE inputs[i + 1].logical = q[i]
    <3>1. inputs[i + 1] = [logical |-> q[i], sha |-> digests[q[i]]]
      BY <1>2, Zenon
    <3> QED
      BY <3>1
  <2> QED
    BY <2>1
<1>8. \A i \in 2 .. l + 1 : i - 1 \in 1 .. l /\ inputs[i].logical = q[i - 1]
  <2>1. ASSUME NEW i \in 2 .. l + 1 PROVE i - 1 \in 1 .. l /\ inputs[i].logical = q[i - 1]
    <3>1. i - 1 \in 1 .. l /\ i - 1 + 1 = i
      BY <1>3
    <3>2. inputs[i - 1 + 1].logical = q[i - 1]
      BY <1>7, <3>1, Zenon
    <3> QED
      BY <3>1, <3>2
  <2> QED
    BY <2>1
<1>9. \A i \in 2 .. l + 1 : inputs[i].logical # Template
  BY <1>4, <1>8
<1>10. DOMAIN copies = 1 .. l /\ Len(copies) = l /\ \A i \in 1 .. l : copies[i].logical = q[i]
  <2>1. copies = [i \in 1 .. l |-> [path |-> paths[i + 1], logical |-> inputs[i + 1].logical]]
    <3>1. Len(inputs) \in Nat \ {0} /\ Len(inputs) - 1 = l
          /\ \A i \in 2 .. Len(inputs) : inputs[i].logical # Template
      BY <1>2, <1>3, <1>9
    <3>2. copies = [i \in 1 .. Len(inputs) - 1 |->
                        [path |-> paths[i + 1], logical |-> inputs[i + 1].logical]]
      BY <1>6, <3>1, CopiesAre
    <3> QED
      BY <3>1, <3>2
  <2> HIDE DEF copies
  <2>2. \A i \in 1 .. l : copies[i].logical = inputs[i + 1].logical
    BY <2>1
  <2> QED
    BY <1>3, <1>7, <2>1, <2>2
<1> DEFINE names == Column(copies, "logical")
           made == <<"deck.sp", "point.json">>
           arts == made \o names
<1> HIDE DEF copies
<1>11. DOMAIN names = 1 .. l /\ \A i \in 1 .. l : names[i] = q[i]
  BY <1>10 DEF Column
<1>12. FoldDistinct(arts)
  <2> DEFINE S == {"deck.sp", "point.json"} \cup {q[i] : i \in 1 .. l}
  <2>1. names \in Seq(S) /\ Len(names) = l
    <3>1. \A i \in 1 .. l : q[i] \in S
      OBVIOUS
    <3>2. names = [i \in 1 .. l |-> names[i]]
      BY <1>11 DEF Column
    <3> HIDE DEF names, S
    <3> QED
      BY <1>3, <1>11, <3>1, <3>2
  <2> HIDE DEF names, arts
  <2>2. made \in Seq(S) /\ Len(made) = 2 /\ made[1] = "deck.sp" /\ made[2] = "point.json"
    <3> DEFINE u == "deck.sp"
               v == "point.json"
    <3>1. u \in S /\ v \in S /\ made = <<u, v>>
      OBVIOUS
    <3> HIDE DEF u, v, made, S
    <3>2. <<u, v>> \in Seq(S) /\ Len(<<u, v>>) = 2
      BY <3>1
    <3> QED
      BY <3>1, <3>2 DEF u, v
  <2> HIDE DEF S
  <2> HIDE DEF made
  <2> USE DEF arts
  <2>3. /\ DOMAIN arts = 1 .. l + 2
        /\ \A i \in 1 .. l + 2 : arts[i] = IF i <= 2 THEN made[i] ELSE names[i - 2]
    <3>1. /\ arts \in Seq(S) /\ Len(arts) = Len(made) + Len(names)
          /\ \A i \in 1 .. Len(made) + Len(names) :
                arts[i] = IF i <= Len(made) THEN made[i] ELSE names[i - Len(made)]
      BY <2>1, <2>2, ConcatProperties
    <3> HIDE DEF arts
    <3>2. Len(made) + Len(names) = l + 2
      BY <1>3, <2>1, <2>2
    <3> QED
      BY <1>3, <2>1, <2>2, <3>1, <3>2
  <2> HIDE DEF arts
  <2>4. /\ Fold("deck.sp") = "deck.sp" /\ Fold("point.json") = "point.json"
        /\ "deck.sp" \in Reserved /\ "point.json" \in Reserved
    BY GivenFolds DEF Given, Reserved
  <2>5. \A i \in 3 .. l + 2 : i - 2 \in 1 .. l /\ arts[i] = q[i - 2]
    <3>1. ASSUME NEW i \in 3 .. l + 2 PROVE i - 2 \in 1 .. l /\ arts[i] = q[i - 2]
      <4>1. i - 2 \in 1 .. l /\ i \in 1 .. l + 2 /\ ~(i <= 2)
        BY <1>3
      <4> QED
        BY <1>11, <2>3, <4>1
    <3> QED
      BY <3>1
  <2>6. arts[1] = "deck.sp" /\ arts[2] = "point.json"
    <3>1. 1 \in 1 .. l + 2 /\ 2 \in 1 .. l + 2
      BY <1>3
    <3> QED
      BY <2>2, <2>3, <3>1
  <2>7. ASSUME NEW i \in 1 .. l + 2, NEW j \in 1 .. l + 2, Fold(arts[i]) = Fold(arts[j])
        PROVE  i = j
    <3>1. (i = 1 \/ i = 2 \/ i \in 3 .. l + 2) /\ (j = 1 \/ j = 2 \/ j \in 3 .. l + 2)
      BY <1>3
    <3>2. \A k \in 3 .. l + 2 : Fold(arts[k]) \notin Reserved
      BY <1>1, <2>5 DEF q, l
    <3>3. CASE i \in 3 .. l + 2 /\ j \in 3 .. l + 2
      <4>1. i - 2 \in 1 .. l /\ j - 2 \in 1 .. l /\ Fold(q[i - 2]) = Fold(q[j - 2])
        BY <2>5, <2>7, <3>3
      <4>2. i - 2 = j - 2
        BY <1>1, <4>1 DEF InputsApart, q, l
      <4> QED
        BY <4>2
    <3>4. CASE ~(i \in 3 .. l + 2 /\ j \in 3 .. l + 2)
      BY <2>4, <2>6, <2>7, <3>1, <3>2, <3>4
    <3> QED
      BY <3>3, <3>4
  <2> QED
    BY <2>3, <2>7 DEF FoldDistinct, IsInjective
<1>13. FoldDistinct(Column(inputs, "logical"))
  BY <1>1, LogicalsApart
<1>14. \A e \in Range(inputs) : e.logical \notin Unsafe
  <2>1. SUFFICES ASSUME NEW i \in 1 .. l + 1 PROVE inputs[i].logical \notin Unsafe
    BY <1>2 DEF Range, l
  <2>2. i = 1 \/ i \in 2 .. l + 1
    BY <1>3
  <2> QED
    BY <1>5, <1>6, <1>8, <2>2, GivenAssumption
<1>15. FoldDistinct([i \in DOMAIN p.values |-> p.values[i][1]]) /\ p.values # None /\ p.index \in Nat
  BY <1>1, NamesApart
<1>16. /\ IsActivity(a) /\ a.kind = "render" /\ a.point = p.values /\ a.deps = <<>> /\ a.inputs = inputs
       /\ a.artifacts = arts /\ a.payload = [point |-> Dict(p.values)]
  BY Zenon DEF IsRender, arts, made, names, copies, paths
<1> HIDE DEF arts
<1>17. Timely(x) /\ x.index = p.index /\ x.paths = paths /\ x.template = n.deck /\ x.copies = copies
  BY <1>1, LooseDecodes DEF copies
<1>18. RenderContract(a, x)
  <2>1. a.payload.point = Dict(p.values)
    BY <1>16
  <2>2. \E i \in DOMAIN inputs : /\ inputs[i].logical = Template /\ paths[i] = n.deck
                                /\ \A j \in DOMAIN inputs \ {i} : inputs[j].logical # Template
    <3>1. 1 \in DOMAIN inputs /\ \A j \in DOMAIN inputs \ {1} : j \in 2 .. l + 1
      BY <1>2, <1>3 DEF l
    <3> QED
      BY <1>0, <1>6, <1>9, <3>1
  <2> HIDE DEF paths
  <2> QED
    BY <1>15, <1>16, <1>17, <2>1, <2>2 DEF RenderContract, copies
<1>19. IsInjective(a.deps) /\ a.id = ActivityId(a) /\ Contract(a, x)
  <2>1. IsInjective(a.deps)
    BY <1>16 DEF IsInjective
  <2>2. a.id = ActivityId(a)
    BY <1>16, IdIsDue
  <2> QED
    BY <1>16, <1>18, <2>1, <2>2 DEF Contract
<1>20. x.index \in Nat
  BY <1>15, <1>17
<1> QED
  BY <1>12, <1>13, <1>14, <1>15, <1>16, <1>17, <1>19, <1>20, Zenon DEF ActivityDecodes, Timely

\* the names an activity gives to what it makes are told apart
LEMMA MadeApart ==
    ASSUME NEW s, NEW l \in Nat, DOMAIN s = 1 .. l, \A i \in 1 .. l : s[i] \in Given,
           \A i, j \in 1 .. l : s[i] = s[j] => i = j
    PROVE  FoldDistinct(s)
<1>1. \A i \in 1 .. l : Fold(s[i]) = s[i]
  BY GivenFolds
<1> QED
  BY <1>1 DEF FoldDistinct, IsInjective

LEMMA ThreeAnd ==
    ASSUME NEW a, NEW b, NEW c, NEW d, NEW e
    PROVE  /\ <<a, b, c>> \o <<>> = <<a, b, c>>
           /\ <<a, b, c>> \o <<d>> = <<a, b, c, d>>
           /\ <<a, b, c>> \o <<d, e>> = <<a, b, c, d, e>>
<1> DEFINE S == {a, b, c, d, e}
<1>1. <<a, b, c>> \in Seq(S) /\ <<>> \in Seq(S) /\ <<d>> \in Seq(S) /\ <<d, e>> \in Seq(S)
  OBVIOUS
<1>2. <<a, b, c>> \o <<>> = <<a, b, c>>
  BY <1>1, ConcatEmptySeq
<1>3. <<a, b, c>> \o <<d>> = <<a, b, c, d>>
  <2> DEFINE v == <<a, b, c>>
             w == <<d>>
             x == <<a, b, c, d>>
  <2>1. v \in Seq(S) /\ w \in Seq(S) /\ x \in Seq(S) /\ Len(v) = 3 /\ Len(w) = 1 /\ Len(x) = 4
        /\ v[1] = x[1] /\ v[2] = x[2] /\ v[3] = x[3] /\ w[1] = x[4]
    OBVIOUS
  <2> HIDE DEF v, w, x
  <2>2. /\ v \o w \in Seq(S) /\ Len(v \o w) = 4
        /\ \A i \in 1 .. 4 : (v \o w)[i] = IF i <= 3 THEN v[i] ELSE w[i - 3]
    <3> HIDE DEF S
    <3>1. /\ v \o w \in Seq(S) /\ Len(v \o w) = Len(v) + Len(w)
          /\ \A i \in 1 .. Len(v) + Len(w) : (v \o w)[i] = IF i <= Len(v) THEN v[i] ELSE w[i - Len(v)]
      BY <2>1, ConcatProperties
    <3> QED
      BY <2>1, <3>1
  <2>3. \A i \in 1 .. 4 : (v \o w)[i] = x[i]
    BY <2>1, <2>2
  <2> QED
    BY <2>1, <2>2, <2>3, SeqEqual DEF v, w, x
<1>4. <<a, b, c>> \o <<d, e>> = <<a, b, c, d, e>>
  <2> DEFINE v == <<a, b, c>>
             w == <<d, e>>
             x == <<a, b, c, d, e>>
  <2>1. v \in Seq(S) /\ w \in Seq(S) /\ x \in Seq(S) /\ Len(v) = 3 /\ Len(w) = 2 /\ Len(x) = 5
        /\ v[1] = x[1] /\ v[2] = x[2] /\ v[3] = x[3] /\ w[1] = x[4] /\ w[2] = x[5]
    OBVIOUS
  <2> HIDE DEF v, w, x
  <2>2. /\ v \o w \in Seq(S) /\ Len(v \o w) = 5
        /\ \A i \in 1 .. 5 : (v \o w)[i] = IF i <= 3 THEN v[i] ELSE w[i - 3]
    <3> HIDE DEF S
    <3>1. /\ v \o w \in Seq(S) /\ Len(v \o w) = Len(v) + Len(w)
          /\ \A i \in 1 .. Len(v) + Len(w) : (v \o w)[i] = IF i <= Len(v) THEN v[i] ELSE w[i - Len(v)]
      BY <2>1, ConcatProperties
    <3> QED
      BY <2>1, <3>1
  <2>3. \A i \in 1 .. 5 : (v \o w)[i] = x[i]
    BY <2>1, <2>2
  <2> QED
    BY <2>1, <2>2, <2>3, SeqEqual DEF v, w, x
<1> QED
  BY <1>2, <1>3, <1>4

LEMMA ProducesApart ==
    ASSUME NEW adapter \in {"mock-rc", "ngspice", "xyce"}
    PROVE  FoldDistinct(Produces(adapter))
<1>1. CASE adapter = "mock-rc"
  <2>1. PICK s : s = <<"metrics.json", "stdout.log", "stderr.log">>
    OBVIOUS
  <2>2. Produces(adapter) = s
    BY <1>1, <2>1, ThreeAnd DEF Produces
  <2>3. DOMAIN s = 1 .. 3 /\ (\A i \in 1 .. 3 : s[i] \in Given) /\ \A i, j \in 1 .. 3 : s[i] = s[j] => i = j
    BY <2>1 DEF Given, Reserved
  <2> QED
    BY <2>2, <2>3, MadeApart
<1>2. CASE adapter = "ngspice"
  <2>1. PICK s : s = <<"metrics.json", "stdout.log", "stderr.log", "ngspice_output.log">>
    OBVIOUS
  <2>2. Produces(adapter) = s
    BY <1>2, <2>1, ThreeAnd DEF Produces
  <2>3. DOMAIN s = 1 .. 4 /\ (\A i \in 1 .. 4 : s[i] \in Given) /\ \A i, j \in 1 .. 4 : s[i] = s[j] => i = j
    BY <2>1 DEF Given, Reserved
  <2> QED
    BY <2>2, <2>3, MadeApart
<1>3. CASE adapter = "xyce"
  <2>1. PICK s : s = <<"metrics.json", "stdout.log", "stderr.log", "xyce.log", "measure.out">>
    OBVIOUS
  <2>2. Produces(adapter) = s
    BY <1>3, <2>1, ThreeAnd DEF Produces
  <2>3. DOMAIN s = 1 .. 5 /\ (\A i \in 1 .. 5 : s[i] \in Given) /\ \A i, j \in 1 .. 5 : s[i] = s[j] => i = j
    BY <2>1 DEF Given, Reserved
  <2> QED
    BY <2>2, <2>3, MadeApart
<1> QED
  BY <1>1, <1>2, <1>3

LEMMA NothingApart ==
    /\ FoldDistinct(Column(<<>>, "logical")) /\ Range(<<>>) = {}
    /\ \A d : IsInjective(<<d>>) /\ IsInjective(<<>>)
<1>1. DOMAIN <<>> = {}
  OBVIOUS
<1> QED
  BY <1>1 DEF FoldDistinct, IsInjective, Column, Range

LEMMA SimulateDecodes ==
    ASSUME NEW m, Plain(m), NEW n, n = Loaded(m), NEW p \in Range(Points(n)),
           NEW d, NEW by, NEW a, IsSimulate(a, n, p, d, by),
           NEW inputs, NEW x, x = LooseChain(n, p, inputs)[2]
    PROVE  ActivityDecodes(a, x)
<1> DEFINE fields == Column(n.measures, "field")
           run == [adapter |-> n.adapter, executable |-> n.executable, analysis |-> n.analysis,
                   fields |-> fields]
           tool == Identity(n.adapter, by)
<1>1. /\ Planned(m) /\ FoldDistinct(fields) /\ n.adapter \in {"mock-rc", "ngspice", "xyce"}
      /\ IF n.adapter = "xyce" THEN n.analysis \in Analyses ELSE n.analysis = None
  BY PlainIs
<1>2. FoldDistinct([i \in DOMAIN p.values |-> p.values[i][1]]) /\ p.values # None /\ p.index \in Nat
  BY <1>1, NamesApart
<1>3. /\ IsActivity(a) /\ a.kind = "simulate" /\ a.point = p.values /\ a.deps = <<d>> /\ a.inputs = <<>>
      /\ a.artifacts = Produces(n.adapter) /\ a.payload = run
      /\ a.identity = [config |-> run, adapter |-> tool]
  BY Zenon DEF IsSimulate
<1> HIDE DEF tool, fields
<1>7. Timely(x) /\ x.index = p.index /\ x.index \in Nat
  BY <1>1, <1>2, LooseDecodes
<1>4. SimulateContract(a)
  <2>1. /\ a.payload.adapter = n.adapter /\ a.payload.analysis = n.analysis
        /\ a.payload.fields = fields /\ a.identity.config = run
    BY <1>3
  <2> HIDE DEF run
  <2> QED
    BY <1>1, <1>2, <1>3, <2>1 DEF SimulateContract
<1>5. a.id = ActivityId(a) /\ Contract(a, x)
  BY <1>3, <1>4, IdIsDue DEF Contract
<1>6. FoldDistinct(a.artifacts)
  BY <1>1, <1>3, ProducesApart
<1> QED
  BY <1>2, <1>3, <1>5, <1>6, <1>7, NothingApart, Zenon DEF ActivityDecodes, Timely

LEMMA ExtractDecodes ==
    ASSUME NEW m, Plain(m), NEW n, n = Loaded(m), NEW p \in Range(Points(n)),
           NEW d, NEW a, IsExtract(a, n, p, d),
           NEW inputs, NEW x, x = LooseChain(n, p, inputs)[3]
    PROVE  ActivityDecodes(a, x)
<1> DEFINE dict == Dict(p.values)
           names == <<"extracted.json">>
<1>1. Planned(m) /\ MeasuresDecode(n.measures)
  BY PlainIs
<1>2. FoldDistinct([i \in DOMAIN p.values |-> p.values[i][1]]) /\ p.values # None /\ p.index \in Nat
  BY <1>1, NamesApart
<1>3. /\ IsActivity(a) /\ a.kind = "extract" /\ a.point = p.values /\ a.deps = <<d>> /\ a.inputs = <<>>
      /\ a.artifacts = names
      /\ a.payload = [measures |-> n.measures, point |-> dict]
      /\ a.identity = n.measures
  BY Zenon DEF IsExtract
<1>4. FoldDistinct(names)
  <2>1. DOMAIN names = 1 .. 1 /\ (\A i \in 1 .. 1 : names[i] \in Given)
        /\ \A i, j \in 1 .. 1 : names[i] = names[j] => i = j
    BY DEF Given
  <2> HIDE DEF names
  <2> QED
    BY <2>1, MadeApart
<1>7. Timely(x) /\ x.index = p.index /\ x.rank = p.index /\ x.index \in Nat
  BY <1>1, <1>2, LooseDecodes
<1>5. ExtractContract(a, x)
  <2>1. a.payload.measures = n.measures /\ a.payload.point = dict
    <3> HIDE DEF dict
    <3> QED
      BY <1>3
  <2> QED
    BY <1>1, <1>2, <1>3, <1>7, <2>1 DEF ExtractContract
<1> HIDE DEF dict, names
<1>6. a.id = ActivityId(a) /\ Contract(a, x)
  BY <1>3, <1>5, IdIsDue DEF Contract
<1> QED
  BY <1>2, <1>3, <1>4, <1>6, <1>7, NothingApart, Zenon DEF ActivityDecodes, Timely

LEMMA AggregateDecodes ==
    ASSUME NEW m, Plain(m), NEW n, n = Loaded(m), NEW extracts, IsInjective(extracts),
           NEW a, IsAggregate(a, n, extracts), NEW x, x = LooseAggregate(n)
    PROVE  ActivityDecodes(a, x)
<1> DEFINE names == <<"results.json", "results.csv", "regression-bundle.json">>
<1>1. MeasuresDecode(n.measures) /\ Planned(m)
  BY PlainIs
<1>6. Timely(x)
  BY <1>1, LooseDecodes
<1>2. /\ IsActivity(a) /\ a.kind = "aggregate" /\ a.point = None /\ a.deps = extracts
      /\ a.inputs = <<>> /\ a.artifacts = names /\ a.payload = [measures |-> n.measures]
      /\ a.identity = n.measures
  BY Zenon DEF IsAggregate
<1>3. FoldDistinct(names)
  <2>1. DOMAIN names = 1 .. 3 /\ (\A i \in 1 .. 3 : names[i] \in Given)
        /\ \A i, j \in 1 .. 3 : names[i] = names[j] => i = j
    BY DEF Given
  <2> HIDE DEF names
  <2> QED
    BY <2>1, MadeApart
<1> HIDE DEF names
<1>4. AggregateContract(a)
  BY <1>1, <1>2 DEF AggregateContract
<1>5. a.id = ActivityId(a) /\ Contract(a, x)
  BY <1>2, <1>4, IdIsDue DEF Contract
<1> QED
  BY <1>2, <1>3, <1>5, <1>6, NothingApart, Zenon DEF ActivityDecodes, Timely

(* What an id says: two activities of one id do the same.                  *)
LEMMA IdTells ==
    ASSUME NEW a, IsActivity(a), NEW b, IsActivity(b), a.id = b.id
    PROVE  /\ a.kind = b.kind /\ a.deps = b.deps /\ a.identity = b.identity
           /\ a.point = b.point /\ a.inputs = b.inputs
<1>1. ActivityId(a) = ActivityId(b)
  BY IdIsDue
<1> DEFINE id(c) == [kind |-> c.kind, point |-> c.point, deps |-> c.deps, artifacts |-> c.artifacts,
                     identity |-> c.identity, inputs |-> c.inputs]
<1>2. id(a) = id(b)
  BY <1>1, Zenon DEF ActivityId, Fingerprint
<1> QED
  BY <1>2

(* What an accepted, unambiguous manifest is planned as can be decoded.    *)
LEMMA PlainPlanDecodes ==
    ASSUME NEW m, Plain(m), NEW n, n = Loaded(m), NEW digests, NEW by,
           NEW plan, plan = Compile(n, digests, by)
    PROVE  PlanDecodes(plan)
<1> DEFINE acts == plan.activities
           ids == Column(acts, "id")
           inputs == Inputs(n, digests)
           ps == Points(n)
           l == Len(ps)
           loose == plan.loose
           Rest(i) == LooseChain(n, ps[i], inputs)
           last == LooseAggregate(n)
<1>1. Planned(m)
  BY DEF Plain
<1>2. PICK chains, aggregate : PlanIs(plan, n, inputs, by, ps, chains, aggregate)
  BY <1>1, CompileIs
<1>3. /\ ps \in Seq(Point) /\ l \in Nat \ {0} /\ DOMAIN ps = 1 .. l
      /\ \A i \in 1 .. l : ps[i] = [index |-> i - 1, values |-> ps[i].values]
      /\ \A i, j \in 1 .. l : ps[i].values = ps[j].values => i = j
  <2> HIDE DEF ps, l
  <2>1. /\ ps \in Seq(Point) /\ Len(ps) \in Nat \ {0} /\ DOMAIN ps = 1 .. Len(ps)
        /\ \A i \in 1 .. Len(ps) : ps[i] = [index |-> i - 1, values |-> ps[i].values]
        /\ \A i, j \in 1 .. Len(ps) : ps[i].values = ps[j].values => i = j
    BY <1>1, PointsAre DEF ps
  <2> QED
    BY <2>1 DEF l
<1>a. inputs = Inputs(n, digests)
  OBVIOUS
<1> DEFINE extracts == [i \in 1 .. l |-> chains[i][3].id]
<1>4. /\ DOMAIN acts = 1 .. 3 * l + 1 /\ Len(acts) = 3 * l + 1 /\ acts[3 * l + 1] = aggregate
      /\ \A i \in 1 .. l, k \in 1 .. 3 : acts[3 * (i-1) + k] = chains[i][k]
      /\ IsAggregate(aggregate, n, extracts)
      /\ acts \in Seq(Range(acts))
      /\ plan.id = PlanId(acts, plan.jobs, plan.limits, plan.failFast)
      /\ plan.jobs > 0 /\ \A name \in DOMAIN plan.limits : plan.limits[name] > 0
      /\ \A i \in 1 .. l, k \in 1 .. 3 : loose[3 * (i-1) + k] = Rest(i)[k]
      /\ loose[3 * l + 1] = last
  <2> HIDE DEF ps, inputs
  <2>1. plan.jobs = n.jobs /\ plan.failFast = n.failFast
    BY <1>2 DEF PlanIs
  <2> QED
    BY <1>2, <2>1 DEF PlanIs
<1>5. \A i \in 1 .. l : /\ IsRender(chains[i][1], n, ps[i], inputs)
                        /\ IsSimulate(chains[i][2], n, ps[i], chains[i][1].id, by)
                        /\ IsExtract(chains[i][3], n, ps[i], chains[i][2].id)
  BY <1>2, Zenon DEF PlanIs, IsChain
<1>b. \A i \in 1 .. l : ps[i] \in Range(Points(n)) /\ ps[i].values # None
  <2> HIDE DEF ps
  <2>1. \A i \in 1 .. l : ps[i] \in Point /\ ps[i] \in Range(ps)
    BY <1>3 DEF Range
  <2>2. \A i \in 1 .. l : ps[i].values \in Settings
    BY <2>1 DEF Point
  <2> QED
    BY <2>1, <2>2, NoneAssumption DEF ps
<1>c. /\ \A i \in 1 .. l, k \in 1 .. 3 : Timely(Rest(i)[k]) /\ Rest(i)[k].index = ps[i].index
      /\ Timely(last)
  <2>1. ASSUME NEW i \in 1 .. l
        PROVE  /\ \A k \in 1 .. 3 : Timely(Rest(i)[k]) /\ Rest(i)[k].index = ps[i].index
               /\ Timely(last)
    BY <1>1, LooseDecodes
  <2>2. 1 \in 1 .. l
    BY <1>3
  <2> HIDE DEF Rest, last, ps, l
  <2> QED
    BY <2>1, <2>2
<1>d. \A i \in 1 .. l : Rest(i) = LooseChain(n, ps[i], inputs)
  OBVIOUS
<1>e. last = LooseAggregate(n)
  OBVIOUS
<1> HIDE DEF ps, l, inputs, acts, extracts, loose, Rest, last
<1>6. /\ \A i \in 1 .. l : /\ chains[i][1].kind = "render" /\ chains[i][2].kind = "simulate"
                           /\ chains[i][3].kind = "extract" /\ chains[i][1].deps = <<>>
                           /\ chains[i][2].deps = <<chains[i][1].id>>
                           /\ chains[i][3].deps = <<chains[i][2].id>>
      /\ \A i \in 1 .. l, k \in 1 .. 3 : IsActivity(chains[i][k]) /\ chains[i][k].point = ps[i].values
      /\ IsActivity(aggregate) /\ aggregate.kind = "aggregate" /\ aggregate.point = None
      /\ aggregate.deps = extracts
  <2>1. ASSUME NEW i \in 1 .. l
        PROVE  /\ chains[i][1].kind = "render" /\ chains[i][2].kind = "simulate"
               /\ chains[i][3].kind = "extract" /\ chains[i][1].deps = <<>>
               /\ chains[i][2].deps = <<chains[i][1].id>>
               /\ chains[i][3].deps = <<chains[i][2].id>>
               /\ IsActivity(chains[i][1]) /\ chains[i][1].point = ps[i].values
               /\ IsActivity(chains[i][2]) /\ chains[i][2].point = ps[i].values
               /\ IsActivity(chains[i][3]) /\ chains[i][3].point = ps[i].values
    BY <1>5, Zenon DEF IsRender, IsSimulate, IsExtract
  <2>2. \A k \in 1 .. 3 : k = 1 \/ k = 2 \/ k = 3
    OBVIOUS
  <2>3. /\ IsActivity(aggregate) /\ aggregate.kind = "aggregate" /\ aggregate.point = None
        /\ aggregate.deps = extracts
    BY <1>4, Zenon DEF IsAggregate
  <2>4. \A i \in 1 .. l, k \in 1 .. 3 : IsActivity(chains[i][k]) /\ chains[i][k].point = ps[i].values
    BY <2>1, <2>2
  <2> QED
    BY <2>1, <2>3, <2>4
<1>7. \A x \in 1 .. 3 * l + 1 : x = 3 * l + 1 \/ \E i \in 1 .. l, k \in 1 .. 3 : x = 3 * (i - 1) + k
  <2>1. ASSUME NEW x \in 1 .. 3 * l + 1, x # 3 * l + 1
        PROVE  \E i \in 1 .. l, k \in 1 .. 3 : x = 3 * (i - 1) + k
    <3>1. x \in 1 .. 3 * l /\ l \in Nat
      BY <1>3, <2>1
    <3> QED
      BY <3>1, Threes
  <2> QED
    BY <2>1
<1>8. ASSUME NEW i \in 1 .. l, NEW k \in 1 .. 3, NEW j \in 1 .. l, NEW h \in 1 .. 3,
             chains[i][k].id = chains[j][h].id
      PROVE  i = j /\ k = h
  <2>1. chains[i][k].kind = chains[j][h].kind /\ ps[i].values = ps[j].values
    <3>1. PICK a, b : a = chains[i][k] /\ b = chains[j][h]
      OBVIOUS
    <3>2. IsActivity(a) /\ IsActivity(b) /\ a.id = b.id /\ a.point = ps[i].values /\ b.point = ps[j].values
      BY <1>6, <1>8, <3>1
    <3> QED
      BY <1>b, <3>1, <3>2, IdTells
  <2>2. (k = 1 \/ k = 2 \/ k = 3) /\ (h = 1 \/ h = 2 \/ h = 3)
    OBVIOUS
  <2>3. k = h
    BY <1>6, <2>1, <2>2
  <2> QED
    BY <1>3, <2>1, <2>3
<1>9. \A i \in 1 .. l, k \in 1 .. 3 : chains[i][k].id # aggregate.id
  <2>1. SUFFICES ASSUME NEW i \in 1 .. l, NEW k \in 1 .. 3, chains[i][k].id = aggregate.id
                 PROVE  FALSE
    OBVIOUS
  <2>2. PICK a, b : a = chains[i][k] /\ b = aggregate
    OBVIOUS
  <2>3. IsActivity(a) /\ IsActivity(b) /\ a.id = b.id
    BY <1>6, <2>1, <2>2
  <2>4. a.kind = b.kind
    BY <2>3, IdTells
  <2>5. k = 1 \/ k = 2 \/ k = 3
    OBVIOUS
  <2> QED
    BY <1>6, <2>2, <2>4, <2>5
<1>10. \A x \in DOMAIN acts : ActivityDecodes(acts[x], loose[x])
  <2>1. IsInjective(extracts)
    <3>1. SUFFICES ASSUME NEW i \in 1 .. l, NEW j \in 1 .. l, extracts[i] = extracts[j]
                   PROVE  i = j
      BY DEF IsInjective, extracts
    <3>2. chains[i][3].id = chains[j][3].id
      BY <3>1 DEF extracts
    <3> QED
      BY <1>8, <3>2
  <2>2. ActivityDecodes(aggregate, last)
    BY <1>4, <1>e, <2>1, AggregateDecodes
  <2>3. ASSUME NEW i \in 1 .. l
        PROVE  /\ ActivityDecodes(chains[i][1], Rest(i)[1]) /\ ActivityDecodes(chains[i][2], Rest(i)[2])
               /\ ActivityDecodes(chains[i][3], Rest(i)[3])
    <3>1. PICK p, a, b, c : p = ps[i] /\ a = chains[i][1] /\ b = chains[i][2] /\ c = chains[i][3]
      OBVIOUS
    <3>6. PICK rest : rest = Rest(i)
      OBVIOUS
    <3>7. rest = LooseChain(n, p, inputs)
      BY <1>d, <3>1, <3>6
    <3>8. PICK u, v, w : u = rest[1] /\ v = rest[2] /\ w = rest[3]
      OBVIOUS
    <3>9. /\ u = LooseChain(n, p, inputs)[1] /\ v = LooseChain(n, p, inputs)[2]
          /\ w = LooseChain(n, p, inputs)[3]
      BY <3>7, <3>8, Zenon
    <3>2. p \in Range(Points(n)) /\ IsRender(a, n, p, inputs) /\ IsSimulate(b, n, p, a.id, by)
          /\ IsExtract(c, n, p, b.id)
      BY <1>5, <1>b, <3>1
    <3>3. ActivityDecodes(a, u)
      BY <1>a, <3>2, <3>9, RenderDecodes
    <3>4. ActivityDecodes(b, v)
      BY <3>2, <3>9, SimulateDecodes
    <3>5. ActivityDecodes(c, w)
      BY <3>2, <3>9, ExtractDecodes
    <3> QED
      BY <3>1, <3>3, <3>4, <3>5, <3>6, <3>8
  <2>4. SUFFICES ASSUME NEW x \in 1 .. 3 * l + 1 PROVE ActivityDecodes(acts[x], loose[x])
    BY <1>4
  <2>5. CASE x = 3 * l + 1
    BY <1>4, <2>2, <2>5
  <2>6. CASE x # 3 * l + 1
    <3>1. PICK i \in 1 .. l, k \in 1 .. 3 : x = 3 * (i - 1) + k
      BY <1>7, <2>6
    <3>2. acts[x] = chains[i][k] /\ loose[x] = Rest(i)[k]
      BY <1>4, <3>1
    <3>3. k = 1 \/ k = 2 \/ k = 3
      OBVIOUS
    <3>4. ActivityDecodes(chains[i][k], Rest(i)[k])
      <4>1. CASE k = 1
        BY <2>3, <4>1
      <4>2. CASE k = 2
        BY <2>3, <4>2
      <4>3. CASE k = 3
        BY <2>3, <4>3
      <4> QED
        BY <3>3, <4>1, <4>2, <4>3
    <3> QED
      BY <3>2, <3>4
  <2> QED
    BY <2>5, <2>6
<1>11. IsInjective(ids)
  <2>1. SUFFICES ASSUME NEW x \in 1 .. 3 * l + 1, NEW y \in 1 .. 3 * l + 1, acts[x].id = acts[y].id
                 PROVE  x = y
    BY <1>4 DEF IsInjective, Column
  <2>2. CASE x = 3 * l + 1 /\ y = 3 * l + 1
    BY <2>2
  <2>3. CASE x # 3 * l + 1 /\ y # 3 * l + 1
    <3>1. PICK i \in 1 .. l, k \in 1 .. 3 : x = 3 * (i - 1) + k
      BY <1>7, <2>3
    <3>2. PICK j \in 1 .. l, h \in 1 .. 3 : y = 3 * (j - 1) + h
      BY <1>7, <2>3
    <3>3. chains[i][k].id = chains[j][h].id
      BY <1>4, <2>1, <3>1, <3>2
    <3>4. i = j /\ k = h
      BY <1>8, <3>3
    <3> QED
      BY <3>1, <3>2, <3>4
  <2>4. CASE x # 3 * l + 1 /\ y = 3 * l + 1
    <3>1. PICK i \in 1 .. l, k \in 1 .. 3 : x = 3 * (i - 1) + k
      BY <1>7, <2>4
    <3> QED
      BY <1>4, <1>9, <2>1, <2>4, <3>1
  <2>5. CASE x = 3 * l + 1 /\ y # 3 * l + 1
    <3>1. PICK i \in 1 .. l, k \in 1 .. 3 : y = 3 * (i - 1) + k
      BY <1>7, <2>5
    <3> QED
      BY <1>4, <1>9, <2>1, <2>5, <3>1
  <2> QED
    BY <2>2, <2>3, <2>4, <2>5
<1>12. \A x \in DOMAIN acts : \A d \in Range(acts[x].deps) : \E y \in 1 .. x - 1 : ids[y] = d
  <2>1. SUFFICES ASSUME NEW x \in 1 .. 3 * l + 1, NEW d \in Range(acts[x].deps)
                 PROVE  \E y \in 1 .. x - 1 : y \in DOMAIN acts /\ acts[y].id = d
    BY <1>4 DEF Column
  <2>2. CASE x = 3 * l + 1
    <3>1. PICK i \in 1 .. l : d = chains[i][3].id
      <4>1. d \in Range(extracts)
        BY <1>4, <1>6, <2>2
      <4> QED
        BY <4>1 DEF Range, extracts
    <3> DEFINE y == 3 * (i - 1) + 3
    <3>2. y \in 1 .. x - 1 /\ y \in DOMAIN acts
      BY <1>3, <1>4, <2>2
    <3>3. acts[y] = chains[i][3]
      BY <1>4
    <3> QED
      BY <3>1, <3>2, <3>3
  <2>3. CASE x # 3 * l + 1
    <3>1. PICK i \in 1 .. l, k \in 1 .. 3 : x = 3 * (i - 1) + k
      BY <1>7, <2>3
    <3>2. acts[x] = chains[i][k] /\ (k = 1 \/ k = 2 \/ k = 3)
      <4>1. acts[3 * (i - 1) + k] = chains[i][k]
        BY <1>4, Zenon
      <4> QED
        BY <3>1, <4>1
    <3>3. CASE k = 1
      <4>1. Range(<<>>) = {}
        BY NothingApart
      <4> QED
        BY <1>6, <2>1, <3>2, <3>3, <4>1
    <3>4. CASE k = 2
      <4> DEFINE y == 3 * (i - 1) + 1
      <4>1. d = chains[i][1].id
        BY <1>6, <2>1, <3>2, <3>4 DEF Range
      <4>2. y \in 1 .. x - 1 /\ y \in DOMAIN acts
        BY <1>3, <1>4, <3>1, <3>4
      <4>3. acts[y] = chains[i][1]
        BY <1>4
      <4> QED
        BY <4>1, <4>2, <4>3
    <3>5. CASE k = 3
      <4> DEFINE y == 3 * (i - 1) + 2
      <4>1. d = chains[i][2].id
        BY <1>6, <2>1, <3>2, <3>5 DEF Range
      <4>2. y \in 1 .. x - 1 /\ y \in DOMAIN acts
        BY <1>3, <1>4, <3>1, <3>5
      <4>3. acts[y] = chains[i][2]
        BY <1>4
      <4> QED
        BY <4>1, <4>2, <4>3
    <3> QED
      BY <3>2, <3>3, <3>4, <3>5
  <2> QED
    BY <2>2, <2>3
<1>13. \A x, y \in {x \in DOMAIN acts : acts[x].point # None} :
            loose[x].index = loose[y].index => acts[x].point = acts[y].point
  <2>1. ASSUME NEW x \in DOMAIN acts, acts[x].point # None
        PROVE  \E i \in 1 .. l : acts[x].point = ps[i].values /\ loose[x].index = ps[i].index
    <3>1. x \in 1 .. 3 * l + 1 /\ x # 3 * l + 1
      BY <1>4, <1>6, <2>1
    <3>2. PICK i \in 1 .. l, k \in 1 .. 3 : x = 3 * (i - 1) + k
      BY <1>7, <3>1
    <3>3. acts[x] = chains[i][k] /\ loose[x] = Rest(i)[k]
      BY <1>4, <3>2
    <3> QED
      BY <1>6, <1>c, <3>3
  <2>2. ASSUME NEW i \in 1 .. l, NEW j \in 1 .. l, ps[i].index = ps[j].index
        PROVE  ps[i].values = ps[j].values
    <3>1. ps[i].index = i - 1 /\ ps[j].index = j - 1
      BY <1>3
    <3>2. i = j
      <4>1. i - 1 = j - 1
        BY <2>2, <3>1, Zenon
      <4>2. i \in Int /\ j \in Int
        BY <1>3
      <4> QED
        BY <4>1, <4>2
    <3> QED
      BY <3>2
  <2> QED
    BY <2>1, <2>2
<1>14. acts # <<>>
  <2>1. 1 \in DOMAIN acts
    BY <1>3, <1>4
  <2> QED
    BY <2>1
<1> QED
  BY <1>4, <1>10, <1>11, <1>12, <1>13, <1>14, Zenon DEF PlanDecodes, acts, loose

(* An entry is as an activity of its id says: whole if that decodes, and    *)
(* what a simulation's id covers is its payload.                           *)
LEMMA EntryIs ==
    ASSUME ReplayInv, NEW id \in DOMAIN cache
    PROVE  \E a, l : /\ IsActivity(a) /\ a.id = id /\ cache[id].whole = ActivityDecodes(a, l)
                     /\ a.kind = "simulate" => a.payload = a.identity.config
                     /\ \A d \in Range(a.deps) : Verified(d)
<1>1. PICK r \in Runs : /\ Under(r)
                       /\ \E a \in Range(saved[r].activities) :
                            /\ a.id = id /\ \E l : cache[id].whole = ActivityDecodes(a, l)
                            /\ \A d \in Range(a.deps) : Verified(d)
  BY DEF ReplayInv, Entered
<1>2. PICK x, l :
            /\ x \in DOMAIN saved[r].activities /\ saved[r].activities[x].id = id
            /\ cache[id].whole = ActivityDecodes(saved[r].activities[x], l)
            /\ \A d \in Range(saved[r].activities[x].deps) : Verified(d)
  BY <1>1 DEF Range
<1>3. PICK m, digests, by, plan :
            Planned(m) /\ plan = Compile(Loaded(m), digests, by) /\ saved[r].activities = plan.activities
  <2>1. PlanKept(r)
    BY <1>1 DEF ReplayInv, RunInv
  <2>2. PICK m, digests, by, plan : /\ Planned(m) /\ plan = Compile(Loaded(m), digests, by)
                                    /\ Stands(saved[r], plan)
    BY <2>1, Zenon DEF PlanKept
  <2>3. saved[r].activities = plan.activities
    BY <2>2 DEF Stands
  <2> QED
    BY <2>2, <2>3
<1>4. PICK n, ps, inputs : n = Loaded(m) /\ ps = Points(n) /\ inputs = Inputs(n, digests)
  OBVIOUS
<1>5. PICK chains, aggregate : PlanIs(plan, n, inputs, by, ps, chains, aggregate)
  BY <1>3, <1>4, CompileIs
<1>6. DOMAIN ps = 1 .. Len(ps)
  BY <1>3, <1>4, PointsAre
<1>7. PICK a : a = plan.activities[x]
  OBVIOUS
<1>8. Member(a, n, inputs, by, ps)
  BY <1>2, <1>3, <1>4, <1>5, <1>6, <1>7, Members
<1>9. IsActivity(a) /\ (a.kind = "simulate" => a.payload = a.identity.config)
  <2>1. IsActivity(a)
    BY <1>8 DEF Member, IsRender, IsSimulate, IsExtract, IsAggregate
  <2>2. ASSUME a.kind = "simulate" PROVE a.payload = a.identity.config
    <3>1. PICK p, d : IsSimulate(a, n, p, d, by)
      BY <1>8, <2>2 DEF Member, IsRender, IsExtract, IsAggregate
    <3> QED
      BY <3>1 DEF IsSimulate
  <2> QED
    BY <2>1, <2>2
<1> QED
  BY <1>2, <1>3, <1>7, <1>9

\* inputs read to logical paths that are all safe are named safely in the manifest
LEMMA InputsSafe ==
    ASSUME NEW m, Planned(m), NEW n, n = Loaded(m), NEW digests,
           NEW inputs, inputs = Inputs(n, digests), \A x \in Range(inputs) : x.logical \notin Unsafe
    PROVE  Range(m.inputs) \cap Unsafe = {}
<1>1. /\ m.inputs \in Seq(STRING)
      /\ Len(inputs) = Len(m.inputs) + 1 /\ DOMAIN inputs = 1 .. Len(m.inputs) + 1
      /\ inputs[1] = [logical |-> Template, sha |-> digests[n.deck]]
      /\ \A i \in 1 .. Len(m.inputs) :
          inputs[i + 1] = [logical |-> m.inputs[i], sha |-> digests[m.inputs[i]]]
  <2>1. DeckAndCopies(inputs, n, m, digests)
    BY InputsAre, Zenon
  <2> QED
    BY <2>1 DEF DeckAndCopies
<1> DEFINE q == m.inputs
<1>2. /\ q \in Seq(STRING) /\ DOMAIN inputs = 1 .. Len(q) + 1
      /\ \A i \in 1 .. Len(q) :
          inputs[i + 1] = [logical |-> q[i], sha |-> digests[q[i]]]
  BY <1>1
<1> HIDE DEF q
<1>3. ASSUME NEW i \in 1 .. Len(q) PROVE q[i] \notin Unsafe
  <2>1. inputs[i + 1] = [logical |-> q[i], sha |-> digests[q[i]]]
    BY <1>2, Zenon
  <2>2. inputs[i + 1].logical = q[i]
    BY <2>1
  <2>3. i + 1 \in DOMAIN inputs
    BY <1>2
  <2> QED
    BY <2>2, <2>3 DEF Range
<1> QED
  BY <1>2, <1>3 DEF Range, q

(* A run that has succeeded was planned from a manifest that can be        *)
(* decoded: what aggregates used an entry for the simulation that is good. *)
LEMMA SucceededIsPlain ==
    ASSUME ReplayInv, NEW r \in Runs, at[r] = "succeeded"
    PROVE  ~Ambiguous(source[r].manifest)
<1>1. PlanKept(r) /\ counted[r] \subseteq DOMAIN cache /\ Ids(saved[r]) \subseteq counted[r]
  BY DEF ReplayInv, RunInv, Under
<1>2. PICK m, digests, by, plan :
            /\ Planned(m) /\ source[r].manifest = m
            /\ plan = Compile(Loaded(m), digests, by) /\ saved[r].activities = plan.activities
  BY <1>1 DEF PlanKept, Stands
<1>3. PICK n, ps, inputs : n = Loaded(m) /\ ps = Points(n) /\ inputs = Inputs(n, digests)
  OBVIOUS
<1>4. PICK chains, aggregate : PlanIs(plan, n, inputs, by, ps, chains, aggregate)
  BY <1>2, <1>3, CompileIs
<1>5. PICK a, b, c, p : a = chains[1][1] /\ b = chains[1][2] /\ c = chains[1][3] /\ p = ps[1]
  OBVIOUS
<1>6. IsRender(a, n, p, inputs) /\ IsSimulate(b, n, p, a.id, by) /\ IsExtract(c, n, p, b.id)
  <2>1. 1 \in 1 .. Len(ps)
    BY <1>4 DEF PlanIs
  <2>2. IsChain(chains[1], n, ps[1], inputs, by)
    BY <1>4, <2>1, Zenon DEF PlanIs
  <2> QED
    BY <1>5, <2>2 DEF IsChain
<1>7. c.id \in DOMAIN cache
  <2>1. 3 \in DOMAIN plan.activities /\ plan.activities[3] = c
    <3> DEFINE l == Len(ps)
               acts == plan.activities
    <3>1. l \in Nat \ {0} /\ DOMAIN acts = 1 .. 3 * l + 1
          /\ \A i \in 1 .. l, k \in 1 .. 3 : acts[3 * (i-1) + k] = chains[i][k]
      BY <1>4, Zenon DEF PlanIs
    <3> HIDE DEF l, acts
    <3>2. 1 \in 1 .. l /\ 3 \in 1 .. 3 /\ 3 * (1-1) + 3 = 3 /\ 3 \in DOMAIN acts
      BY <3>1
    <3>3. acts[3 * (1-1) + 3] = chains[1][3]
      BY <3>1, <3>2, Zenon
    <3> QED
      BY <1>5, <3>2, <3>3 DEF acts
  <2>2. c.id \in Ids(plan)
    BY <2>1 DEF Ids, Column, Range
  <2> QED
    BY <1>1, <1>2, <2>2 DEF Ids
<1>8. Verified(b.id)
  <2>1. PICK e : /\ IsActivity(e) /\ e.id = c.id /\ \A d \in Range(e.deps) : Verified(d)
    BY <1>7, EntryIs
  <2>2. IsActivity(c) /\ c.deps = <<b.id>>
    BY <1>6, Zenon DEF IsExtract
  <2>3. e.deps = <<b.id>>
    BY <2>1, <2>2, IdTells
  <2>4. b.id \in Range(<<b.id>>)
    BY DEF Range
  <2> QED
    BY <2>1, <2>3, <2>4
<1>9. FoldDistinct(Column(n.measures, "field")) /\ Verified(a.id)
  <2>1. PICK e, l : /\ IsActivity(e) /\ e.id = b.id /\ cache[b.id].whole = ActivityDecodes(e, l)
                    /\ e.kind = "simulate" => e.payload = e.identity.config
                    /\ \A d \in Range(e.deps) : Verified(d)
    BY <1>8, EntryIs DEF Verified
  <2>2. ActivityDecodes(e, l)
    BY <1>8, <2>1 DEF Verified
  <2>3. IsActivity(b) /\ b.deps = <<a.id>> /\ b.kind = "simulate" /\ b.payload.fields = Column(n.measures, "field")
        /\ b.identity.config = b.payload
    BY <1>6 DEF IsSimulate
  <2>4. e.kind = "simulate" /\ e.deps = <<a.id>> /\ e.identity = b.identity
    BY <2>1, <2>3, IdTells
  <2>5. Contract(e, l)
    BY <2>2, Zenon DEF ActivityDecodes
  <2>6. FoldDistinct(e.payload.fields)
    BY <2>4, <2>5 DEF Contract, SimulateContract
  <2>7. a.id \in Range(<<a.id>>)
    BY DEF Range
  <2> QED
    BY <2>1, <2>3, <2>4, <2>6, <2>7
<1>10. FoldDistinct(Column(inputs, "logical")) /\ \A x \in Range(inputs) : x.logical \notin Unsafe
  <2>1. PICK e, l : IsActivity(e) /\ e.id = a.id /\ cache[a.id].whole = ActivityDecodes(e, l)
    BY <1>9, EntryIs DEF Verified
  <2>2. ActivityDecodes(e, l)
    BY <1>9, <2>1 DEF Verified
  <2>3. FoldDistinct(Column(e.inputs, "logical")) /\ \A x \in Range(e.inputs) : x.logical \notin Unsafe
    BY <2>2, Zenon DEF ActivityDecodes
  <2>4. IsActivity(a) /\ a.inputs = inputs
    BY <1>6, Zenon DEF IsRender
  <2>5. e.inputs = inputs
    BY <2>1, <2>4, IdTells
  <2> QED
    BY <2>3, <2>5
<1>11. FoldDistinct(Append(m.inputs, Template))
  BY <1>2, <1>3, <1>10, LogicalsApart
<1>12. Range(m.inputs) \cap Unsafe = {}
  BY <1>2, <1>3, <1>10, InputsSafe
<1> QED
  BY <1>2, <1>3, <1>9, <1>11, <1>12 DEF Ambiguous

(* A saved plan that nobody touched is refused only for a manifest that     *)
(* cannot be decoded, and no run of such a manifest succeeds: whatever can *)
(* succeed can be resumed.                                                 *)
THEOREM PlansAreReplayed == PlanSpec => []PlansReplay
<1>1. ReplayInv => PlansReplay
  <2>1. SUFFICES ASSUME ReplayInv, NEW r \in Runs
                 PROVE  /\ at[r] = "refused" => Ambiguous(source[r].manifest)
                        /\ at[r] = "succeeded" => ~Ambiguous(source[r].manifest)
    BY DEF PlansReplay
  <2>2. ASSUME at[r] = "refused" PROVE Ambiguous(source[r].manifest)
    <3>1. PlanKept(r) /\ ~PlanDecodes(saved[r])
      BY <2>1, <2>2 DEF ReplayInv, RunInv, Under
    <3>2. PICK m, digests, by :
                /\ Planned(m) /\ source[r].manifest = m
                /\ saved[r] = Compile(Loaded(m), digests, by)
      BY <3>1 DEF PlanKept
    <3>3. PICK n, plan : n = Loaded(m) /\ plan = saved[r]
      OBVIOUS
    <3>4. ~Plain(m)
      BY <3>1, <3>2, <3>3, PlainPlanDecodes
    <3> QED
      BY <3>2, <3>4 DEF Plain
  <2> QED
    BY <2>1, <2>2, SucceededIsPlain
<1> QED
  BY <1>1, ReplayInvariance, PTL

-----------------------------------------------------------------------------
(* What entries hold                                                       *)
-----------------------------------------------------------------------------
\* the parameters of a point as a deck has them, their names casefolded
Substituted(point) ==
    [p \in {Fold(name) : name \in DOMAIN point} |->
        point[CHOOSE name \in DOMAIN point : Fold(name) = p]]

\* what a render computes from the files it was planned with
Rendered(a) == [params |-> Substituted(a.payload.point),
                files  |-> [i \in DOMAIN a.inputs |-> a.inputs[i].sha]]

\* the metrics of a simulated deck
MetricsOf(measures, content) ==
    [name \in Range(Column(measures, "name")) |->
        LET x == CHOOSE x \in Range(measures) : x.name = name
        IN  [source |-> x.source, field |-> x.field, of |-> content]]

\* what an extract computes, but for its rank
Extracted(a, k) == [index |-> k, point |-> a.payload.point,
                    metrics |-> MetricsOf(a.payload.measures, Content(a))]

\* content is what the id of a says: nothing is known of what came late, and
\* the rank of an extract is one that some plan has given it
Holds(a, content) ==
    /\ a.kind = "render" => a.id \in late \/ content = Rendered(a)
    /\ a.kind = "simulate" => a.id \in late \/ content = [deck |-> Content(a), by |-> a.identity.adapter]
    /\ a.kind = "extract" => \E k \in Nat : content = Extracted(a, k) /\ <<a.id, k>> \in ranks
    /\ a.kind = "aggregate" => content = [rows |-> AggregateRows(a)]

\* a simulation ran with the tool of its id, or with another: then it is late,
\* or an Xyce that will be compared once more and is not that of the id
Ran(r) ==
    LET a == AtHand(r)
    IN  a.id \in late
        \/ \E v : /\ box[r] = [deck |-> Content(a), by |-> v]
                  /\ \/ v = a.identity.adapter
                     \/ a.payload.adapter = "xyce" /\ a.identity.adapter # Identity("xyce", installed)

\* what is compared still agrees, what is computed is what the id says, or late
Doing(r) ==
    LET a == AtHand(r)
        l == Beside(r)
    IN  /\ at[r] \in {"compared", "computed"} => a.kind \in {"render", "simulate"}
        /\ at[r] = "compared" /\ a.kind = "render"
             => a.id \in late \/ \A i \in DOMAIN a.inputs : contents[l.paths[i]] = a.inputs[i].sha
        /\ at[r] = "computed" /\ a.kind = "render" => a.id \in late \/ box[r] = Rendered(a)
        /\ at[r] = "computed" /\ a.kind = "simulate" => Ran(r)

\* an entry holds what an activity of its id says, of entries that are good
Held(id) ==
    \E r \in Runs : /\ Under(r)
                    /\ \E a \in Range(saved[r].activities) :
                        /\ a.id = id /\ \A d \in Range(a.deps) : Verified(d)
                        /\ Holds(a, cache[id].content)

ContentInv ==
    /\ DOMAIN box = Runs
    /\ \A r \in Runs : Under(r) => Ranked(saved[r]) \subseteq ranks
    /\ \A r \in Runs : Doing(r)
    /\ \A id \in DOMAIN cache : Held(id)

(* What lasts: entries that verify, and the work of the runs.              *)
Lasts ==
    /\ \A id : Verified(id) => Verified(id)' /\ cache'[id] = cache[id]
    /\ \A q \in Runs : Under(q) => /\ Under(q)' /\ source'[q] = source[q]
                                   /\ saved'[q].activities = saved[q].activities
    /\ late \subseteq late' /\ ranks \subseteq ranks'

LEMMA EnterLasts ==
    ASSUME NEW r \in Runs, NEW a, NEW l, NEW content, Enter(r, a, l, content)
    PROVE  \A id : Verified(id) => Verified(id)' /\ cache'[id] = cache[id]
<1> DEFINE entry == [whole |-> ActivityDecodes(a, l), content |-> content]
<1>1. cache' = IF Verified(a.id) THEN cache
               ELSE [id \in DOMAIN cache \cup {a.id} |-> IF id = a.id THEN entry ELSE cache[id]]
  BY DEF Enter
<1> HIDE DEF entry
<1>2. CASE Verified(a.id)
  BY <1>1, <1>2 DEF Verified
<1>3. CASE ~Verified(a.id)
  BY <1>1, <1>3 DEF Verified
<1> QED
  BY <1>2, <1>3

\* a resumption goes on with the work that was kept
LEMMA ReloadLasts ==
    ASSUME ReplayInv, ReplayInv', NEW r \in Runs, Reload(r), NEW q \in Runs, Under(q)
    PROVE  Under(q)' /\ saved'[q].activities = saved[q].activities
<1>1. /\ at[r] \in {"idle", "compared", "computed", "succeeded", "failed"} /\ source' = source
      /\ \E plan : \/ Start(r, plan)
                   \/ /\ \E l \in {"refused", "damaged"} : at' = [at EXCEPT ![r] = l]
                      /\ saved' = saved
  BY DEF Reload
<1>2. Under(q)'
  BY <1>1 DEF Start, Under, ReplayInv, Shapes
<1>3. PlanKept(q) /\ PlanKept(q)'
  BY <1>2 DEF ReplayInv, RunInv
<1>4. PICK m, digests, by, base :
          /\ source[q] = [manifest |-> m, digests |-> digests, by |-> by]
          /\ base = Compile(Loaded(m), digests, by) /\ Stands(saved[q], base)
  BY <1>3 DEF PlanKept
<1>5. PICK m2, digests2, by2, base2 :
          /\ source'[q] = [manifest |-> m2, digests |-> digests2, by |-> by2]
          /\ base2 = Compile(Loaded(m2), digests2, by2) /\ Stands(saved'[q], base2)
  BY <1>3 DEF PlanKept
<1>6. m = m2 /\ digests = digests2 /\ by = by2
  BY <1>1, <1>4, <1>5
<1>7. base = base2
  BY <1>4, <1>5, <1>6, Zenon
<1> QED
  BY <1>2, <1>4, <1>5, <1>7 DEF Stands

(* No step undoes what lasts.                                              *)
LEMMA StepLasts ==
    ASSUME ReplayInv, ReplayInv', [PlanNext]_planVars
    PROVE  Lasts
<1>1. CASE \E r \in Runs : Reload(r)
  <2>1. PICK r \in Runs : Reload(r)
    BY <1>1
  <2>2. cache' = cache /\ source' = source /\ late' = late /\ ranks \subseteq ranks'
    BY <2>1 DEF Reload, Start
  <2>3. \A q \in Runs : Under(q) => Under(q)' /\ saved'[q].activities = saved[q].activities
    BY <2>1, ReloadLasts
  <2> QED
    BY <2>2, <2>3 DEF Lasts, Verified
<1>2. CASE \E r \in Runs : Publish(r) \/ Derive(r)
  <2>1. PICK r \in Runs : Publish(r) \/ Derive(r)
    BY <1>2
  <2>2. PICK a, l, content : Enter(r, a, l, content)
    BY <2>1 DEF Publish, Derive
  <2>3. \A id : Verified(id) => Verified(id)' /\ cache'[id] = cache[id]
    BY <2>2, EnterLasts
  <2>4. at' = [at EXCEPT ![r] = "idle"] /\ UNCHANGED <<source, saved, late, ranks>>
    BY <2>2 DEF Enter
  <2>5. \A q \in Runs : Under(q) => Under(q)'
    BY <2>4 DEF Under, ReplayInv, Shapes
  <2> QED
    BY <2>3, <2>4, <2>5 DEF Lasts
<1>3. CASE \E r \in Runs : \E m \in Manifests[r] : Submit(r, m)
  <2>0. PICK r \in Runs : \E m \in Manifests[r] : Submit(r, m)
    BY <1>3
  <2>1. PICK m \in Manifests[r] : Submit(r, m)
    BY <2>0
  <2>2. cache' = cache /\ late' = late /\ ~Under(r) /\ ranks \subseteq ranks'
    BY <2>1 DEF Submit, Start, Under
  <2>3. /\ \E s : source' = [source EXCEPT ![r] = s] \/ source' = source
        /\ \E s : saved' = [saved EXCEPT ![r] = s] \/ saved' = saved
        /\ \E l : at' = [at EXCEPT ![r] = l]
    BY <2>1, Zenon DEF Submit, Start
  <2>4. \A q \in Runs : q # r => source'[q] = source[q] /\ saved'[q] = saved[q] /\ at'[q] = at[q]
    BY <2>3 DEF ReplayInv, Shapes
  <2> QED
    BY <2>2, <2>4 DEF Lasts, Verified, Under
<1>4. CASE \E r \in Runs : \/ Skip(r) \/ Compare(r) \/ Disagree(r) \/ Work(r) \/ WorkFails(r)
                           \/ PublishFails(r) \/ DeriveFails(r) \/ Close(r)
  <2>1. PICK r \in Runs : \/ Skip(r) \/ Compare(r) \/ Disagree(r) \/ Work(r) \/ WorkFails(r)
                          \/ PublishFails(r) \/ DeriveFails(r) \/ Close(r)
    BY <1>4
  <2>2. UNCHANGED <<cache, source, saved, ranks>> /\ late \subseteq late'
        /\ \E l \in RunLabels \ {"new", "rejected"} : at' = [at EXCEPT ![r] = l]
    BY <2>1 DEF Skip, Compare, Disagree, Work, WorkFails, PublishFails, DeriveFails, Close, Fails,
                MustFail, MayFail, RunLabels
  <2>3. \A q \in Runs : Under(q) => Under(q)'
    BY <2>2 DEF Under, ReplayInv, Shapes
  <2> QED
    BY <2>2, <2>3 DEF Lasts, Verified
<1>5. CASE (\E f \in Files : Edit(f)) \/ Replace \/ PutBack \/ UNCHANGED planVars
  <2>1. UNCHANGED <<cache, source, saved, at, ranks>> /\ late \subseteq late'
    BY <1>5 DEF Edit, Replace, PutBack, Installed, planVars
  <2> QED
    BY <2>1 DEF Lasts, Verified, Under
<1> QED
  BY <1>1, <1>2, <1>3, <1>4, <1>5 DEF PlanNext, Step

\* the rows of what extracts have found
Precedes(found, i, j) ==
    found[i].index < found[j].index \/ (found[i].index = found[j].index /\ i < j)
RankOf(found) ==
    [i \in DOMAIN found |-> 1 + Cardinality({j \in DOMAIN found : Precedes(found, j, i)})]
RowsOf(found) ==
    LET rank == RankOf(found)
    IN  [k \in DOMAIN found |->
            LET i == CHOOSE i \in DOMAIN found : rank[i] = k IN Row(found[i].point, found[i].metrics)]

FoundBy(deps) == [i \in DOMAIN deps |-> cache[deps[i]].content]

LEMMA RowsAre ==
    ASSUME NEW a, NEW deps, deps = a.deps
    PROVE  AggregateRows(a) = RowsOf(FoundBy(deps))
<1>1. AggregateRows(a) = RowsOf(FoundBy(a.deps))
  BY DEF AggregateRows, RowsOf, RankOf, Precedes, FoundBy
<1> QED
  BY <1>1

LEMMA ExtractComputes ==
    ASSUME NEW a, NEW l
    PROVE  Extract(a, l) = Extracted(a, l.rank)
BY DEF Extract, Extracted, MetricsOf

\* what is used of an activity of a plan
Shaped(a, by) ==
    /\ IsActivity(a)
    /\ a.kind \in {"render", "simulate", "extract", "aggregate"}
    /\ a.kind \in {"simulate", "extract"} => \E d : a.deps = <<d>>
    /\ a.kind = "simulate" => /\ a.identity.adapter = Identity(a.payload.adapter, by)
                              /\ a.payload.adapter \in {"mock-rc", "ngspice", "xyce"}

\* an activity of the plan that was compiled for a run
Belongs(a, q) ==
    \E m, digests, by :
        /\ Planned(m) /\ source[q] = [manifest |-> m, digests |-> digests, by |-> by]
        /\ Member(a, Loaded(m), Inputs(Loaded(m), digests), by, Points(Loaded(m)))

(* Whatever is in a plan that was kept belongs to it.                      *)
LEMMA PlansBelong ==
    ASSUME NEW q \in Runs, PlanKept(q), NEW a \in Range(saved[q].activities)
    PROVE  Belongs(a, q)
<1>1. PICK m, digests, by :
          /\ Planned(m) /\ source[q] = [manifest |-> m, digests |-> digests, by |-> by]
          /\ Stands(saved[q], Compile(Loaded(m), digests, by))
  BY DEF PlanKept
<1>2. PICK n, ps, plan, inputs :
          /\ n = Loaded(m) /\ ps = Points(n) /\ inputs = Inputs(n, digests)
          /\ plan = Compile(n, digests, by) /\ saved[q].activities = plan.activities
  BY <1>1 DEF Stands
<1>3. PICK chains, aggregate : PlanIs(plan, n, inputs, by, ps, chains, aggregate)
  BY <1>1, <1>2, CompileIs
<1>4. DOMAIN ps = 1 .. Len(ps)
  BY <1>1, <1>2, PointsAre
<1>5. PICK x \in DOMAIN plan.activities : a = plan.activities[x]
  BY <1>2 DEF Range
<1>6. Member(a, n, inputs, by, ps)
  BY <1>3, <1>4, <1>5, Members
<1> QED
  BY <1>1, <1>2, <1>6, Zenon DEF Belongs

LEMMA PlansShape ==
    ASSUME NEW q \in Runs, PlanKept(q), NEW a \in Range(saved[q].activities)
    PROVE  Shaped(a, source[q].by)
<1>1. PICK m, digests, by :
          /\ Planned(m) /\ source[q] = [manifest |-> m, digests |-> digests, by |-> by]
          /\ Member(a, Loaded(m), Inputs(Loaded(m), digests), by, Points(Loaded(m)))
  BY PlansBelong DEF Belongs
<1>2. source[q].by = by
  BY <1>1
<1>3. PICK n, ps, inputs : n = Loaded(m) /\ ps = Points(n) /\ inputs = Inputs(n, digests)
  OBVIOUS
<1>4. n.adapter \in {"mock-rc", "ngspice", "xyce"}
  <2>1. LoadedFrom(n, m)
    BY <1>1, <1>3, LoadedIs DEF Planned
  <2> QED
    BY <1>1, <2>1 DEF Planned, Accepted, SimulatorAccepted, LoadedFrom
<1>5. Member(a, n, inputs, by, ps)
  BY <1>1, <1>3
<1>6. CASE \E p : IsRender(a, n, p, inputs)
  <2>1. IsActivity(a) /\ a.kind = "render"
    BY <1>6 DEF IsRender
  <2> QED
    BY <2>1 DEF Shaped
<1>7. CASE \E p, d : IsSimulate(a, n, p, d, by)
  <2>1. PICK p, d : IsSimulate(a, n, p, d, by)
    BY <1>7
  <2>2. /\ IsActivity(a) /\ a.kind = "simulate" /\ a.deps = <<d>>
        /\ a.payload.adapter = n.adapter /\ a.identity.adapter = Identity(n.adapter, by)
    BY <2>1 DEF IsSimulate
  <2> QED
    BY <1>2, <1>4, <2>2 DEF Shaped
<1>8. CASE \E p, d : IsExtract(a, n, p, d)
  <2>1. IsActivity(a) /\ a.kind = "extract" /\ \E d : a.deps = <<d>>
    BY <1>8 DEF IsExtract
  <2> QED
    BY <2>1 DEF Shaped
<1>9. CASE \E d : IsAggregate(a, n, d)
  <2>1. IsActivity(a) /\ a.kind = "aggregate"
    BY <1>9 DEF IsAggregate
  <2> QED
    BY <2>1 DEF Shaped
<1> QED
  BY <1>5, <1>6, <1>7, <1>8, <1>9, Zenon DEF Member

(* What an id says stays so, since it says it of entries that are good.    *)
LEMMA HoldsLasts ==
    ASSUME Lasts, NEW a, NEW by, Shaped(a, by), \A d \in Range(a.deps) : Verified(d),
           NEW content, Holds(a, content)
    PROVE  Holds(a, content)'
<1>1. \A i \in DOMAIN a.deps : cache'[a.deps[i]] = cache[a.deps[i]]
  BY DEF Lasts, Range
<1>2. a.kind \in {"simulate", "extract"} => Content(a)' = Content(a)
  <2>1. SUFFICES ASSUME a.kind \in {"simulate", "extract"} PROVE Content(a)' = Content(a)
    OBVIOUS
  <2>2. 1 \in DOMAIN a.deps
    BY <2>1 DEF Shaped
  <2> QED
    BY <1>1, <2>2 DEF Content
<1>3. ASSUME a.kind = "extract", NEW k PROVE Extracted(a, k)' = Extracted(a, k)
  <2>1. Extracted(a, k)' = [index |-> k, point |-> a.payload.point,
                            metrics |-> MetricsOf(a.payload.measures, Content(a)')]
    BY DEF Extracted, MetricsOf
  <2> QED
    BY <1>2, <1>3, <2>1 DEF Extracted
<1>4. AggregateRows(a)' = AggregateRows(a)
  <2>1. AggregateRows(a)' = RowsOf(FoundBy(a.deps)')
    BY DEF AggregateRows, RowsOf, RankOf, Precedes, FoundBy
  <2>2. FoundBy(a.deps)' = FoundBy(a.deps)
    BY <1>1 DEF FoundBy
  <2> QED
    BY <2>1, <2>2, RowsAre
<1>5. Rendered(a)' = Rendered(a)
  BY DEF Rendered, Substituted
<1> QED
  BY <1>2, <1>3, <1>4, <1>5 DEF Holds, Lasts

(* A run that does not move does not lose what it compared or computed.    *)
LEMMA DoingStays ==
    ASSUME Lasts, NEW q \in Runs, RunInv(q), Doing(q), saved'[q] = saved[q],
           at'[q] = at[q], counted'[q] = counted[q], lost'[q] = lost[q], box'[q] = box[q],
           installed' = installed \/ \E version : Installed(version),
           at[q] = "compared" =>
               \/ AtHand(q).id \in late'
               \/ \A i \in DOMAIN AtHand(q).inputs :
                    contents'[Beside(q).paths[i]] = contents[Beside(q).paths[i]]
    PROVE  Doing(q)'
<1>1. SUFFICES ASSUME at[q] \in {"compared", "computed"} PROVE Doing(q)'
  BY DEF Doing
<1>2. PlanKept(q) /\ AtWork(q) /\ source'[q] = source[q]
  BY <1>1 DEF RunInv, Lasts, Under
<1>3. AtHand(q)' = AtHand(q) /\ Beside(q)' = Beside(q)
  <2>1. Pending(q)' = Pending(q)
    BY DEF Pending
  <2>2. Turn(q)' = Turn(q)
    BY <2>1 DEF Turn
  <2> QED
    BY <2>2 DEF AtHand, Beside
<1>4. PICK a, l, b, by : a = AtHand(q) /\ l = Beside(q) /\ b = box[q] /\ by = source[q].by
  OBVIOUS
<1>5. a \in Range(saved[q].activities) /\ \A d \in Range(a.deps) : Verified(d)
  BY <1>2, <1>4, AtHandIs DEF AtWork
<1>6. Shaped(a, by)
  BY <1>2, <1>4, <1>5, PlansShape
<1>7. \A d \in Range(a.deps) : cache'[d] = cache[d]
  BY <1>5 DEF Lasts
<1>9. ASSUME at[q] = "computed", a.kind = "simulate", Ran(q) PROVE Ran(q)'
  <2>1. PICK d : a.deps = <<d>>
    BY <1>6, <1>9 DEF Shaped
  <2>2. Content(a)' = Content(a)
    BY <1>7, <2>1 DEF Content, Range
  <2>3. SUFFICES ASSUME a.id \notin late' PROVE Ran(q)'
    BY <1>3, <1>4 DEF Ran
  <2>4. a.id \notin late
    BY <2>3 DEF Lasts
  <2>5. PICK v : /\ b = [deck |-> Content(a), by |-> v]
                 /\ \/ v = a.identity.adapter
                    \/ a.payload.adapter = "xyce" /\ a.identity.adapter # Identity("xyce", installed)
    BY <1>4, <1>9, <2>4 DEF Ran
  <2>6. v = a.identity.adapter
        \/ (a.payload.adapter = "xyce" /\ a.identity.adapter # Identity("xyce", installed'))
    <3>1. CASE installed' = installed
      BY <2>5, <3>1
    <3>2. CASE \E version : Installed(version)
      <4>1. PICK version : Installed(version)
        BY <3>2
      <4>2. b.by = v
        BY <2>5
      <4>3. SUFFICES ASSUME a.payload.adapter = "xyce", v # a.identity.adapter,
                            a.identity.adapter = Identity("xyce", version)
                     PROVE  a.id \in late'
        BY <2>3, <2>5, <4>1 DEF Installed
      <4>4. q \in Busy("computed")
        BY <1>9 DEF Busy
      <4>5. AtHand(q).id \in late'
        BY <1>4, <1>9, <4>1, <4>2, <4>3, <4>4 DEF Installed
      <4> QED
        BY <1>4, <4>5
    <3> QED
      BY <3>1, <3>2
  <2>7. b = [deck |-> Content(a)', by |-> v]
    BY <2>2, <2>5
  <2>8. \E w : /\ b = [deck |-> Content(a)', by |-> w]
               /\ \/ w = a.identity.adapter
                  \/ a.payload.adapter = "xyce" /\ a.identity.adapter # Identity("xyce", installed')
    BY <2>6, <2>7, Zenon
  <2>9. AtHand(q)' = a /\ box'[q] = b
    BY <1>3, <1>4
  <2>10. Identity("xyce", installed)' = Identity("xyce", installed')
    BY DEF Identity
  <2> QED
    BY <2>8, <2>9, <2>10 DEF Ran, Content
<1>10. at[q] = "compared" /\ a.kind = "render"
         => a.id \in late' \/ \A i \in DOMAIN a.inputs : contents'[l.paths[i]] = a.inputs[i].sha
  BY <1>4 DEF Doing, Lasts
<1>11. at[q] = "computed" /\ a.kind = "render" => a.id \in late' \/ box'[q] = Rendered(a)
  BY <1>4 DEF Doing, Lasts
<1>12. at[q] = "computed" /\ a.kind = "simulate" => Ran(q)'
  BY <1>4, <1>9 DEF Doing
<1>13. a.kind \in {"render", "simulate"} /\ AtHand(q)' = a /\ Beside(q)' = l
  BY <1>1, <1>3, <1>4 DEF Doing
<1> QED
  BY <1>10, <1>11, <1>12, <1>13 DEF Doing

(* An entry that was there still holds what its id says.                   *)
LEMMA HeldStays ==
    ASSUME ReplayInv, Lasts, NEW id, Held(id), cache'[id] = cache[id]
    PROVE  Held(id)'
<1>1. PICK r \in Runs : /\ Under(r)
                       /\ \E a \in Range(saved[r].activities) :
                            /\ a.id = id /\ \A d \in Range(a.deps) : Verified(d)
                            /\ Holds(a, cache[id].content)
  BY DEF Held
<1>2. PICK a \in Range(saved[r].activities) :
            /\ a.id = id /\ \A d \in Range(a.deps) : Verified(d)
            /\ Holds(a, cache[id].content)
  BY <1>1
<1>3. PICK content, by : content = cache[id].content /\ by = source[r].by
  OBVIOUS
<1>4. Shaped(a, by)
  BY <1>1, <1>3, PlansShape DEF ReplayInv, RunInv
<1>5. Holds(a, content)'
  BY <1>2, <1>3, <1>4, HoldsLasts
<1>6. Holds(a, cache[id].content)'
  BY <1>3, <1>5 DEF Holds, Content, Rendered, Substituted, Extracted, MetricsOf, AggregateRows
<1>7. /\ Under(r)' /\ a \in Range(saved'[r].activities)
      /\ \A d \in Range(a.deps) : Verified(d)'
  BY <1>1, <1>2 DEF Lasts
<1> QED
  BY <1>2, <1>6, <1>7 DEF Held

(* What is published under an id is what the id says.                      *)
LEMMA EnteredIsHeld ==
    ASSUME ReplayInv, Lasts, \A id \in DOMAIN cache : Held(id),
           NEW r \in Runs, Under(r), AtWork(r), NEW l, NEW content,
           Enter(r, AtHand(r), l, content),
           Holds(AtHand(r), content)
    PROVE  \A id \in DOMAIN cache' : Held(id)'
<1>1. PICK a, by : a = AtHand(r) /\ by = source[r].by
  OBVIOUS
<1> DEFINE entry == [whole |-> ActivityDecodes(a, l), content |-> content]
<1>2. cache' = IF Verified(a.id) THEN cache
               ELSE [id \in DOMAIN cache \cup {a.id} |-> IF id = a.id THEN entry ELSE cache[id]]
  BY <1>1 DEF Enter
<1>3. entry.content = content
  BY Zenon
<1> HIDE DEF entry
<1>4. a \in Range(saved[r].activities) /\ Shaped(a, by) /\ \A d \in Range(a.deps) : Verified(d)
  <2>1. PlanKept(r)
    BY DEF ReplayInv, RunInv
  <2>2. a \in Range(saved[r].activities)
    BY <1>1, <2>1, AtHandIs DEF AtWork
  <2> QED
    BY <1>1, <2>1, <2>2, PlansShape DEF AtWork
<1>5. SUFFICES ASSUME NEW id \in DOMAIN cache' PROVE Held(id)'
  OBVIOUS
<1>6. CASE id \in DOMAIN cache /\ cache'[id] = cache[id]
  BY <1>6, HeldStays
<1>7. CASE ~(id \in DOMAIN cache /\ cache'[id] = cache[id])
  <2>1. id = a.id /\ cache'[id].content = content
    BY <1>2, <1>3, <1>7
  <2>2. Holds(a, content)'
    BY <1>1, <1>4, HoldsLasts
  <2>3. Holds(a, cache[id].content)'
    BY <2>1, <2>2 DEF Holds, Content, Rendered, Substituted, Extracted, MetricsOf, AggregateRows
  <2>4. Under(r)' /\ a \in Range(saved'[r].activities) /\ \A d \in Range(a.deps) : Verified(d)'
    BY <1>4 DEF Lasts
  <2> QED
    BY <2>1, <2>3, <2>4 DEF Held
<1> QED
  BY <1>6, <1>7

\* a step of one run moves no other, and neither files nor simulators
Moves(r) ==
    /\ contents' = contents /\ installed' = installed /\ DOMAIN box' = Runs
    /\ \A q \in Runs \ {r} : /\ saved'[q] = saved[q] /\ at'[q] = at[q] /\ counted'[q] = counted[q]
                             /\ lost'[q] = lost[q] /\ box'[q] = box[q]

LEMMA StepMoves ==
    ASSUME ReplayInv, ContentInv, NEW r \in Runs, Step(r)
    PROVE  Moves(r)
<1>1. /\ DOMAIN saved = Runs /\ DOMAIN at = Runs /\ DOMAIN counted = Runs /\ DOMAIN lost = Runs /\ DOMAIN box = Runs
  BY DEF ReplayInv, Shapes, ContentInv
<1>2. CASE \/ Skip(r) \/ Disagree(r) \/ WorkFails(r) \/ PublishFails(r) \/ DeriveFails(r)
           \/ Compare(r) \/ Work(r) \/ Close(r)
  BY <1>1, <1>2 DEF Skip, Disagree, WorkFails, PublishFails, DeriveFails, Compare, Work, Close, Fails,
                    MustFail, MayFail, files, Moves
<1>3. CASE Publish(r) \/ Derive(r)
  <2>1. PICK l, content : Enter(r, AtHand(r), l, content)
    BY <1>3 DEF Publish, Derive
  <2> QED
    BY <1>1, <2>1 DEF Enter, files, Moves
<1>4. CASE Reload(r) \/ \E m \in Manifests[r] : Submit(r, m)
  <2>1. /\ contents' = contents /\ installed' = installed
        /\ box' = box \/ box' = [box EXCEPT ![r] = None]
    BY <1>4 DEF Reload, Submit, files
  <2>2. \/ \E plan : Start(r, plan)
        \/ /\ \E l : at' = [at EXCEPT ![r] = l]
           /\ saved' = saved /\ counted' = counted /\ lost' = lost
    BY <1>4, Zenon DEF Reload, Submit
  <2>3. /\ \E l : at' = [at EXCEPT ![r] = l]
        /\ saved' = saved \/ \E s : saved' = [saved EXCEPT ![r] = s]
        /\ counted' = counted \/ \E c : counted' = [counted EXCEPT ![r] = c]
        /\ lost' = lost \/ lost' = [lost EXCEPT ![r] = {}]
    BY <2>2, Zenon DEF Start
  <2> QED
    BY <1>1, <2>1, <2>3 DEF Moves
<1> QED
  BY <1>2, <1>3, <1>4 DEF Step

\* what a run has compared agrees, and what it has computed is what the id says
LEMMA WorkerKeeps ==
    ASSUME ReplayInv, ReplayInv', ContentInv, Lasts, NEW r \in Runs, Step(r), Moves(r)
    PROVE  Doing(r)'
<1>1. DOMAIN at = Runs /\ DOMAIN box = Runs
  BY DEF ReplayInv, Shapes, ContentInv
<1>2. CASE at'[r] \notin {"compared", "computed"}
  BY <1>2 DEF Doing
<1>3. CASE Compare(r)
  <2>1. /\ at'[r] = "compared" /\ AtHand(r).kind \in {"render", "simulate"}
        /\ Agrees(AtHand(r), Beside(r))
        /\ UNCHANGED <<saved, counted, lost, contents, late>>
    BY <1>1, <1>3 DEF Compare, Admitted, files
  <2>2. AtHand(r)' = AtHand(r) /\ Beside(r)' = Beside(r)
    <3>1. Pending(r)' = Pending(r)
      BY <2>1 DEF Pending
    <3>2. Turn(r)' = Turn(r)
      BY <3>1 DEF Turn
    <3> QED
      BY <2>1, <3>2 DEF AtHand, Beside
  <2> QED
    BY <2>1, <2>2 DEF Doing, Agrees
<1>4. CASE Work(r)
  <2>1. /\ at[r] = "compared" /\ at'[r] = "computed" /\ box'[r] = Compute(AtHand(r), Beside(r))
        /\ UNCHANGED <<saved, counted, lost, contents, installed, source, cache>>
        /\ late' = IF /\ AtHand(r).kind = "simulate" /\ AtHand(r).payload.adapter = "ngspice"
                      /\ AtHand(r).identity.adapter # Identity("ngspice", installed)
                   THEN late \cup {AtHand(r).id} ELSE late
    BY <1>1, <1>4 DEF Work, files
  <2>2. AtHand(r)' = AtHand(r) /\ Beside(r)' = Beside(r)
    <3>1. Pending(r)' = Pending(r)
      BY <2>1 DEF Pending
    <3>2. Turn(r)' = Turn(r)
      BY <3>1 DEF Turn
    <3> QED
      BY <2>1, <3>2 DEF AtHand, Beside
  <2>3. PICK a, l, by : a = AtHand(r) /\ l = Beside(r) /\ by = source[r].by
    OBVIOUS
  <2>4. Under(r) /\ PlanKept(r) /\ AtWork(r) /\ Doing(r) /\ a.kind \in {"render", "simulate"}
    BY <2>1, <2>3 DEF ReplayInv, RunInv, ContentInv, Doing, Under
  <2>5. Shaped(a, by)
    BY <2>3, <2>4, AtHandIs, PlansShape DEF AtWork
  <2>6. ASSUME a.kind = "render" PROVE a.id \in late' \/ box'[r] = Rendered(a)
    <3>1. SUFFICES ASSUME a.id \notin late PROVE box'[r] = Rendered(a)
      BY DEF Lasts
    <3>2. \A i \in DOMAIN a.inputs : contents[l.paths[i]] = a.inputs[i].sha
      BY <2>1, <2>3, <2>4, <2>6, <3>1 DEF Doing
    <3>3. Compute(a, l) = Render(a, l)
      BY <2>6 DEF Compute
    <3>4. Render(a, l) = [params |-> Substituted(a.payload.point),
                          files |-> [i \in DOMAIN a.inputs |-> contents[l.paths[i]]]]
      BY DEF Render, Substituted
    <3>5. [i \in DOMAIN a.inputs |-> contents[l.paths[i]]] = [i \in DOMAIN a.inputs |-> a.inputs[i].sha]
      BY <3>2
    <3> QED
      BY <2>1, <2>3, <3>3, <3>4, <3>5 DEF Rendered
  <2>7. ASSUME a.kind = "simulate" PROVE Ran(r)'
    <3>1. PICK v : v = Identity(a.payload.adapter, installed)
      OBVIOUS
    <3>2. box'[r] = [deck |-> Content(a), by |-> v]
      <4>1. Compute(a, l) = Simulate(a)
        BY <2>7 DEF Compute
      <4> QED
        BY <2>1, <2>3, <3>1, <4>1 DEF Simulate
    <3>3. Content(a)' = Content(a)
      BY <2>1 DEF Content
    <3>4. a.identity.adapter = Identity(a.payload.adapter, by)
          /\ a.payload.adapter \in {"mock-rc", "ngspice", "xyce"}
      BY <2>5, <2>7 DEF Shaped
    <3>5. SUFFICES ASSUME a.id \notin late', v # a.identity.adapter
                   PROVE  a.payload.adapter = "xyce" /\ a.identity.adapter # Identity("xyce", installed)
      <4>1. Identity("xyce", installed)' = Identity("xyce", installed)
        BY <2>1 DEF Identity
      <4>2. box'[r] = [deck |-> Content(a)', by |-> v]
        BY <3>2, <3>3
      <4>3. AtHand(r)' = a
        BY <2>2, <2>3
      <4> QED
        BY <4>1, <4>2, <4>3 DEF Ran, Content
    <3>6. a.payload.adapter # "ngspice"
      BY <2>1, <2>3, <2>7, <3>1, <3>5
    <3>7. a.payload.adapter # "mock-rc"
      BY <3>1, <3>4, <3>5 DEF Identity
    <3> QED
      BY <3>1, <3>4, <3>5, <3>6, <3>7
  <2> QED
    BY <2>1, <2>2, <2>3, <2>4, <2>6, <2>7 DEF Doing
<1>5. CASE ~Compare(r) /\ ~Work(r)
  <2>1. at'[r] \notin {"compared", "computed"}
    <3>1. CASE \/ Skip(r) \/ Disagree(r) \/ WorkFails(r) \/ PublishFails(r) \/ DeriveFails(r)
               \/ Close(r)
      BY <1>1, <3>1 DEF Skip, Disagree, WorkFails, PublishFails, DeriveFails, Close, Fails, MustFail, MayFail
    <3>2. CASE Publish(r) \/ Derive(r)
      <4>1. PICK l, content : Enter(r, AtHand(r), l, content)
        BY <3>2 DEF Publish, Derive
      <4> QED
        BY <1>1, <4>1 DEF Enter
    <3>3. CASE Reload(r) \/ \E m \in Manifests[r] : Submit(r, m)
      <4>1. \E l \in {"idle", "refused", "damaged", "rejected"} : at' = [at EXCEPT ![r] = l]
        BY <3>3 DEF Reload, Submit, Start
      <4> QED
        BY <1>1, <4>1
    <3> QED
      BY <1>5, <3>1, <3>2, <3>3 DEF Step
  <2> QED
    BY <1>2, <2>1
<1> QED
  BY <1>3, <1>4, <1>5

(* What is published is what the id says.                                  *)
LEMMA PublishHolds ==
    ASSUME ReplayInv, ContentInv, NEW r \in Runs, Publish(r)
    PROVE  Under(r) /\ AtWork(r) /\ Holds(AtHand(r), box[r])
<1>1. at[r] = "computed" /\ SameTool(AtHand(r))
  BY DEF Publish
<1>2. Under(r) /\ PlanKept(r) /\ AtWork(r) /\ Doing(r)
  BY <1>1 DEF ReplayInv, RunInv, ContentInv, Under
<1>3. PICK a : a = AtHand(r)
  OBVIOUS
<1>4. a.kind \in {"render", "simulate"}
  BY <1>1, <1>2, <1>3 DEF Doing
<1>5. CASE a.kind = "render"
  BY <1>1, <1>2, <1>3, <1>5 DEF Doing, Holds
<1>6. CASE a.kind = "simulate"
  <2>1. Ran(r)
    BY <1>1, <1>2, <1>3, <1>6 DEF Doing
  <2>2. a.payload.adapter = "xyce" => a.identity.adapter = Identity("xyce", installed)
    BY <1>1, <1>3, <1>6 DEF SameTool
  <2>3. a.id \in late \/ box[r] = [deck |-> Content(a), by |-> a.identity.adapter]
    BY <1>3, <2>1, <2>2 DEF Ran
  <2> QED
    BY <1>2, <1>3, <1>6, <2>3 DEF Holds
<1> QED
  BY <1>4, <1>5, <1>6

(* The ranks a plan gives are numbers, and those of its points.            *)
LEMMA RankIs ==
    ASSUME NEW r \in Runs, PlanKept(r), NEW i \in DOMAIN saved[r].activities,
           saved[r].activities[i].kind = "extract"
    PROVE  /\ saved[r].loose[i].rank \in Nat
           /\ <<saved[r].activities[i].id, saved[r].loose[i].rank>> \in Ranked(saved[r])
<1>1. PICK m, digests, by, base :
        /\ Planned(m) /\ base = Compile(Loaded(m), digests, by) /\ Stands(saved[r], base)
        /\ saved[r] = base \/ PlanDecodes(saved[r])
  BY DEF PlanKept
<1>2. PICK a, l : a = saved[r].activities[i] /\ l = saved[r].loose[i]
  OBVIOUS
<1>3. Bound(a, l)
  BY <1>1, <1>2 DEF Stands
<1>4. l.rank = l.index
  BY <1>2, <1>3 DEF Bound
<1>5. ASSUME saved[r] = base PROVE l.rank \in Nat
  <2>1. PICK n, ps, inputs : n = Loaded(m) /\ ps = Points(n) /\ inputs = Inputs(n, digests)
    OBVIOUS
  <2>2. PICK chains, aggregate : PlanIs(base, n, inputs, by, ps, chains, aggregate)
    BY <1>1, <2>1, CompileIs
  <2>3. PICK c : c = Len(ps)
    OBVIOUS
  <2>4. DOMAIN ps = 1 .. c
    BY <1>1, <2>1, <2>3, PointsAre
  <2>5. i # 3 * c + 1 /\ i \in 1 .. 3 * c + 1 /\ c \in Nat
    <3>1. /\ c \in Nat /\ DOMAIN base.activities = 1 .. 3 * c + 1
          /\ base.activities[3 * c + 1] = aggregate /\ aggregate.kind = "aggregate"
      BY <2>2, <2>3 DEF PlanIs, IsAggregate
    <3> QED
      BY <1>2, <1>5, <3>1
  <2>6. i \in 1 .. 3 * c
    BY <2>5
  <2>7. PICK j \in 1 .. c, k \in 1 .. 3 : i = 3 * (j - 1) + k
    BY <2>5, <2>6, Threes
  <2>8. a = chains[j][k] /\ l = LooseChain(n, ps[j], inputs)[k] /\ IsChain(chains[j], n, ps[j], inputs, by)
    BY <1>2, <1>5, <2>2, <2>3, <2>7 DEF PlanIs
  <2>9. PICK p, chain : p = ps[j] /\ chain = LooseChain(n, p, inputs)
    OBVIOUS
  <2>10. p \in Range(Points(n))
    BY <2>1, <2>4, <2>7, <2>9 DEF Range
  <2>11. p.index \in Nat
    BY <1>1, <2>1, <2>10, NamesApart
  <2>12. \A h \in 1 .. 3 : chain[h].index = p.index
    BY <1>1, <2>1, <2>9, LooseDecodes
  <2> QED
    BY <1>4, <2>7, <2>8, <2>9, <2>11, <2>12
<1>6. ASSUME PlanDecodes(saved[r]) PROVE l.rank \in Nat
  <2>1. ActivityDecodes(a, l)
    BY <1>2, <1>6 DEF PlanDecodes
  <2>2. Contract(a, l)
    BY <2>1, Zenon DEF ActivityDecodes
  <2>3. a.point # None
    BY <1>2, <2>2 DEF Contract, ExtractContract
  <2>4. l.index \in Nat
    BY <2>1, <2>3, Zenon DEF ActivityDecodes
  <2> QED
    BY <1>2, <1>4, <2>4
<1>7. <<a.id, l.rank>> \in Ranked(saved[r])
  BY <1>2 DEF Ranked
<1> QED
  BY <1>1, <1>2, <1>5, <1>6, <1>7

LEMMA DeriveHolds ==
    ASSUME ReplayInv, ContentInv, NEW r \in Runs, Derive(r)
    PROVE  Under(r) /\ AtWork(r) /\ Holds(AtHand(r), Compute(AtHand(r), Beside(r)))
<1>1. /\ at[r] = "idle" /\ Pending(r) # {} /\ \A d \in Range(AtHand(r).deps) : Verified(d)
      /\ AtHand(r).kind \in {"extract", "aggregate"}
  BY DEF Derive, Runnable, Admitted, Agrees
<1>2. Under(r) /\ PlanKept(r) /\ Ranked(saved[r]) \subseteq ranks
  BY <1>1 DEF Under, ReplayInv, RunInv, ContentInv
<1>3. PICK a, l : a = AtHand(r) /\ l = Beside(r)
  OBVIOUS
<1>4. a.kind = "extract" => l.rank \in Nat /\ <<a.id, l.rank>> \in ranks
  <2>1. PICK i : i = Turn(r)
    OBVIOUS
  <2>2. i \in DOMAIN saved[r].activities
    BY <1>1, <1>2, <2>1, AtHandIs
  <2>3. a = saved[r].activities[i] /\ l = saved[r].loose[i]
    BY <1>3, <2>1 DEF AtHand, Beside
  <2> QED
    BY <1>2, <2>2, <2>3, RankIs
<1>5. a.kind = "extract" => Compute(a, l) = Extracted(a, l.rank)
  BY ExtractComputes DEF Compute
<1>6. a.kind = "aggregate" => Compute(a, l) = [rows |-> AggregateRows(a)]
  BY DEF Compute
<1>7. Holds(a, Compute(a, l))
  <2> DEFINE content == Compute(a, l)
  <2>1. content = content
    OBVIOUS
  <2> HIDE DEF content
  <2>2. ASSUME a.kind = "extract"
        PROVE  \E k \in Nat : content = Extracted(a, k) /\ <<a.id, k>> \in ranks
    BY <1>4, <1>5, <2>2 DEF content
  <2>3. a.kind = "aggregate" => content = [rows |-> AggregateRows(a)]
    BY <1>6 DEF content
  <2>4. a.kind # "render" /\ a.kind # "simulate"
    BY <1>1, <1>3
  <2>5. Holds(a, content)
    BY <2>2, <2>3, <2>4, Zenon DEF Holds
  <2> QED
    BY <2>5 DEF content
<1> QED
  BY <1>1, <1>2, <1>3, <1>7 DEF AtWork

(* No step of a run makes an entry of what its id does not say.            *)
LEMMA StepHolds ==
    ASSUME ReplayInv, ReplayInv', ContentInv, Lasts, NEW r \in Runs, Step(r)
    PROVE  ContentInv'
<1>1. Moves(r)
  BY StepMoves
<1>2. DOMAIN box' = Runs
  BY <1>1 DEF Moves
<1>3. ASSUME NEW q \in Runs, Under(q)' PROVE Ranked(saved'[q]) \subseteq ranks'
  <2>1. CASE Under(q) /\ saved'[q] = saved[q]
    BY <2>1 DEF ContentInv, Lasts
  <2>2. CASE ~(Under(q) /\ saved'[q] = saved[q])
    <3>1. q = r
      BY <1>1, <1>3, <2>2 DEF Moves, Under
    <3>2. \E plan : Start(r, plan)
      <4>1. DOMAIN at = Runs
        BY DEF ReplayInv, Shapes
      <4>2. CASE Reload(r)
        <5>1. at[r] \in {"idle", "compared", "computed", "succeeded", "failed"}
              /\ (saved' = saved \/ \E plan : Start(r, plan))
          BY <4>2 DEF Reload
        <5>2. Under(r)
          BY <5>1 DEF Under
        <5> QED
          BY <2>2, <3>1, <5>1, <5>2
      <4>3. CASE \E m \in Manifests[r] : Submit(r, m)
        <5>1. at' = [at EXCEPT ![r] = "rejected"] \/ \E plan : Start(r, plan)
          BY <4>3, Zenon DEF Submit
        <5> QED
          BY <1>3, <3>1, <4>1, <5>1 DEF Under
      <4>4. CASE ~Reload(r) /\ ~ \E m \in Manifests[r] : Submit(r, m)
        <5>1. saved' = saved /\ at[r] \in RunLabels \ {"new", "rejected"}
          BY <4>4 DEF Step, Skip, Compare, Disagree, Runnable, Work, WorkFails, Publish,
                      PublishFails, Derive, DeriveFails, Close, Fails, MustFail, MayFail, Enter, RunLabels
        <5> QED
          BY <2>2, <3>1, <5>1 DEF Under
      <4> QED
        BY <4>2, <4>3, <4>4
    <3>3. PICK plan : Start(r, plan)
      BY <3>2
    <3>4. saved'[r] = plan
      BY <3>3 DEF Start, ReplayInv, Shapes
    <3> QED
      BY <3>1, <3>3, <3>4 DEF Start
  <2> QED
    BY <2>1, <2>2
<1>4. ASSUME NEW q \in Runs PROVE Doing(q)'
  <2>1. CASE q = r
    BY <1>1, <2>1, WorkerKeeps
  <2>2. CASE q # r
    BY <1>1, <2>2, DoingStays DEF Moves, ReplayInv, ContentInv
  <2> QED
    BY <2>1, <2>2
<1>5. \A id \in DOMAIN cache' : Held(id)'
  <2>0. \A id \in DOMAIN cache : Held(id)
    BY DEF ContentInv
  <2>1. CASE Publish(r)
    <3>1. Enter(r, AtHand(r), Beside(r), box[r])
      BY <2>1 DEF Publish
    <3> QED
      BY <2>0, <2>1, <3>1, PublishHolds, EnteredIsHeld
  <2>2. CASE Derive(r)
    <3>1. Enter(r, AtHand(r), Beside(r), Compute(AtHand(r), Beside(r)))
      BY <2>2 DEF Derive
    <3> QED
      BY <2>0, <2>2, <3>1, DeriveHolds, EnteredIsHeld
  <2>3. CASE ~Publish(r) /\ ~Derive(r)
    <3>1. cache' = cache
      BY <2>3 DEF Step, Skip, Compare, Disagree, Work, WorkFails, PublishFails, DeriveFails, Fails,
                  MustFail, MayFail, Close, Reload, Submit
    <3> QED
      BY <2>0, <3>1, HeldStays
  <2> QED
    BY <2>1, <2>2, <2>3
<1> QED
  BY <1>2, <1>3, <1>4, <1>5 DEF ContentInv

\* an edit after a comparison is late, and so is an Xyce put back after a run
LEMMA AroundHolds ==
    ASSUME ReplayInv, ContentInv, Lasts,
           (\E f \in Files : Edit(f)) \/ Replace \/ PutBack \/ UNCHANGED planVars
    PROVE  ContentInv'
<1>1. UNCHANGED <<source, saved, at, counted, lost, box, cache, ranks>>
  BY DEF Edit, Replace, PutBack, Installed, planVars
<1>2. installed' = installed \/ \E version : Installed(version)
  BY DEF Edit, Replace, PutBack, planVars
<1>3. ASSUME NEW q \in Runs, at[q] = "compared"
      PROVE  \/ AtHand(q).id \in late'
             \/ \A i \in DOMAIN AtHand(q).inputs :
                    contents'[Beside(q).paths[i]] = contents[Beside(q).paths[i]]
  <2>1. CASE \E f \in Files : Edit(f)
    <3>1. PICK f \in Files : Edit(f)
      BY <2>1
    <3>2. CASE \E i \in DOMAIN AtHand(q).inputs : Beside(q).paths[i] = f
      BY <1>3, <3>1, <3>2 DEF Edit, Busy
    <3>3. CASE \A i \in DOMAIN AtHand(q).inputs : Beside(q).paths[i] # f
      BY <3>1, <3>3 DEF Edit
    <3> QED
      BY <3>2, <3>3
  <2>2. CASE Replace \/ PutBack \/ UNCHANGED planVars
    BY <2>2 DEF Replace, PutBack, Installed, planVars
  <2> QED
    BY <2>1, <2>2
<1>4. \A q \in Runs : Doing(q)'
  BY <1>1, <1>2, <1>3, DoingStays DEF ReplayInv, ContentInv
<1>5. \A id \in DOMAIN cache' : Held(id)'
  BY <1>1, HeldStays DEF ContentInv
<1>6. \A r \in Runs : Under(r)' => Ranked(saved'[r]) \subseteq ranks'
  BY <1>1 DEF ContentInv, Under
<1> QED
  BY <1>1, <1>4, <1>5, <1>6 DEF ContentInv

(* Every entry holds what its id says, whoever published it and whatever   *)
(* was edited, altered or interrupted on the way: the files it was         *)
(* rendered from are those the id was taken of and the simulator is the    *)
(* one of the id; a rank, which the id does not say, is one that some plan *)
(* gave it.  It does not hold of what is late, which the code does not     *)
(* compare: an input that changed after its comparison, an Xyce that was   *)
(* replaced only for the time it ran, an ngspice replaced after planning.  *)
THEOREM ContentInvariance == PlanSpec => []ContentInv
<1>1. PlanInit => ContentInv
  BY DEF PlanInit, ContentInv, Doing, Under
<1>2. ContentInv /\ ReplayInv /\ ReplayInv' /\ [PlanNext]_planVars => ContentInv'
  <2>1. SUFFICES ASSUME ContentInv, ReplayInv, ReplayInv', [PlanNext]_planVars PROVE ContentInv'
    OBVIOUS
  <2>2. Lasts
    BY <2>1, StepLasts
  <2>3. CASE \E r \in Runs : Step(r)
    BY <2>1, <2>2, <2>3, StepHolds
  <2>4. CASE (\E f \in Files : Edit(f)) \/ Replace \/ PutBack \/ UNCHANGED planVars
    BY <2>1, <2>2, <2>4, AroundHolds
  <2> QED
    BY <2>1, <2>3, <2>4 DEF PlanNext
<1> QED
  BY <1>1, <1>2, ReplayInvariance, PTL DEF PlanSpec

(* Ranks are the numbers up to how many there are, each of them once; what *)
(* is in order already keeps its place.                                    *)
LEMMA RanksAre ==
    ASSUME NEW l \in Nat, NEW found, DOMAIN found = 1 .. l, \A i \in 1 .. l : found[i].index \in Nat
    PROVE  /\ RankOf(found) \in [1 .. l -> 1 .. l]
           /\ \A i, j \in 1 .. l : RankOf(found)[i] = RankOf(found)[j] => i = j
           /\ \A k \in 1 .. l : \E i \in 1 .. l : RankOf(found)[i] = k
           /\ (\A i \in 1 .. l : found[i].index = i - 1) => \A i \in 1 .. l : RankOf(found)[i] = i
<1> DEFINE D == 1 .. l
           Sooner(i) == {j \in D : Precedes(found, j, i)}
           rank == RankOf(found)
<1>1. rank = [i \in D |-> 1 + Cardinality(Sooner(i))]
  BY DEF RankOf
<1>2. D \subseteq Nat /\ IsFiniteSet(D) /\ Cardinality(D) = l
  BY FS_Interval
<1>3. \A i \in D : Sooner(i) \in SUBSET D /\ i \notin Sooner(i)
  BY DEF Precedes
<1>4. \A i, j \in D : i # j => Precedes(found, i, j) \/ Precedes(found, j, i)
  BY DEF Precedes
<1>5. \A i, j, k \in D : Precedes(found, i, j) /\ Precedes(found, j, k) => Precedes(found, i, k)
  BY DEF Precedes
<1>6. \A i, j \in D : Precedes(found, i, j) => Sooner(i) \cup {i} \subseteq Sooner(j)
  BY <1>5
<1>7. (\A i \in D : found[i].index = i - 1) => \A i \in D : Sooner(i) = 1 .. i - 1
  BY DEF Precedes
<1> HIDE DEF Sooner, rank
<1>8. \A i \in D : IsFiniteSet(Sooner(i)) /\ Cardinality(Sooner(i)) \in Nat
  BY <1>2, <1>3, FS_Subset, FS_CardinalityType
<1>9. \A i \in D : rank[i] = 1 + Cardinality(Sooner(i))
  BY <1>1
<1>10. ASSUME NEW i \in D, NEW j \in D, Precedes(found, i, j) PROVE rank[i] < rank[j]
  <2>1. Cardinality(Sooner(i) \cup {i}) = Cardinality(Sooner(i)) + 1
        /\ IsFiniteSet(Sooner(i) \cup {i})
    BY <1>3, <1>8, FS_AddElement
  <2>2. Sooner(i) \cup {i} \in SUBSET Sooner(j)
    BY <1>6, <1>10
  <2>3. Cardinality(Sooner(i) \cup {i}) <= Cardinality(Sooner(j))
    BY <1>8, <2>2, FS_Subset
  <2> HIDE DEF D
  <2> QED
    BY <1>8, <1>9, <2>1, <2>3
<1>11. ASSUME NEW i \in D PROVE rank[i] \in D
  <2>1. Sooner(i) \in SUBSET (D \ {i}) /\ IsFiniteSet(D \ {i}) /\ Cardinality(D \ {i}) = l - 1
    BY <1>2, <1>3, FS_RemoveElement
  <2>2. Cardinality(Sooner(i)) <= l - 1
    BY <2>1, FS_Subset
  <2> QED
    BY <1>8, <1>9, <2>2
<1>12. rank \in [D -> D]
  BY <1>1, <1>9, <1>11
<1>13. \A i, j \in D : rank[i] = rank[j] => i = j
  <2>1. SUFFICES ASSUME NEW i \in D, NEW j \in D, i # j PROVE rank[i] # rank[j]
    OBVIOUS
  <2>2. rank[i] < rank[j] \/ rank[j] < rank[i]
    BY <1>4, <1>10, <2>1
  <2> QED
    BY <1>11, <2>2
<1>14. \A k \in D : \E i \in D : rank[i] = k
  <2>1. rank \in Injection(D, D)
    BY <1>12, <1>13 DEF Injection, IsInjective
  <2>2. rank \in Surjection(D, D)
    BY <1>2, <2>1, FS_Injection
  <2> QED
    BY <2>2 DEF Surjection
<1>15. (\A i \in D : found[i].index = i - 1) => \A i \in D : rank[i] = i
  <2>1. ASSUME NEW i \in D, Sooner(i) = 1 .. i - 1 PROVE rank[i] = i
    <3>1. Cardinality(1 .. i - 1) = i - 1
      BY FS_Interval
    <3> QED
      BY <1>9, <2>1, <3>1
  <2> QED
    BY <1>7, <2>1
<1> QED
  BY <1>12, <1>13, <1>14, <1>15 DEF rank

\* a row for each of what was found, those that are in order in their order
RowsFor(rows, found, l) ==
    /\ DOMAIN rows = 1 .. l
    /\ \A k \in 1 .. l : \E i \in 1 .. l : rows[k] = Row(found[i].point, found[i].metrics)
    /\ \A i \in 1 .. l : \E k \in 1 .. l : rows[k] = Row(found[i].point, found[i].metrics)
    /\ (\A i \in 1 .. l : found[i].index = i - 1)
         => \A k \in 1 .. l : rows[k] = Row(found[k].point, found[k].metrics)

LEMMA RowsInOrder ==
    ASSUME NEW l \in Nat, NEW found, DOMAIN found = 1 .. l, \A i \in 1 .. l : found[i].index \in Nat,
           NEW rows, rows = RowsOf(found)
    PROVE  RowsFor(rows, found, l)
<1> DEFINE rank == RankOf(found)
           At(k) == CHOOSE i \in 1 .. l : rank[i] = k
           row(i) == Row(found[i].point, found[i].metrics)
<1>1. /\ rank \in [1 .. l -> 1 .. l]
      /\ \A i, j \in 1 .. l : rank[i] = rank[j] => i = j
      /\ \A k \in 1 .. l : \E i \in 1 .. l : rank[i] = k
      /\ (\A i \in 1 .. l : found[i].index = i - 1) => \A i \in 1 .. l : rank[i] = i
  BY RanksAre
<1>2. rows = [k \in 1 .. l |-> row(At(k))]
  BY DEF RowsOf
<1> HIDE DEF rank, row
<1>3. \A k \in 1 .. l : At(k) \in 1 .. l /\ rank[At(k)] = k
  BY <1>1
<1> HIDE DEF At
<1>4. ASSUME NEW i \in 1 .. l PROVE rank[i] \in 1 .. l /\ At(rank[i]) = i
  <2>1. PICK k \in 1 .. l : k = rank[i]
    BY <1>1
  <2>2. At(k) \in 1 .. l /\ rank[At(k)] = rank[i]
    BY <1>3, <2>1
  <2>3. At(k) = i
    BY <1>1, <2>2, Zenon
  <2> QED
    BY <2>1, <2>3
<1>5. DOMAIN rows = 1 .. l /\ \A k \in 1 .. l : rows[k] = row(At(k))
  BY <1>2
<1>6. \A k \in 1 .. l : \E i \in 1 .. l : rows[k] = row(i)
  BY <1>3, <1>5
<1>7. \A i \in 1 .. l : \E k \in 1 .. l : rows[k] = row(i)
  BY <1>4, <1>5
<1>8. (\A i \in 1 .. l : found[i].index = i - 1) => \A k \in 1 .. l : rows[k] = row(k)
  BY <1>1, <1>4, <1>5
<1> QED
  BY <1>5, <1>6, <1>7, <1>8 DEF row, RowsFor

\* what is told apart by more than case
ToldApart(values) == \A v, w \in Range(values) : Fold(v[1]) = Fold(w[1]) => v = w

LEMMA ApartIs ==
    ASSUME NEW values, FoldDistinct([i \in DOMAIN values |-> values[i][1]])
    PROVE  ToldApart(values)
<1> DEFINE names == [i \in DOMAIN values |-> values[i][1]]
           folded == [i \in DOMAIN names |-> Fold(names[i])]
<1>1. IsInjective(folded)
  BY DEF FoldDistinct
<1>2. DOMAIN folded = DOMAIN values /\ \A i \in DOMAIN values : folded[i] = Fold(values[i][1])
  OBVIOUS
<1> HIDE DEF folded
<1>3. \A i, j \in DOMAIN values : Fold(values[i][1]) = Fold(values[j][1]) => i = j
  BY <1>1, <1>2 DEF IsInjective
<1> QED
  BY <1>3 DEF ToldApart, Range

(* dict(point.values) has every value under its name.                      *)
LEMMA DictIs ==
    ASSUME NEW values, ToldApart(values)
    PROVE  /\ DOMAIN Dict(values) = {v[1] : v \in Range(values)}
           /\ \A v \in Range(values) : Dict(values)[v[1]] = v[2]
<1> DEFINE S == Range(values)
           ValueOf(name) == CHOOSE v \in S : v[1] = name
<1>1. Dict(values) = [name \in {v[1] : v \in S} |-> ValueOf(name)[2]]
  BY DEF Dict
<1>2. ASSUME NEW v \in S PROVE ValueOf(v[1]) = v
  <2>1. ValueOf(v[1]) \in S /\ ValueOf(v[1])[1] = v[1]
    OBVIOUS
  <2> HIDE DEF ValueOf
  <2> QED
    BY <2>1 DEF ToldApart
<1> HIDE DEF S, ValueOf
<1>3. \A v \in S : Dict(values)[v[1]] = v[2]
  BY <1>1, <1>2
<1> QED
  BY <1>1, <1>3 DEF S

(* A deck has every value under the casefolded name.                       *)
LEMMA SubstitutedIs ==
    ASSUME NEW values, ToldApart(values)
    PROVE  Substituted(Dict(values)) =
              [p \in {Fold(v[1]) : v \in Range(values)} |->
                  (CHOOSE v \in Range(values) : Fold(v[1]) = p)[2]]
<1> DEFINE S == Range(values)
           d == Dict(values)
           N == DOMAIN d
           Name(p) == CHOOSE name \in N : Fold(name) = p
           Value(p) == CHOOSE v \in S : Fold(v[1]) = p
           P == {Fold(name) : name \in N}
           Q == {Fold(v[1]) : v \in S}
<1>1. N = {v[1] : v \in S} /\ \A v \in S : d[v[1]] = v[2]
  BY DictIs
<1>2. Substituted(d) = [p \in P |-> d[Name(p)]]
  BY DEF Substituted
<1> HIDE DEF S, d, N
<1>3. P = Q
  BY <1>1
<1>4. ASSUME NEW p \in P PROVE d[Name(p)] = Value(p)[2]
  <2>1. Name(p) \in N /\ Fold(Name(p)) = p
    OBVIOUS
  <2> HIDE DEF Name
  <2>2. PICK v \in S : v[1] = Name(p)
    BY <1>1, <2>1
  <2>3. Fold(v[1]) = p
    BY <2>1, <2>2
  <2>4. Value(p) \in S /\ Fold(Value(p)[1]) = p
    BY <2>3
  <2> HIDE DEF Value
  <2>5. Value(p) = v
    BY <2>3, <2>4 DEF ToldApart, S
  <2> QED
    BY <1>1, <2>2, <2>5
<1>5. Substituted(d) = [p \in Q |-> Value(p)[2]]
  <2> HIDE DEF P, Q, Name, Value
  <2> QED
    BY <1>2, <1>3, <1>4
<1> QED
  BY <1>5 DEF d, S

\* every measure under its name
HasMetrics(e, measures, content) ==
    /\ DOMAIN e = {x.name : x \in Range(measures)}
    /\ \A x \in Range(measures) :
        e[x.name] = [source |-> x.source, field |-> x.field, of |-> content]

LEMMA MetricsAre ==
    ASSUME NEW measures, FoldDistinct(Column(measures, "name")), NEW content
    PROVE  HasMetrics(MetricsOf(measures, content), measures, content)
<1> DEFINE names == Column(measures, "name")
           folded == [i \in DOMAIN names |-> Fold(names[i])]
           S == Range(measures)
           MeasureOf(name) == CHOOSE x \in S : x.name = name
           metric(x) == [source |-> x.source, field |-> x.field, of |-> content]
<1>1. DOMAIN names = DOMAIN measures /\ \A i \in DOMAIN measures : names[i] = measures[i].name
  BY DEF Column
<1>2. Range(names) = {x.name : x \in S}
  BY <1>1 DEF Range
<1>3. \A x, y \in S : x.name = y.name => x = y
  <2>1. IsInjective(folded)
    BY DEF FoldDistinct
  <2> HIDE DEF names
  <2>2. DOMAIN folded = DOMAIN measures /\ \A i \in DOMAIN measures : folded[i] = Fold(measures[i].name)
    BY <1>1
  <2> HIDE DEF folded
  <2>3. \A i, j \in DOMAIN measures : measures[i].name = measures[j].name => i = j
    BY <2>1, <2>2 DEF IsInjective
  <2> QED
    BY <2>3 DEF Range
<1>4. MetricsOf(measures, content) = [name \in Range(names) |-> metric(MeasureOf(name))]
  BY Zenon DEF MetricsOf
<1> HIDE DEF S, names, metric
<1>5. \A x \in S : MeasureOf(x.name) = x
  BY <1>3
<1> HIDE DEF MeasureOf
<1>6. \A x \in S : MetricsOf(measures, content)[x.name] = metric(x)
  BY <1>2, <1>4, <1>5
<1> QED
  BY <1>2, <1>4, <1>6 DEF S, metric, HasMetrics

\* the cells of a row by name
Cells(row) == {<<name, row[name]>> : name \in DOMAIN row}

\* the cells of a point and of its measures
CellsOf(values, measures, content) ==
    {<<v[1], v[2]>> : v \in Range(values)}
    \cup {<<x.name, [source |-> x.source, field |-> x.field, of |-> content]>> : x \in Range(measures)}

(* No metric is written over a parameter: the row has both.                *)
LEMMA RowHasBoth ==
    ASSUME NEW values, ToldApart(values), NEW measures, FoldDistinct(Column(measures, "name")),
           \A v \in Range(values), x \in Range(measures) : v[1] # x.name, NEW content
    PROVE  Cells(Row(Dict(values), MetricsOf(measures, content))) = CellsOf(values, measures, content)
<1> DEFINE S == Range(values)
           M == Range(measures)
           metric(x) == [source |-> x.source, field |-> x.field, of |-> content]
<1>1. PICK d : d = Dict(values)
  OBVIOUS
<1>2. PICK e : e = MetricsOf(measures, content)
  OBVIOUS
<1>3. PICK row : row = Row(d, e)
  OBVIOUS
<1>4. DOMAIN d = {v[1] : v \in S} /\ \A v \in S : d[v[1]] = v[2]
  BY <1>1, DictIs
<1>5. DOMAIN e = {x.name : x \in M} /\ \A x \in M : e[x.name] = metric(x)
  <2>1. HasMetrics(e, measures, content)
    BY <1>2, MetricsAre
  <2> QED
    BY <2>1 DEF HasMetrics
<1>6. /\ DOMAIN row = DOMAIN d \cup DOMAIN e
      /\ \A name \in DOMAIN e : row[name] = e[name]
      /\ \A name \in DOMAIN d : name \notin DOMAIN e => row[name] = d[name]
  BY <1>3 DEF Row
<1>7. \A v \in S, x \in M : v[1] # x.name
  OBVIOUS
<1> HIDE DEF S, M, metric
<1>8. \A v \in S : v[1] \in DOMAIN row /\ row[v[1]] = v[2]
  BY <1>4, <1>5, <1>6, <1>7
<1>9. \A x \in M : x.name \in DOMAIN row /\ row[x.name] = metric(x)
  BY <1>5, <1>6
<1>10. \A name \in DOMAIN row : (\E v \in S : name = v[1]) \/ (\E x \in M : name = x.name)
  BY <1>4, <1>5, <1>6
<1>11. Cells(row) = {<<v[1], v[2]>> : v \in S} \cup {<<x.name, metric(x)>> : x \in M}
  BY <1>8, <1>9, <1>10 DEF Cells
<1> QED
  BY <1>1, <1>2, <1>3, <1>11 DEF CellsOf, S, M, metric

\* the activity of a run whose work an entry holds
HeldAs(b, q, id) ==
    /\ Under(q) /\ b \in Range(saved[q].activities) /\ b.id = id
    /\ \A d \in Range(b.deps) : Verified(d)
    /\ Holds(b, cache[id].content)
    /\ IsActivity(b) /\ Belongs(b, q)

LEMMA HeldIs ==
    ASSUME ReplayInv, ContentInv, NEW id \in DOMAIN cache
    PROVE  \E q, b : q \in Runs /\ HeldAs(b, q, id)
<1>1. PICK q \in Runs : /\ Under(q)
                       /\ \E b \in Range(saved[q].activities) :
                            /\ b.id = id /\ \A d \in Range(b.deps) : Verified(d)
                            /\ Holds(b, cache[id].content)
  BY DEF ContentInv, Held
<1>2. PICK b \in Range(saved[q].activities) :
            /\ b.id = id /\ \A d \in Range(b.deps) : Verified(d)
            /\ Holds(b, cache[id].content)
  BY <1>1
<1>3. PlanKept(q)
  BY <1>1 DEF ReplayInv, RunInv
<1>4. Belongs(b, q) /\ Shaped(b, source[q].by)
  BY <1>3, PlansBelong, PlansShape
<1>5. IsActivity(b)
  BY <1>4 DEF Shaped
<1> QED
  BY <1>1, <1>2, <1>4, <1>5 DEF HeldAs

(* What belongs to a plan and is of a point repeats it in its payload.     *)
LEMMA PayloadOf ==
    ASSUME NEW q, NEW b, Belongs(b, q)
    PROVE  /\ b.kind \in {"render", "extract"} => b.payload.point = Dict(b.point)
           /\ b.kind = "extract" => b.payload.measures = b.identity
<1>1. PICK m, digests, by :
          Planned(m) /\ Member(b, Loaded(m), Inputs(Loaded(m), digests), by, Points(Loaded(m)))
  BY DEF Belongs
<1>2. PICK n, ps, inputs : n = Loaded(m) /\ ps = Points(n) /\ inputs = Inputs(n, digests)
  OBVIOUS
<1>3. Member(b, n, inputs, by, ps)
  BY <1>1, <1>2
<1>4. CASE b.kind = "render"
  <2>1. PICK p \in Range(ps) : IsRender(b, n, p, inputs)
    BY <1>3, <1>4 DEF Member, IsSimulate, IsExtract, IsAggregate
  <2> QED
    BY <1>4, <2>1 DEF IsRender
<1>5. CASE b.kind = "extract"
  <2>1. PICK p \in Range(ps) : \E d : IsExtract(b, n, p, d)
    BY <1>3, <1>5 DEF Member, IsRender, IsSimulate, IsAggregate
  <2> QED
    BY <2>1 DEF IsExtract
<1> QED
  BY <1>4, <1>5

(* Whoever rendered it, a deck is that of the point, from the same files.  *)
LEMMA RenderHeld ==
    ASSUME ReplayInv, ContentInv, NEW a, NEW n, NEW p, NEW inputs, IsRender(a, n, p, inputs),
           a.id \in DOMAIN cache, a.id \notin late
    PROVE  cache[a.id].content = [params |-> Substituted(Dict(p.values)),
                                  files  |-> [i \in DOMAIN inputs |-> inputs[i].sha]]
<1>1. PICK q, b : HeldAs(b, q, a.id)
  BY HeldIs
<1>2. IsActivity(a) /\ a.kind = "render" /\ a.point = p.values /\ a.inputs = inputs
  BY DEF IsRender
<1>3. IsActivity(b) /\ b.id = a.id /\ Belongs(b, q) /\ Holds(b, cache[a.id].content)
  BY <1>1 DEF HeldAs
<1>4. b.kind = "render" /\ b.inputs = inputs /\ b.point = p.values
  BY <1>2, <1>3, IdTells
<1>5. b.payload.point = Dict(p.values)
  BY <1>3, <1>4, PayloadOf
<1>6. cache[a.id].content = Rendered(b)
  BY <1>3, <1>4 DEF Holds
<1> QED
  BY <1>4, <1>5, <1>6 DEF Rendered

(* Whoever simulated it, a deck was simulated by the version of the id.    *)
LEMMA SimulateHeld ==
    ASSUME ReplayInv, ContentInv, NEW a, NEW n, NEW p, NEW d, NEW by, IsSimulate(a, n, p, d, by),
           a.id \in DOMAIN cache, a.id \notin late
    PROVE  cache[a.id].content = [deck |-> cache[d].content, by |-> Identity(n.adapter, by)]
<1>1. PICK q, b : HeldAs(b, q, a.id)
  BY HeldIs
<1>2. /\ IsActivity(a) /\ a.kind = "simulate" /\ a.deps = <<d>>
      /\ a.identity.adapter = Identity(n.adapter, by)
  BY DEF IsSimulate
<1>3. IsActivity(b) /\ b.id = a.id /\ Holds(b, cache[a.id].content)
  BY <1>1 DEF HeldAs
<1>4. b.kind = "simulate" /\ b.deps = <<d>> /\ b.identity = a.identity
  BY <1>2, <1>3, IdTells
<1>5. Content(b) = cache[d].content
  BY <1>4 DEF Content
<1> QED
  BY <1>2, <1>3, <1>4, <1>5 DEF Holds

(* Whoever extracted them, the metrics are those of the measures, of what  *)
(* was simulated; the rank is one that a plan has given.                   *)
LEMMA ExtractHeld ==
    ASSUME ReplayInv, ContentInv, NEW a, NEW n, NEW p, NEW d, IsExtract(a, n, p, d),
           a.id \in DOMAIN cache
    PROVE  \E k \in Nat :
              /\ cache[a.id].content = [index |-> k, point |-> Dict(p.values),
                                        metrics |-> MetricsOf(n.measures, cache[d].content)]
              /\ <<a.id, k>> \in ranks
<1>1. PICK q, b : HeldAs(b, q, a.id)
  BY HeldIs
<1>2. /\ IsActivity(a) /\ a.kind = "extract" /\ a.point = p.values /\ a.deps = <<d>>
      /\ a.identity = n.measures
  BY DEF IsExtract
<1>3. IsActivity(b) /\ b.id = a.id /\ Belongs(b, q) /\ Holds(b, cache[a.id].content)
  BY <1>1 DEF HeldAs
<1>4. b.kind = "extract" /\ b.deps = <<d>> /\ b.identity = n.measures /\ b.point = p.values
  BY <1>2, <1>3, IdTells
<1>5. b.payload.measures = n.measures /\ b.payload.point = Dict(p.values)
  BY <1>3, <1>4, PayloadOf
<1>6. Content(b) = cache[d].content
  BY <1>4 DEF Content
<1>7. PICK k \in Nat : cache[a.id].content = Extracted(b, k) /\ <<a.id, k>> \in ranks
  BY <1>3, <1>4 DEF Holds
<1>8. cache[a.id].content = [index |-> k, point |-> Dict(p.values),
                             metrics |-> MetricsOf(n.measures, cache[d].content)]
  BY <1>5, <1>6, <1>7 DEF Extracted
<1> QED
  BY <1>7, <1>8

(* Whoever aggregated them, the rows are those of the extracts.            *)
LEMMA AggregateHeld ==
    ASSUME ReplayInv, ContentInv, NEW a, NEW n, NEW extracts, IsAggregate(a, n, extracts),
           a.id \in DOMAIN cache
    PROVE  cache[a.id].content.rows = RowsOf(FoundBy(extracts))
<1>1. PICK q, b : HeldAs(b, q, a.id)
  BY HeldIs
<1>2. IsActivity(a) /\ a.kind = "aggregate" /\ a.deps = extracts
  BY DEF IsAggregate
<1>3. IsActivity(b) /\ b.id = a.id /\ Holds(b, cache[a.id].content)
  BY <1>1 DEF HeldAs
<1>4. b.kind = "aggregate" /\ b.deps = extracts
  BY <1>2, <1>3, IdTells
<1>5. cache[a.id].content = [rows |-> AggregateRows(b)]
  BY <1>3, <1>4 DEF Holds
<1>6. AggregateRows(b) = RowsOf(FoundBy(extracts))
  BY <1>4, RowsAre
<1> QED
  BY <1>5, <1>6

-----------------------------------------------------------------------------
(* The rows of a run that has succeeded                                    *)
-----------------------------------------------------------------------------
\* what the manifest says is simulated for a point
DeckOf(n, digests, values) ==
    [params |-> [p \in {Fold(v[1]) : v \in Range(values)} |->
                    (CHOOSE v \in Range(values) : Fold(v[1]) = p)[2]],
     files  |-> [i \in 1 .. 1 + Len(n.inputs) |->
                    digests[IF i = 1 THEN n.deck ELSE n.inputs[i - 1]]]]
SimulatedOf(n, digests, by, values) ==
    [deck |-> DeckOf(n, digests, values), by |-> Identity(n.adapter, by)]

(* The table of a manifest, a row of cells for each point                  *)
LEMMA TableIs ==
    ASSUME NEW m, NEW digests, NEW by, NEW s, s = [manifest |-> m, digests |-> digests, by |-> by],
           NEW n, n = Loaded(m), NEW points, points = Combinations(n)
    PROVE  Table(s) = [i \in DOMAIN points |->
                          CellsOf(points[i], n.measures, SimulatedOf(n, digests, by, points[i]))]
<1>1. Table(s) = [i \in DOMAIN Combinations(Loaded(s.manifest)) |->
                    CellsOf(Combinations(Loaded(s.manifest))[i], Loaded(s.manifest).measures,
                            SimulatedOf(Loaded(s.manifest), s.digests, s.by,
                                        Combinations(Loaded(s.manifest))[i]))]
  BY DEF Table, CellsOf, SimulatedOf, DeckOf
<1>2. s.manifest = m /\ s.digests = digests /\ s.by = by
  OBVIOUS
<1> QED
  BY <1>1, <1>2

(* Measures are told apart, from one another and from the parameters.      *)
LEMMA MeasuresTold ==
    ASSUME NEW m, Planned(m), NEW n, n = Loaded(m)
    PROVE  /\ FoldDistinct(Column(n.measures, "name"))
           /\ \A p \in Range(m.params), x \in Range(n.measures) : p.name # x.name
<1>1. LoadedFrom(n, m)
  BY LoadedIs DEF Planned
<1>2. MeasuresAccepted(m)
  BY DEF Planned, Accepted
<1>3. /\ DOMAIN n.measures = DOMAIN m.measures
      /\ \A i \in DOMAIN m.measures : n.measures[i].name = m.measures[i].name
  BY <1>1 DEF LoadedFrom
<1>4. Column(n.measures, "name") = Column(m.measures, "name")
  BY <1>3 DEF Column
<1>5. FoldDistinct(Column(m.measures, "name"))
  BY <1>2, Zenon DEF MeasuresAccepted
<1>6. \A i \in DOMAIN m.measures, p \in Range(m.params) : Fold(m.measures[i].name) # Fold(p.name)
  BY <1>2 DEF MeasuresAccepted, Column
<1> QED
  BY <1>3, <1>4, <1>5, <1>6 DEF Range

(* The values of a point are told apart, and no metric has their names.    *)
LEMMA PointTold ==
    ASSUME NEW m, Planned(m), NEW n, n = Loaded(m), NEW p \in Range(Points(n))
    PROVE  /\ ToldApart(p.values)
           /\ \A v \in Range(p.values), x \in Range(n.measures) : v[1] # x.name
<1>1. ToldApart(p.values)
  BY NamesApart, ApartIs
<1>2. PICK ps : ps = Points(n)
  OBVIOUS
<1>3. PICK i \in 1 .. Len(ps) : p = ps[i]
  BY <1>2, PointsAre DEF Range
<1>4. NamedLike(p.values, n.params)
  BY <1>2, <1>3, PointsAre
<1>5. \A j \in DOMAIN p.values : \E q \in Range(m.params) : p.values[j][1] = q.name
  BY <1>4, ParamsAre DEF NamedLike, Range
<1>6. \A q \in Range(m.params), x \in Range(n.measures) : q.name # x.name
  BY MeasuresTold
<1>7. \A v \in Range(p.values) : \E q \in Range(m.params) : v[1] = q.name
  BY <1>5 DEF Range
<1> QED
  BY <1>1, <1>6, <1>7

(* The files of a render are those of the manifest.                        *)
LEMMA FilesAre ==
    ASSUME NEW m, Planned(m), NEW n, n = Loaded(m), NEW digests,
           NEW inputs, inputs = Inputs(n, digests)
    PROVE  [i \in DOMAIN inputs |-> inputs[i].sha]
              = [i \in 1 .. 1 + Len(n.inputs) |-> digests[IF i = 1 THEN n.deck ELSE n.inputs[i - 1]]]
<1>1. DeckAndCopies(inputs, n, m, digests)
  BY InputsAre
<1> DEFINE q == m.inputs
           file(i) == IF i = 1 THEN n.deck ELSE q[i - 1]
<1>2. /\ q \in Seq(STRING) /\ n.inputs = q /\ DOMAIN inputs = 1 .. Len(q) + 1
      /\ inputs[1] = [logical |-> Template, sha |-> digests[n.deck]]
      /\ \A i \in 1 .. Len(q) : inputs[i + 1] = [logical |-> q[i], sha |-> digests[q[i]]]
  BY <1>1 DEF DeckAndCopies
<1> HIDE DEF q
<1>3. Len(q) \in Nat
  BY <1>2
<1>4. ASSUME NEW i \in 1 .. 1 + Len(q) PROVE inputs[i].sha = digests[file(i)]
  <2>1. CASE i = 1
    BY <1>2, <2>1
  <2>2. CASE i # 1
    <3>1. PICK j \in 1 .. Len(q) : j = i - 1 /\ j + 1 = i
      BY <1>3, <2>2
    <3>2. inputs[j + 1].sha = digests[q[j]]
      <4>1. inputs[j + 1] = [logical |-> q[j], sha |-> digests[q[j]]]
        BY <1>2, Zenon
      <4> QED
        BY <4>1
    <3> QED
      BY <2>2, <3>1, <3>2
  <2> QED
    BY <2>1, <2>2
<1>5. DOMAIN inputs = 1 .. 1 + Len(q)
  BY <1>2, <1>3
<1> HIDE DEF file
<1>6. [i \in DOMAIN inputs |-> inputs[i].sha] = [i \in 1 .. 1 + Len(q) |-> digests[file(i)]]
  BY <1>4, <1>5
<1> QED
  BY <1>2, <1>6 DEF file

\* a row as the manifest says, of a rank that some plan has given
RowFound(f, n, digests, by, p, id) ==
    /\ f.index \in Nat /\ <<id, f.index>> \in ranks
    /\ Cells(Row(f.point, f.metrics))
          = CellsOf(p.values, n.measures, SimulatedOf(n, digests, by, p.values))

(* What is found for a point is the row of the point.                      *)
LEMMA PointHeld ==
    ASSUME ReplayInv, ContentInv, NEW m, Planned(m), NEW n, n = Loaded(m), NEW p \in Range(Points(n)),
           NEW digests, NEW inputs, inputs = Inputs(n, digests), NEW by,
           NEW a, IsRender(a, n, p, inputs), NEW b, IsSimulate(b, n, p, a.id, by),
           NEW c, IsExtract(c, n, p, b.id),
           a.id \in DOMAIN cache, b.id \in DOMAIN cache, c.id \in DOMAIN cache,
           a.id \notin late, b.id \notin late
    PROVE  RowFound(cache[c.id].content, n, digests, by, p, c.id)
<1>1. /\ ToldApart(p.values)
      /\ \A v \in Range(p.values), x \in Range(n.measures) : v[1] # x.name
  BY PointTold
<1>2. FoldDistinct(Column(n.measures, "name"))
  BY MeasuresTold
<1>3. PICK deck : deck = cache[a.id].content
  OBVIOUS
<1>4. deck = DeckOf(n, digests, p.values)
  <2>1. deck = [params |-> Substituted(Dict(p.values)),
                files  |-> [i \in DOMAIN inputs |-> inputs[i].sha]]
    BY <1>1, <1>3, RenderHeld
  <2>2. Substituted(Dict(p.values)) = [k \in {Fold(v[1]) : v \in Range(p.values)} |->
                                        (CHOOSE v \in Range(p.values) : Fold(v[1]) = k)[2]]
    BY <1>1, SubstitutedIs
  <2>3. [i \in DOMAIN inputs |-> inputs[i].sha]
            = [i \in 1 .. 1 + Len(n.inputs) |-> digests[IF i = 1 THEN n.deck ELSE n.inputs[i - 1]]]
    BY FilesAre
  <2> QED
    BY <2>1, <2>2, <2>3, Zenon DEF DeckOf
<1>5. PICK sim : sim = cache[b.id].content
  OBVIOUS
<1>6. sim = SimulatedOf(n, digests, by, p.values)
  <2>1. sim = [deck |-> deck, by |-> Identity(n.adapter, by)]
    BY <1>3, <1>5, SimulateHeld
  <2> QED
    BY <1>4, <2>1 DEF SimulatedOf
<1>7. PICK k \in Nat : /\ cache[c.id].content = [index |-> k, point |-> Dict(p.values),
                                                 metrics |-> MetricsOf(n.measures, sim)]
                       /\ <<c.id, k>> \in ranks
  BY <1>1, <1>5, ExtractHeld
<1>8. PICK f : f = cache[c.id].content
  OBVIOUS
<1>9. f.index = k /\ f.point = Dict(p.values) /\ f.metrics = MetricsOf(n.measures, sim)
  BY <1>7, <1>8
<1>10. Cells(Row(Dict(p.values), MetricsOf(n.measures, sim))) = CellsOf(p.values, n.measures, sim)
  BY <1>1, <1>2, RowHasBoth
<1> QED
  BY <1>6, <1>7, <1>8, <1>9, <1>10 DEF RowFound

(* A plan that was kept has the work of the plan of its source.            *)
LEMMA KeptIsPlanOf ==
    ASSUME NEW r \in Runs, PlanKept(r)
    PROVE  PlanOf(source[r]).activities = saved[r].activities
<1>1. PICK m, digests, by :
          /\ source[r] = [manifest |-> m, digests |-> digests, by |-> by]
          /\ Stands(saved[r], Compile(Loaded(m), digests, by))
  BY DEF PlanKept
<1>2. source[r].manifest = m /\ source[r].digests = digests /\ source[r].by = by
  BY <1>1
<1> QED
  BY <1>1, <1>2 DEF PlanOf, Stands

(* A point that no plan has ranked otherwise has its own rank.             *)
LEMMA RankIsOwn ==
    ASSUME NEW r \in Runs, ~Reranked(r), NEW plan, plan = PlanOf(source[r]),
           NEW i \in DOMAIN plan.activities, NEW k, <<plan.activities[i].id, k>> \in ranks
    PROVE  k = plan.loose[i].rank
<1>1. ~ \E x \in ranks : \E j \in DOMAIN plan.activities :
            plan.activities[j].id = x[1] /\ plan.loose[j].rank # x[2]
  BY DEF Reranked
<1>2. PICK id : id = plan.activities[i].id
  OBVIOUS
<1>3. PICK x : x = <<id, k>>
  OBVIOUS
<1>4. x \in ranks /\ x[1] = id /\ x[2] = k
  BY <1>2, <1>3
<1> QED
  BY <1>1, <1>2, <1>4

\* the rows are those expected, in their order if what was found is in order
RowsExpected(result, expected, found) ==
    /\ Len(result) = Len(expected) /\ Range(result) = Range(expected)
    /\ (\A i \in DOMAIN found : found[i].index = i - 1) => result = expected

(* What was found is compared with what was expected.                      *)
LEMMA RowsCompared ==
    ASSUME NEW l \in Nat, NEW found, DOMAIN found = 1 .. l, \A i \in 1 .. l : found[i].index \in Nat,
           NEW T, NEW expected \in [1 .. l -> T],
           \A i \in 1 .. l : Cells(Row(found[i].point, found[i].metrics)) = expected[i],
           NEW rows, rows = RowsOf(found),
           NEW result, result = [k \in DOMAIN rows |-> Cells(rows[k])]
    PROVE  RowsExpected(result, expected, found)
<1>1. /\ DOMAIN rows = 1 .. l
      /\ \A k \in 1 .. l : \E i \in 1 .. l : rows[k] = Row(found[i].point, found[i].metrics)
      /\ \A i \in 1 .. l : \E k \in 1 .. l : rows[k] = Row(found[i].point, found[i].metrics)
      /\ (\A i \in 1 .. l : found[i].index = i - 1)
            => \A k \in 1 .. l : rows[k] = Row(found[k].point, found[k].metrics)
  <2>1. RowsFor(rows, found, l)
    BY RowsInOrder
  <2> QED
    BY <2>1 DEF RowsFor
<1>2. DOMAIN result = 1 .. l /\ \A k \in 1 .. l : result[k] = Cells(rows[k])
  BY <1>1
<1>3. DOMAIN expected = 1 .. l /\ expected = [i \in 1 .. l |-> expected[i]]
  OBVIOUS
<1>4. \A k \in 1 .. l : \E i \in 1 .. l : result[k] = expected[i]
  BY <1>1, <1>2
<1>5. \A i \in 1 .. l : \E k \in 1 .. l : result[k] = expected[i]
  BY <1>1, <1>2
<1>6. Range(result) = Range(expected)
  <2>1. \A x : x \in Range(result) <=> \E k \in 1 .. l : x = result[k]
    BY <1>2, Zenon DEF Range
  <2>2. \A x : x \in Range(expected) <=> \E i \in 1 .. l : x = expected[i]
    BY <1>3, Zenon DEF Range
  <2>3. \A x : x \in Range(result) <=> x \in Range(expected)
    <3>1. ASSUME NEW x, x \in Range(result) PROVE x \in Range(expected)
      <4>1. PICK k \in 1 .. l : x = result[k]
        BY <2>1, <3>1
      <4>2. PICK i \in 1 .. l : result[k] = expected[i]
        BY <1>4
      <4>3. x = expected[i]
        BY <4>1, <4>2
      <4> QED
        BY <2>2, <4>3, Zenon
    <3>2. ASSUME NEW x, x \in Range(expected) PROVE x \in Range(result)
      <4>1. PICK i \in 1 .. l : x = expected[i]
        BY <2>2, <3>2
      <4>2. PICK k \in 1 .. l : result[k] = expected[i]
        BY <1>5
      <4>3. x = result[k]
        BY <4>1, <4>2
      <4> QED
        BY <2>1, <4>3, Zenon
    <3> QED
      BY <3>1, <3>2, Zenon
  <2> QED
    BY <2>3
<1>7. result = [k \in 1 .. l |-> result[k]]
  BY <1>1
<1>8. Len(result) = l /\ Len(expected) = l
  <2>1. \A f : f = [k \in 1 .. l |-> f[k]] => Len(f) = l
    <3>1. SUFFICES ASSUME NEW f, f = [k \in 1 .. l |-> f[k]] PROVE Len(f) = l
      OBVIOUS
    <3>2. f \in Seq({f[k] : k \in 1 .. l}) /\ DOMAIN f = 1 .. l
      BY <3>1
    <3> QED
      BY <3>2
  <2> QED
    BY <1>3, <1>7, <2>1
<1>9. (\A i \in 1 .. l : found[i].index = i - 1) => result = expected
  <2>1. SUFFICES ASSUME \A i \in 1 .. l : found[i].index = i - 1 PROVE result = expected
    OBVIOUS
  <2>2. \A k \in 1 .. l : result[k] = expected[k]
    BY <1>1, <1>2, <2>1
  <2> QED
    BY <1>3, <1>7, <2>2
<1> QED
  BY <1>6, <1>8, <1>9 DEF RowsExpected

\* an activity of a run whose entry is there, and not late
Entry(a, r) ==
    a \in Range(saved[r].activities) /\ a.id \in DOMAIN cache /\ a.id \notin late

(* All entries of a run that has succeeded are there.                      *)
LEMMA EndedEntries ==
    ASSUME ReplayInv, NEW r \in Runs, Ended(r)
    PROVE  \A a \in Range(saved[r].activities) : Entry(a, r)
<1>1. /\ at[r] = "succeeded" /\ Ids(PlanOf(source[r])) \cap late = {}
  BY DEF Ended
<1>2. PlanKept(r) /\ Ids(saved[r]) \subseteq DOMAIN cache
  BY <1>1 DEF ReplayInv, RunInv, Under
<1>3. Ids(saved[r]) \cap late = {}
  BY <1>1, <1>2, KeptIsPlanOf DEF Ids
<1>4. \A a \in Range(saved[r].activities) : a.id \in Ids(saved[r])
  BY DEF Ids, Column, Range
<1> QED
  BY <1>2, <1>3, <1>4 DEF Entry

(* A run that has succeeded has the rows of its points, as the manifest    *)
(* says, in sweep order unless some plan has ranked a point otherwise.     *)
LEMMA SucceededRows ==
    ASSUME ReplayInv, ContentInv, NEW r \in Runs, Ended(r)
    PROVE  LET expected == Table(source[r])
               result == Result(r)
           IN  /\ Len(result) = Len(expected) /\ Range(result) = Range(expected)
               /\ Reranked(r) \/ result = expected
<1>1. Under(r) /\ PlanKept(r) /\ \A a \in Range(saved[r].activities) : Entry(a, r)
  BY EndedEntries DEF Ended, ReplayInv, RunInv, Under
<1>2. PICK m, digests, by :
          Planned(m) /\ source[r] = [manifest |-> m, digests |-> digests, by |-> by]
  BY <1>1 DEF PlanKept
<1>3. PICK n, ps, plan, inputs, points :
          /\ n = Loaded(m) /\ ps = Points(n) /\ plan = Compile(n, digests, by)
          /\ inputs = Inputs(n, digests) /\ points = Combinations(n)
  OBVIOUS
<1>0. plan = PlanOf(source[r]) /\ plan.activities = saved[r].activities
  <2>1. PICK s : s = source[r]
    OBVIOUS
  <2>2. s.manifest = m /\ s.digests = digests /\ s.by = by
    BY <1>2, <2>1
  <2>3. PlanOf(s) = plan
    BY <1>3, <2>2 DEF PlanOf
  <2> QED
    BY <1>1, <2>1, <2>3, KeptIsPlanOf
<1>4. PICK chains, aggregate : PlanIs(plan, n, inputs, by, ps, chains, aggregate)
  BY <1>2, <1>3, CompileIs
<1>5. PICK l, acts : l = Len(ps) /\ acts = plan.activities
  OBVIOUS
<1>6. /\ l \in Nat \ {0} /\ DOMAIN acts = 1 .. 3 * l + 1 /\ Len(acts) = 3 * l + 1
      /\ \A i \in 1 .. l : IsChain(chains[i], n, ps[i], inputs, by)
      /\ IsAggregate(aggregate, n, [i \in 1 .. l |-> chains[i][3].id])
      /\ \A i \in 1 .. l, k \in 1 .. 3 : acts[3 * (i-1) + k] = chains[i][k]
      /\ acts[3 * l + 1] = aggregate
      /\ \A i \in 1 .. l, k \in 1 .. 3 : plan.loose[3 * (i-1) + k] = LooseChain(n, ps[i], inputs)[k]
  BY <1>4, <1>5, Zenon DEF PlanIs
<1>7. \A i \in 1 .. l, k \in 1 .. 3 : Entry(chains[i][k], r)
  <2>1. SUFFICES ASSUME NEW i \in 1 .. l, NEW k \in 1 .. 3 PROVE chains[i][k] \in Range(acts)
    BY <1>0, <1>1, <1>5
  <2>2. 3 * (i-1) + k \in 1 .. 3 * l + 1
    BY <1>6
  <2> QED
    BY <1>6, <2>2 DEF Range
<1>8. aggregate \in Range(acts) /\ Entry(aggregate, r) /\ Last(acts) = aggregate
  <2>1. 3 * l + 1 \in DOMAIN acts
    BY <1>6
  <2>2. aggregate \in Range(acts)
    BY <1>6, <2>1 DEF Range
  <2> QED
    BY <1>0, <1>1, <1>5, <1>6, <2>2 DEF Last
<1>9. /\ DOMAIN points = 1 .. l /\ DOMAIN ps = 1 .. l
      /\ \A i \in 1 .. l : ps[i].index = i - 1 /\ ps[i].values = points[i] /\ ps[i] \in Range(ps)
  <2>1. ps = [i \in DOMAIN points |-> [index |-> i - 1, values |-> points[i]]]
    BY <1>3 DEF Points
  <2>2. DOMAIN ps = 1 .. l
    BY <1>2, <1>3, <1>5, PointsAre
  <2> QED
    BY <2>1, <2>2 DEF Range
<1>10. PICK extracts, found : extracts = [i \in 1 .. l |-> chains[i][3].id] /\ found = FoundBy(extracts)
  OBVIOUS
<1>11. DOMAIN found = 1 .. l /\ \A i \in 1 .. l : found[i] = cache[chains[i][3].id].content
  BY <1>10 DEF FoundBy
<1>12. ASSUME NEW i \in 1 .. l
       PROVE  RowFound(found[i], n, digests, by, ps[i], chains[i][3].id)
  <2>1. PICK a, b, c, p : a = chains[i][1] /\ b = chains[i][2] /\ c = chains[i][3] /\ p = ps[i]
    OBVIOUS
  <2>2. IsRender(a, n, p, inputs) /\ IsSimulate(b, n, p, a.id, by) /\ IsExtract(c, n, p, b.id)
    BY <1>6, <2>1 DEF IsChain
  <2>3. Entry(a, r) /\ Entry(b, r) /\ Entry(c, r)
    BY <1>7, <2>1
  <2>4. p \in Range(Points(n))
    BY <1>3, <1>9, <2>1
  <2>5. RowFound(cache[c.id].content, n, digests, by, p, c.id)
    BY <1>2, <1>3, <2>2, <2>3, <2>4, PointHeld DEF Entry
  <2> QED
    BY <1>11, <2>1, <2>5
<1>13. PICK expected : expected = Table(source[r])
  OBVIOUS
<1>14. expected = [i \in 1 .. l |->
                    CellsOf(points[i], n.measures, SimulatedOf(n, digests, by, points[i]))]
  <2>1. PICK s : s = source[r]
    OBVIOUS
  <2>2. expected = [i \in DOMAIN points |->
                      CellsOf(points[i], n.measures, SimulatedOf(n, digests, by, points[i]))]
    BY <1>2, <1>3, <1>13, <2>1, TableIs
  <2> QED
    BY <1>9, <2>2
<1>15. \A i \in 1 .. l : /\ Cells(Row(found[i].point, found[i].metrics)) = expected[i]
                         /\ found[i].index \in Nat
  BY <1>9, <1>12, <1>14 DEF RowFound
<1>16. PICK rows : rows = RowsOf(found)
  OBVIOUS
<1>17. PICK result : result = Result(r)
  OBVIOUS
<1>18. result = [k \in DOMAIN rows |-> Cells(rows[k])]
  <2>1. PICK g : g = Aggregate(PlanOf(source[r]))
    OBVIOUS
  <2>2. g = aggregate
    BY <1>0, <1>5, <1>8, <2>1 DEF Aggregate
  <2>3. IsAggregate(g, n, extracts) /\ g.id \in DOMAIN cache
    BY <1>6, <1>8, <1>10, <2>2 DEF Entry
  <2>4. cache[g.id].content.rows = rows
    BY <1>10, <1>16, <2>3, AggregateHeld
  <2>5. Result(r) = [k \in DOMAIN cache[g.id].content.rows |-> Cells(cache[g.id].content.rows[k])]
    BY <2>1 DEF Result, Cells
  <2> QED
    BY <1>17, <2>4, <2>5
<1>19. RowsExpected(result, expected, found)
  <2>1. expected \in [1 .. l -> {expected[i] : i \in 1 .. l}]
    BY <1>14
  <2> QED
    BY <1>6, <1>11, <1>15, <1>16, <1>18, <2>1, RowsCompared
<1>20. Reranked(r) \/ \A i \in DOMAIN found : found[i].index = i - 1
  <2>1. SUFFICES ASSUME ~Reranked(r), NEW i \in 1 .. l PROVE found[i].index = i - 1
    BY <1>11
  <2>2. PICK k : k = found[i].index
    OBVIOUS
  <2>3. <<chains[i][3].id, k>> \in ranks
    BY <1>12, <2>2 DEF RowFound
  <2>4. PICK j : j = 3 * (i-1) + 3
    OBVIOUS
  <2>5. j \in DOMAIN acts /\ acts[j] = chains[i][3] /\ plan.loose[j] = LooseChain(n, ps[i], inputs)[3]
    <3>1. 3 * (i-1) + 3 \in 1 .. 3 * l + 1
      BY <1>6
    <3> QED
      BY <1>6, <2>4, <3>1
  <2>6. plan.loose[j].rank = ps[i].index
    <3>1. PICK p, c : p = ps[i] /\ c = LooseChain(n, p, inputs)
      OBVIOUS
    <3>2. c[3].rank = p.index
      BY <1>2, <1>3, <3>1, LooseDecodes
    <3> QED
      BY <2>5, <3>1, <3>2
  <2>7. k = plan.loose[j].rank
    BY <1>0, <1>5, <2>1, <2>3, <2>5, RankIsOwn
  <2> QED
    BY <1>9, <2>2, <2>6, <2>7
<1> QED
  BY <1>13, <1>17, <1>19, <1>20 DEF RowsExpected

(* A run that succeeds has one row for every point of its sweep, with the  *)
(* point and every metric, computed from the files and by the simulator it *)
(* was planned with, whatever other runs left in the cache and whatever    *)
(* was edited, replaced, altered or interrupted on the way; the rows are   *)
(* in sweep order unless another plan, or this one altered, ranks a point  *)
(* otherwise.  Excepted are runs with an activity in late: an input that   *)
(* changes between its comparison and its use, an Xyce that is replaced    *)
(* for the time it runs, an ngspice that is replaced after planning.       *)
THEOREM RowsArePlanned == PlanSpec => []RowsAreThePlans
<1>1. ReplayInv /\ ContentInv => RowsAreThePlans
  BY SucceededRows DEF RowsAreThePlans
<1> QED
  BY <1>1, ReplayInvariance, ContentInvariance, PTL
=============================================================================
