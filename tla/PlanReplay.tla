------------------------------ MODULE PlanReplay ------------------------------
(***************************************************************************)
(* Runs of manifests over one store, side by side and one after another:   *)
(* each is planned (PlanGraph), saved, executed activity by activity with  *)
(* what the cache holds (executor.py, store.py), stopped, and resumed from *)
(* its saved plan, while inputs are edited, the simulator is replaced and  *)
(* a saved plan is damaged.                                                *)
(*                                                                         *)
(* A run executes one activity at a time, the first in plan order that is  *)
(* ready: jobs and fail_fast are Scheduler's subject, and how an entry     *)
(* gets into the cache is Collection's.                                    *)
(***************************************************************************)
EXTENDS PlanGraph

CONSTANTS
    Runs,
    Manifests,    \* each run to what it may be started with
    Text,         \* each file to the text it has at first
    Placeholders, \* each text, as a deck, to the (casefolded) parameters it names
    MaxEvents,    \* bound on edits, replacements, resumptions and failures that
                  \* nothing in the model brings about
    MaxSpot,      \* bound on the place in a plan of what no id covers and is altered
    Elsewhere     \* the files that an altered path may name

ASSUME ReplayAssumption == /\ MaxEvents \in Nat /\ DOMAIN Text = Files /\ Elsewhere \subseteq Files
                           /\ \A r \in Runs : \A m \in Manifests[r] : IsManifest(m)

VARIABLES
    contents,  \* each file to <<text, version>>
    installed, \* the version of the simulators that are not SimCairn's own
    source,    \* each run to what it was planned from, or None
    saved,     \* each run's plan.json
    at,        \* the label of each run
    counted,   \* ids it counts as cached or succeeded
    lost,      \* ids it counts as failed or skipped
    box,       \* what the activity at hand has computed
    cache,     \* ids to [whole, content]: whole if its manifest.json decodes
    late,      \* history: ids whose input or tool was not what had been compared
    ranks,     \* history: the ids of extracts with the ranks that plans gave them
    events

planVars == <<contents, installed, source, saved, at, counted, lost, box, cache, late, ranks,
              events>>
files == <<contents, installed>>

RunLabels == {"new", "rejected", "idle", "compared", "computed", "refused", "damaged",
              "succeeded", "failed"}

PlanInit ==
    /\ contents = [f \in Files |-> <<Text[f], 0>>] /\ installed = 0
    /\ source = [r \in Runs |-> None] /\ saved = [r \in Runs |-> None]
    /\ at = [r \in Runs |-> "new"]
    /\ counted = [r \in Runs |-> {}] /\ lost = [r \in Runs |-> {}]
    /\ box = [r \in Runs |-> None]
    /\ cache = <<>> /\ late = {} /\ ranks = {} /\ events = 0

\* mutant: an entry is as good as its being there
VerifiedByPresence(id) == id \in DOMAIN cache

\* store.verify: an entry is as good as the decoding of the activity in it
Verified(id) == id \in DOMAIN cache /\ cache[id].whole

PlanOf(s) == Compile(Loaded(s.manifest), s.digests, s.by)
Ids(plan) == Range(Column(plan.activities, "id"))
Aggregate(plan) == Last(plan.activities)

(***************************************************************************)
(* What an activity computes in its sandbox                                *)
(***************************************************************************)
\* the metrics of a simulated deck: which simulator ran it, and on what
Content(a) == cache[a.deps[1]].content

\* the deck and its copies; the parameters replace placeholders casefolded
Render(a, l) ==
    [params |-> [p \in {Fold(name) : name \in DOMAIN a.payload.point} |->
                    a.payload.point[CHOOSE name \in DOMAIN a.payload.point : Fold(name) = p]],
     files  |-> [i \in DOMAIN a.inputs |-> contents[l.paths[i]]]]

Renders(a, l) == Placeholders[contents[l.template][1]] = {Fold(name) : name \in DOMAIN a.payload.point}

Simulate(a) == [deck |-> Content(a), by |-> Identity(a.payload.adapter, installed)]

Extract(a, l) ==
    [index |-> l.rank, point |-> a.payload.point,
     metrics |-> [name \in Range(Column(a.payload.measures, "name")) |->
        LET x == CHOOSE x \in Range(a.payload.measures) : x.name = name
        IN  [source |-> x.source, field |-> x.field, of |-> Content(a)]]]

\* a row of the table: the metrics written over the point, {**point, **metrics}
Row(point, metrics) ==
    [name \in DOMAIN point \cup DOMAIN metrics |->
        IF name \in DOMAIN metrics THEN metrics[name] ELSE point[name]]

\* the rows in the order of the ranks that the extracts carry, equal ranks in
\* the order of the dependencies
AggregateRows(a) ==
    LET found == [i \in DOMAIN a.deps |-> cache[a.deps[i]].content]
        Before(i, j) == found[i].index < found[j].index \/ (found[i].index = found[j].index /\ i < j)
        rank == [i \in DOMAIN found |-> 1 + Cardinality({j \in DOMAIN found : Before(j, i)})]
    IN  [k \in DOMAIN found |->
            LET i == CHOOSE i \in DOMAIN found : rank[i] = k IN Row(found[i].point, found[i].metrics)]

Compute(a, l) == CASE a.kind = "render"    -> Render(a, l)
                   [] a.kind = "simulate"  -> Simulate(a)
                   [] a.kind = "extract"   -> Extract(a, l)
                   [] a.kind = "aggregate" -> [rows |-> AggregateRows(a)]

(***************************************************************************)
(* A run                                                                   *)
(***************************************************************************)
Event == events < MaxEvents /\ events' = events + 1

Pending(r) == {i \in DOMAIN saved[r].activities :
                saved[r].activities[i].id \notin counted[r] \cup lost[r]}
Turn(r) == CHOOSE i \in Pending(r) : \A j \in Pending(r) : i <= j
AtHand(r) == saved[r].activities[Turn(r)]
Beside(r) == saved[r].loose[Turn(r)]

\* the ranks that a plan gives to its extracts
Ranked(plan) == {<<plan.activities[i].id, plan.loose[i].rank>> :
                    i \in {i \in DOMAIN plan.activities : plan.activities[i].kind = "extract"}}

\* execute_plan counts what verifies as cached before anything starts
Start(r, plan) ==
    /\ saved' = [saved EXCEPT ![r] = plan]
    /\ at' = [at EXCEPT ![r] = "idle"]
    /\ counted' = [counted EXCEPT ![r] = {id \in Ids(plan) : Verified(id)}]
    /\ lost' = [lost EXCEPT ![r] = {}]
    /\ ranks' = ranks \cup Ranked(plan)

\* load_manifest, compile_plan, create_run
Submit(r, m) ==
    /\ at[r] = "new"
    /\ IF Accepted(m) /\ Plannable(Loaded(m))
       THEN LET plan == Compile(Loaded(m), contents, installed)
            IN  /\ source' = [source EXCEPT ![r] = [manifest |-> m, digests |-> contents,
                                                    by |-> installed]]
                /\ Start(r, plan)
       ELSE at' = [at EXCEPT ![r] = "rejected"] /\ UNCHANGED <<source, saved, counted, lost, ranks>>
    /\ UNCHANGED <<files, box, cache, late, events>>

\* outcomes: an activity whose dependency failed is skipped
Fails(r) ==
    /\ lost' = [lost EXCEPT ![r] = @ \cup {AtHand(r).id}]
    /\ at' = [at EXCEPT ![r] = "idle"]
    /\ box' = [box EXCEPT ![r] = None]
    /\ UNCHANGED <<files, source, saved, counted, cache, late, ranks>>
MustFail(r) == Fails(r) /\ UNCHANGED events
MayFail(r)  == Fails(r) /\ Event

Skip(r) ==
    /\ at[r] = "idle" /\ Pending(r) # {}
    /\ Range(AtHand(r).deps) \cap lost[r] # {}
    /\ MustFail(r)

Runnable(r) == at[r] = "idle" /\ Pending(r) # {} /\ Range(AtHand(r).deps) \cap lost[r] = {}

\* what the scheduler compares before it executes anything
Granted(r) == \A name \in DOMAIN Beside(r).resources :
                /\ name \in DOMAIN saved[r].limits
                /\ Beside(r).resources[name] <= saved[r].limits[name]

\* what execute compares before it uses anything: the entries it
\* materializes, the digests of a render, the identity of Xyce
Agrees(a, l) ==
    /\ \A d \in Range(a.deps) : Verified(d)
    /\ \A i \in DOMAIN a.inputs : contents[l.paths[i]] = a.inputs[i].sha
    /\ a.kind = "simulate" /\ a.payload.adapter = "xyce"
         => a.identity.adapter = Identity("xyce", installed)

Admitted(r) == Granted(r) /\ Agrees(AtHand(r), Beside(r))

Compare(r) ==
    /\ Runnable(r) /\ Admitted(r) /\ AtHand(r).kind \in {"render", "simulate"}
    /\ at' = [at EXCEPT ![r] = "compared"]
    /\ UNCHANGED <<files, source, saved, counted, lost, box, cache, late, ranks, events>>
Disagree(r) == Runnable(r) /\ ~Admitted(r) /\ MustFail(r)

\* the files are opened again, the simulator is found again
Work(r) ==
    /\ at[r] = "compared"
    /\ AtHand(r).kind = "render" => Renders(AtHand(r), Beside(r))
    /\ box' = [box EXCEPT ![r] = Compute(AtHand(r), Beside(r))]
    /\ at' = [at EXCEPT ![r] = "computed"]
    /\ late' = IF /\ AtHand(r).kind = "simulate" /\ AtHand(r).payload.adapter = "ngspice"
                  /\ AtHand(r).identity.adapter # Identity("ngspice", installed)
               THEN late \cup {AtHand(r).id} ELSE late
    /\ UNCHANGED <<files, source, saved, counted, lost, cache, ranks, events>>
\* a placeholder too many or too few, a file that cannot be read or written;
\* a simulator that fails or takes too long
WorkFails(r) ==
    /\ at[r] = "compared"
    /\ IF AtHand(r).kind = "render" /\ ~Renders(AtHand(r), Beside(r)) THEN MustFail(r) ELSE MayFail(r)

\* the identity of Xyce after it ran
SameTool(a) == a.kind = "simulate" /\ a.payload.adapter = "xyce"
                 => a.identity.adapter = Identity("xyce", installed)

\* store.publish: a valid entry stays, anything else under the id is replaced
Enter(r, a, l, content) ==
    /\ cache' = IF Verified(a.id) THEN cache
                ELSE [id \in DOMAIN cache \cup {a.id} |->
                        IF id = a.id THEN [whole |-> ActivityDecodes(a, l), content |-> content]
                                     ELSE cache[id]]
    /\ counted' = [counted EXCEPT ![r] = @ \cup {a.id}]
    /\ at' = [at EXCEPT ![r] = "idle"]
    /\ box' = [box EXCEPT ![r] = None]
    /\ UNCHANGED <<files, source, saved, lost, late, ranks, events>>

Publish(r) == at[r] = "computed" /\ SameTool(AtHand(r)) /\ Enter(r, AtHand(r), Beside(r), box[r])
\* another Xyce than was planned with, an entry that cannot be written
PublishFails(r) == /\ at[r] = "computed"
                   /\ IF SameTool(AtHand(r)) THEN MayFail(r) ELSE MustFail(r)

\* extract and aggregate use nothing but the entries they materialize
Derive(r) ==
    /\ Runnable(r) /\ Admitted(r) /\ AtHand(r).kind \in {"extract", "aggregate"}
    /\ Enter(r, AtHand(r), Beside(r), Compute(AtHand(r), Beside(r)))
\* a measure that is not in its source or is no number, or as above
DeriveFails(r) == /\ Runnable(r) /\ Admitted(r) /\ AtHand(r).kind \in {"extract", "aggregate"}
                  /\ MayFail(r)

Close(r) ==
    /\ at[r] = "idle" /\ Pending(r) = {}
    /\ at' = [at EXCEPT ![r] = IF lost[r] = {} THEN "succeeded" ELSE "failed"]
    /\ UNCHANGED <<files, source, saved, counted, lost, box, cache, late, ranks, events>>

(***************************************************************************)
(* Around it                                                               *)
(***************************************************************************)
\* two of a sequence change places; one takes a field of another of its kind
Swapped(s, i) == [s EXCEPT ![i] = s[i + 1], ![i + 1] = s[i]]
Alike(acts) == {ij \in (DOMAIN acts) \X (DOMAIN acts) : acts[ij[1]].kind = acts[ij[2]].kind}
Taking(a, field, b) == [a EXCEPT ![field] = b[field]]
Mixed(acts) == {[acts EXCEPT ![ij[1]] = Taking(acts[ij[1]], field, acts[ij[2]])] :
                    field \in {"payload", "point", "deps", "inputs", "id"}, ij \in Alike(acts)}

\* of what no id covers each field, and those together that are compared
Reranking(l, k) ==
    IF l.index = None THEN {}
    ELSE {[l EXCEPT !.index = k]}
         \cup (IF l.rank = None THEN {} ELSE {[l EXCEPT !.rank = k], [l EXCEPT !.rank = k, !.index = k]})
Moving(a, l, paths) ==
    {[l EXCEPT !.paths = paths],
     [l EXCEPT !.template = paths[1]], [l EXCEPT !.paths = paths, !.template = paths[1]],
     [l EXCEPT !.copies = Copies(a.inputs, paths)],
     [l EXCEPT !.paths = paths, !.copies = Copies(a.inputs, paths)]}
Loosened(a, l, unused) ==
    {[l EXCEPT !.timeout = 0], [l EXCEPT !.timeout = 2 * @],
     [l EXCEPT !.resources = [licence |-> 0]], [l EXCEPT !.resources = [licence |-> 1]]}
    \cup (UNION {Reranking(l, k) : k \in {0, unused}})
    \cup (UNION {Moving(a, l, [l.paths EXCEPT ![i] = f]) : i \in DOMAIN l.paths, f \in Elsewhere})

\* one thing in plan.json is not what was written
Altered(plan) ==
    LET acts == plan.activities
    IN  {[plan EXCEPT !.jobs = @ + 1], [plan EXCEPT !.failFast = ~@], [plan EXCEPT !.path = "elsewhere"],
         [plan EXCEPT !.activities = Tail(@), !.loose = Tail(@)],
         [plan EXCEPT !.activities = Front(@), !.loose = Front(@)]}
        \cup {[plan EXCEPT !.activities = Swapped(@, i), !.loose = Swapped(@, i)] : i \in 1 .. Len(acts) - 1}
        \cup {[plan EXCEPT !.activities = other] : other \in Mixed(acts)}
        \cup UNION {{[plan EXCEPT !.loose[i] = l] : l \in Loosened(acts[i], plan.loose[i], Len(acts))}
                     : i \in DOMAIN acts \cap 1 .. MaxSpot}

\* The process of the run ends, at any moment, and Runner.resume loads its
\* plan.json, then goes on as from the beginning.  An altered file is tried on
\* ended runs only: decoding asks nothing else
Reload(r) ==
    /\ Event /\ at[r] \in {"idle", "compared", "computed", "succeeded", "failed"}
    /\ \E plan \in {saved[r]} \cup (IF at[r] \in {"succeeded", "failed"} THEN Altered(saved[r]) ELSE {}) :
        IF PlanDecodes(plan) THEN Start(r, plan)
        ELSE /\ at' = [at EXCEPT ![r] = IF plan = saved[r] THEN "refused" ELSE "damaged"]
             /\ UNCHANGED <<saved, counted, lost, ranks>>
    /\ box' = [box EXCEPT ![r] = None]
    /\ UNCHANGED <<files, source, cache, late>>

\* the activities that some run has at hand, at that label
Busy(label) == {r \in Runs : at[r] = label}

\* a file is edited, at most once and after it was planned with
Edit(f) ==
    /\ Event /\ contents[f] = <<Text[f], 0>>
    /\ \E r \in Runs : source[r] # None
                     /\ f \in {source[r].manifest.deck} \cup Range(source[r].manifest.inputs)
    /\ contents' = [contents EXCEPT ![f] = <<Text[f], 1>>]
    /\ late' = late \cup {AtHand(r).id : r \in {r \in Busy("compared") :
                    \E i \in DOMAIN AtHand(r).inputs : Beside(r).paths[i] = f}}
    /\ UNCHANGED <<installed, source, saved, at, counted, lost, box, cache, ranks>>

\* another version of the simulators is there now: perhaps the one that an
\* activity was planned with, after another has run it
Installed(version) ==
    /\ installed' = version
    /\ late' = late \cup {AtHand(r).id : r \in {r \in Busy("computed") :
                  /\ AtHand(r).kind = "simulate" /\ AtHand(r).payload.adapter = "xyce"
                  /\ AtHand(r).identity.adapter = Identity("xyce", version)
                  /\ box[r].by # AtHand(r).identity.adapter}}
    /\ UNCHANGED <<contents, source, saved, at, counted, lost, box, cache, ranks>>

\* a simulator that was planned with is replaced; what was there is put back
Replace ==
    /\ Event /\ installed = 0
    /\ \E r \in Runs : source[r] # None /\ source[r].manifest.adapter # "mock-rc"
    /\ Installed(1)
PutBack == installed = 1 /\ Installed(0) /\ UNCHANGED events

Step(r) == \/ Skip(r) \/ Compare(r) \/ Disagree(r) \/ Work(r) \/ WorkFails(r)
           \/ Publish(r) \/ PublishFails(r) \/ Derive(r) \/ DeriveFails(r) \/ Close(r) \/ Reload(r)
           \/ \E m \in Manifests[r] : Submit(r, m)

PlanNext == (\E r \in Runs : Step(r)) \/ (\E f \in Files : Edit(f)) \/ Replace \/ PutBack

PlanSpec == PlanInit /\ [][PlanNext]_planVars

(***************************************************************************)
(* Properties                                                              *)
(***************************************************************************)
\* what the manifest of a run says its table holds, the points in sweep order
Table(s) ==
    LET n == Loaded(s.manifest)
        points == Combinations(n)
        Deck(values) == [params |-> [p \in {Fold(v[1]) : v \in Range(values)} |->
                                        (CHOOSE v \in Range(values) : Fold(v[1]) = p)[2]],
                         files |-> [i \in 1 .. 1 + Len(n.inputs) |->
                                        s.digests[IF i = 1 THEN n.deck ELSE n.inputs[i - 1]]]]
        Metric(x, values) == [source |-> x.source, field |-> x.field,
                              of |-> [deck |-> Deck(values), by |-> Identity(n.adapter, s.by)]]
    IN  [i \in DOMAIN points |->
            {<<v[1], v[2]>> : v \in Range(points[i])}
            \cup {<<x.name, Metric(x, points[i])>> : x \in Range(n.measures)}]

\* the table a run has written
Result(r) == LET rows == cache[Aggregate(PlanOf(source[r])).id].content.rows
             IN  [i \in DOMAIN rows |-> {<<name, rows[i][name]>> : name \in DOMAIN rows[i]}]

Ended(r) == at[r] = "succeeded" /\ Ids(PlanOf(source[r])) \cap late = {}

\* some plan has ranked a point of this run otherwise
Reranked(r) ==
    LET plan == PlanOf(source[r])
    IN  \E x \in ranks : \E i \in DOMAIN plan.activities :
            plan.activities[i].id = x[1] /\ plan.loose[i].rank # x[2]

\* A run that succeeds has one row for every point of its sweep, with the
\* point and every metric, computed from the files and by the simulator it
\* was planned with, whatever other runs left in the cache and whatever was
\* edited, replaced, altered or interrupted on the way; the rows are in sweep
\* order unless another plan, or this one altered, ranks a point otherwise.
\* Excepted are the activities in late: an input that changes between its
\* comparison and its use, an Xyce that is replaced for the time it runs, and
\* an ngspice that is replaced after planning, which nothing compares again.
RowsAreThePlans ==
    \A r \in Runs : Ended(r) =>
        LET expected == Table(source[r])
            result == Result(r)
        IN  /\ Len(result) = Len(expected) /\ Range(result) = Range(expected)
            /\ Reranked(r) \/ result = expected

Resumable == {"idle", "compared", "computed", "succeeded", "failed"}

\* What a run executes is what was compiled for it, whatever was altered in
\* its plan.json: the activities in their order, with all that their ids cover
\* and their payloads repeat, jobs, limits and fail_fast.  Decoding lets pass
\* the manifest's path, ranks, resources, time-outs and where the inputs lie;
\* but the files that are read are still those that are digested, and an
\* extract has the rank of its point.
ResumedWorkIsThePlans ==
    \A r \in Runs : at[r] \in Resumable =>
        LET plan == PlanOf(source[r])
        IN  /\ \A field \in DOMAIN plan \ {"loose", "path"} : saved[r][field] = plan[field]
            /\ \A i \in DOMAIN plan.activities :
                 LET a == plan.activities[i]
                     l == saved[r].loose[i]
                 IN  /\ a.kind = "render" => /\ l.template = l.paths[1]
                                             /\ l.copies = Copies(a.inputs, l.paths)
                     /\ a.kind = "extract" => l.rank = l.index

\* manifests whose activities cannot be decoded though they can be planned
Ambiguous(m) ==
    \/ ~FoldDistinct(Column(Loaded(m).measures, "field"))
    \/ ~FoldDistinct(Append(m.inputs, Template))
    \/ Range(m.inputs) \cap Unsafe # {}

\* A saved plan that nobody touched is refused only for such a manifest, and
\* a run of such a manifest never succeeds, since no entry it publishes
\* verifies: what can succeed can be resumed, collected and reused.
PlansReplay ==
    \A r \in Runs :
        /\ at[r] = "refused" => Ambiguous(source[r].manifest)
        /\ at[r] = "succeeded" => ~Ambiguous(source[r].manifest)

\* "Aggregation restores sweep point order" (docs/architecture.md:68): the
\* rows of a run are those of its points, in their order.
RowOrder ==
    \A r \in Runs : Ended(r) =>
        LET expected == Table(source[r]) IN
        Range(Result(r)) = Range(expected) => Result(r) = expected
=============================================================================
