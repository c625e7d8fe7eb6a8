------------------------------ MODULE PlanGraph ------------------------------
(***************************************************************************)
(* From a manifest to a plan and back: load_manifest (manifest.py),        *)
(* expand_sweep (sweeps.py), compile_plan (planner.py) and the decoding of *)
(* what was saved, Plan.from_dict and Activity.from_dict (model.py).       *)
(*                                                                         *)
(* A manifest is the TOML document after tomllib: values of a wrong type   *)
(* or spelling are left out, the checks between fields are all here.  A    *)
(* SHA-256 of canonical JSON is the value it is taken of.                  *)
(***************************************************************************)
EXTENDS Integers, SequencesExt

CONSTANTS
    Files,     \* the regular files inside the manifest's directory
    Unsafe,    \* those whose logical name holds a backslash
    Casefold,  \* each name that is not its own casefolded form to that form
    Canonical, \* each value a sweep may list to its text
    None

Fold(name) == IF name \in DOMAIN Casefold THEN Casefold[name] ELSE name
FoldDistinct(names) == IsInjective([i \in DOMAIN names |-> Fold(names[i])])
Column(rows, field) == [i \in DOMAIN rows |-> rows[i][field]]
Fingerprint(value) == value

(***************************************************************************)
(* The manifest                                                            *)
(***************************************************************************)
Analyses == {"tran", "dc", "ac", "noise"}

\* where a manifest lies and its tables, flattened, with values and resource
\* limits of any names
Manifest(values, limited) ==
    [path : STRING, timeout : Int,
     adapter : STRING, executable : STRING \cup {None}, analysis : STRING \cup {None},
     deck : STRING, inputs : Seq(STRING), mode : STRING,
     params : Seq([name : STRING, values : Seq(values)]), jobs : Int,
     limits : [limited -> Int], failFast : BOOLEAN,
     measures : Seq([name : STRING, source : STRING, field : STRING \cup {None}])]

IsManifest(m) == LET values == UNION {Range(m.params[i].values) : i \in DOMAIN m.params}
                 IN  m \in Manifest(values, DOMAIN m.limits)

SimulatorAccepted(m) ==
    /\ m.adapter \in {"mock-rc", "ngspice", "xyce"}
    /\ IF m.adapter = "xyce" THEN m.analysis \in Analyses ELSE m.analysis = None

TemplateAccepted(m) ==
    /\ {m.deck} \cup Range(m.inputs) \subseteq Files
    /\ IsInjective(m.inputs)

Texts(values) == [i \in DOMAIN values |-> Canonical[values[i]]]

SweepAccepted(m) ==
    /\ m.mode \in {"product", "zip"}
    /\ m.params # <<>>
    /\ FoldDistinct(Column(m.params, "name"))
    /\ \A p \in Range(m.params) :
        /\ p.values # <<>> /\ Range(p.values) \subseteq DOMAIN Canonical
        /\ m.mode # "zip" => IsInjective(Texts(p.values))

\* _MAX_TIMEOUT_SECONDS
Year == 31536000

RunAccepted(m) == /\ m.timeout > 0 /\ m.timeout <= Year /\ m.jobs > 0
                  /\ \A name \in DOMAIN m.limits : m.limits[name] > 0

MeasuresAccepted(m) ==
    LET names == Column(m.measures, "name")
    IN  /\ m.measures # <<>>
        /\ FoldDistinct(names)
        /\ \A i \in DOMAIN names, p \in Range(m.params) : Fold(names[i]) # Fold(p.name)
        /\ \A x \in Range(m.measures) : x.source \notin Unsafe

Accepted(m) == /\ SimulatorAccepted(m) /\ TemplateAccepted(m) /\ SweepAccepted(m)
               /\ RunAccepted(m) /\ MeasuresAccepted(m)

Executable(m) == CASE m.executable # None     -> m.executable
                   [] m.adapter = "ngspice"   -> "ngspice"
                   [] m.adapter = "xyce"      -> "Xyce"
                   [] OTHER                   -> None

\* what load_manifest returns: texts for values, defaults for what is absent
Loaded(m) ==
    [m EXCEPT
        !.executable = Executable(m),
        !.params = [i \in DOMAIN m.params |->
                        [m.params[i] EXCEPT !.values = Texts(m.params[i].values)]],
        !.measures = [i \in DOMAIN m.measures |->
                        LET x == m.measures[i]
                        IN  [x EXCEPT !.field = IF x.field = None THEN x.name ELSE x.field]]]

(***************************************************************************)
(* The sweep                                                               *)
(***************************************************************************)
\* how many combinations the parameters after the j-th have
Stride(params) ==
    LET after[j \in 0 .. Len(params)] ==
            IF j = Len(params) THEN 1 ELSE after[j + 1] * Len(params[j + 1].values)
    IN  after

Combinations(n) ==
    LET ps == n.params
        width == Stride(ps)
        Pick(i, j) == IF n.mode = "zip" THEN i ELSE (i \div width[j]) % Len(ps[j].values)
    IN  [i \in 1 .. (IF n.mode = "zip" THEN Len(ps[1].values) ELSE width[0]) |->
            [j \in DOMAIN ps |-> <<ps[j].name, ps[j].values[Pick(i - 1, j) + 1]>>]]

Expandable(n) ==
    /\ n.mode = "zip" => \A p \in Range(n.params) : Len(p.values) = Len(n.params[1].values)
    /\ IsInjective(Combinations(n))

Settings == Seq(STRING \X Range(Canonical))
Point == [index : Nat, values : Settings]
ASSUME NoneAssumption == None \notin Settings

Points(n) == LET all == Combinations(n)
             IN  [i \in DOMAIN all |-> [index |-> i - 1, values |-> all[i]]]

\* dict(point.values)
Dict(values) == [name \in {v[1] : v \in Range(values)} |->
                    (CHOOSE v \in Range(values) : v[1] = name)[2]]

(***************************************************************************)
(* The plan.  digests are the contents of the files and installed the      *)
(* identity of the simulator, both read while planning.                    *)
(***************************************************************************)
Template == "__template__"
Reserved == {"deck.sp", "point.json", "stdout.log", "stderr.log", "metrics.json"}
Plannable(n) == Expandable(n) /\ \A f \in Range(n.inputs) : Fold(f) \notin Reserved

Paths(n) == <<n.deck>> \o n.inputs
Inputs(n, digests) ==
    LET Digest(file, logical) == [logical |-> logical, sha |-> digests[file]]
    IN  <<Digest(n.deck, Template)>> \o [i \in DOMAIN n.inputs |-> Digest(n.inputs[i], n.inputs[i])]

\* every input but the template, in order
Copies(inputs, paths) ==
    LET copied[i \in 0 .. Len(inputs)] ==
            IF i = 0 THEN <<>>
            ELSE IF inputs[i].logical = Template THEN copied[i - 1]
            ELSE Append(copied[i - 1], [path |-> paths[i], logical |-> inputs[i].logical])
    IN  copied[Len(inputs)]

\* the simulator of mock-rc is SimCairn itself
Identity(adapter, installed) ==
    <<adapter, IF adapter = "mock-rc" THEN None ELSE installed>>

Produces(adapter) ==
    <<"metrics.json", "stdout.log", "stderr.log">> \o
    CASE adapter = "mock-rc" -> <<>>
      [] adapter = "ngspice" -> <<"ngspice_output.log">>
      [] adapter = "xyce"    -> <<"xyce.log", "measure.out">>

\* names that SimCairn gives: in small letters, without a backslash
Given == Reserved \cup {Template, "ngspice_output.log", "xyce.log", "measure.out", "extracted.json",
                       "results.json", "results.csv", "regression-bundle.json"}
ASSUME GivenAssumption == Given \cap DOMAIN Casefold = {} /\ Template \notin Unsafe

\* mutant: the id covers the names of the inputs and not their contents
ActivityIdByName(a) ==
    Fingerprint([kind |-> a.kind, point |-> a.point, deps |-> a.deps, artifacts |-> a.artifacts,
                 identity |-> a.identity, inputs |-> Column(a.inputs, "logical")])

\* what an activity computes
ActivityId(a) ==
    Fingerprint([kind |-> a.kind, point |-> a.point, deps |-> a.deps, artifacts |-> a.artifacts,
                 identity |-> a.identity, inputs |-> a.inputs])

\* An activity in two halves.  This one: its id, what the id covers (of its
\* point the values, of its inputs names and contents) and what the payload
\* repeats of that
Activity(kind, point, deps, inputs, artifacts, payload, identity) ==
    LET a == [id |-> None, kind |-> kind, point |-> point, deps |-> deps, inputs |-> inputs,
              artifacts |-> artifacts, payload |-> payload, identity |-> identity]
    IN  [a EXCEPT !.id = ActivityId(a)]

\* The other half: what no id covers.  The rank of the point and, in the
\* payload of an extract, the rank again; where the inputs lie and, in the
\* payload of a render, where the template and the copies lie; what is
\* requested of the resources; when the activity must end
Loose(index, rank, paths, template, copies, resources, timeout) ==
    [index |-> index, rank |-> rank, paths |-> paths, template |-> template, copies |-> copies,
     resources |-> resources, timeout |-> timeout]
LooseChain(n, point, inputs) ==
    <<Loose(point.index, None, Paths(n), n.deck, Copies(inputs, Paths(n)), <<>>, n.timeout),
      Loose(point.index, None, <<>>, None, <<>>, [simulator |-> 1], n.timeout),
      Loose(point.index, point.index, <<>>, None, <<>>, <<>>, n.timeout)>>
LooseAggregate(n) == Loose(None, None, <<>>, None, <<>>, <<>>, n.timeout)

\* the render, simulate and extract activities of one point
Chain(n, point, inputs, installed) ==
    LET copied   == Column(Copies(inputs, Paths(n)), "logical")
        run      == [adapter |-> n.adapter, executable |-> n.executable, analysis |-> n.analysis,
                     fields |-> Column(n.measures, "field")]
        render   == Activity("render", point.values, <<>>, inputs,
                        <<"deck.sp", "point.json">> \o copied,
                        [point |-> Dict(point.values)], <<>>)
        simulate == Activity("simulate", point.values, <<render.id>>, <<>>, Produces(n.adapter), run,
                        [config |-> run, adapter |-> Identity(n.adapter, installed)])
        extract  == Activity("extract", point.values, <<simulate.id>>, <<>>, <<"extracted.json">>,
                        [measures |-> n.measures, point |-> Dict(point.values)], n.measures)
    IN  <<render, simulate, extract>>

PlanId(activities, jobs, limits, failFast) ==
    Fingerprint(<<Column(activities, "id"), jobs, limits, failFast>>)

\* compile_plan
Compile(n, digests, installed) ==
    LET points    == Points(n)
        inputs    == Inputs(n, digests)
        chains    == [i \in DOMAIN points |-> Chain(n, points[i], inputs, installed)]
        extracts  == [i \in DOMAIN points |-> chains[i][3].id]
        aggregate == Activity("aggregate", None, extracts, <<>>,
                        <<"results.json", "results.csv", "regression-bundle.json">>,
                        [measures |-> n.measures], n.measures)
        all       == Append(FlattenSeq(chains), aggregate)
        rest      == [i \in DOMAIN points |-> LooseChain(n, points[i], inputs)]
        limits    == [name \in DOMAIN n.limits \cup {"simulator"} |->
                        IF name \in DOMAIN n.limits THEN n.limits[name] ELSE n.jobs]
    IN  [id |-> PlanId(all, n.jobs, limits, n.failFast), activities |-> all, jobs |-> n.jobs,
         limits |-> limits, failFast |-> n.failFast,
         loose |-> Append(FlattenSeq(rest), LooseAggregate(n)), path |-> n.path]

(***************************************************************************)
(* Decoding what was saved                                                 *)
(***************************************************************************)
MeasuresDecode(measures) ==
    /\ measures # <<>>
    /\ FoldDistinct(Column(measures, "name"))
    /\ \A x \in Range(measures) : x.source \notin Unsafe

\* _validate_activity_contract: what is done agrees with what the id covers,
\* and one thing no id covers with the other
RenderContract(a, l) ==
    /\ a.point # None
    /\ a.payload.point = Dict(a.point)
    /\ \E i \in DOMAIN a.inputs : /\ a.inputs[i].logical = Template
                                 /\ l.paths[i] = l.template
                                 /\ \A j \in DOMAIN a.inputs \ {i} : a.inputs[j].logical # Template
    /\ l.copies = Copies(a.inputs, l.paths)
SimulateContract(a) ==
    /\ a.point # None /\ a.inputs = <<>>
    /\ IF a.payload.adapter = "xyce" THEN a.payload.analysis \in Analyses ELSE a.payload.analysis = None
    /\ FoldDistinct(a.payload.fields)
    /\ a.identity.config = a.payload

\* mutant: the payload is not compared with the point
ExtractContractAnyPoint(a, l) ==
    /\ a.point # None /\ a.inputs = <<>>
    /\ MeasuresDecode(a.payload.measures) /\ a.payload.measures = a.identity

ExtractContract(a, l) ==
    /\ a.point # None /\ a.inputs = <<>>
    /\ MeasuresDecode(a.payload.measures) /\ a.payload.measures = a.identity
    /\ a.payload.point = Dict(a.point) /\ l.rank = l.index
AggregateContract(a) ==
    /\ a.point = None /\ a.inputs = <<>>
    /\ MeasuresDecode(a.payload.measures) /\ a.payload.measures = a.identity
Contract(a, l) == CASE a.kind = "render"    -> RenderContract(a, l)
                    [] a.kind = "simulate"  -> SimulateContract(a)
                    [] a.kind = "extract"   -> ExtractContract(a, l)
                    [] a.kind = "aggregate" -> AggregateContract(a)

\* Activity.from_dict raises nothing
ActivityDecodes(a, l) ==
    /\ a.point # None => l.index \in Nat /\ FoldDistinct([i \in DOMAIN a.point |-> a.point[i][1]])
    /\ IsInjective(a.deps)
    /\ FoldDistinct(Column(a.inputs, "logical"))
    /\ \A x \in Range(a.inputs) : x.logical \notin Unsafe
    /\ FoldDistinct(a.artifacts)
    /\ \A name \in DOMAIN l.resources : l.resources[name] > 0
    /\ l.timeout > 0 /\ l.timeout <= Year
    /\ Contract(a, l)
    /\ a.id = ActivityId(a)

\* Plan.from_dict raises nothing
PlanDecodes(plan) ==
    LET acts == plan.activities
        ids  == Column(acts, "id")
        pointed == {i \in DOMAIN acts : acts[i].point # None}
    IN  /\ acts # <<>>
        /\ \A i \in DOMAIN acts : ActivityDecodes(acts[i], plan.loose[i])
        /\ IsInjective(ids)
        /\ \A i \in DOMAIN acts : \A d \in Range(acts[i].deps) : \E j \in 1 .. i - 1 : ids[j] = d
        /\ \A i, j \in pointed : plan.loose[i].index = plan.loose[j].index
                                    => acts[i].point = acts[j].point
        /\ plan.jobs > 0 /\ \A name \in DOMAIN plan.limits : plan.limits[name] > 0
        /\ plan.id = PlanId(acts, plan.jobs, plan.limits, plan.failFast)
=============================================================================
