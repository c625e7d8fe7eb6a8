---------------------------- MODULE MCPlanReplay ----------------------------
(* Two runs of manifests that share points, inputs and simulators, or that   *)
(* should not be accepted                                                    *)
EXTENDS PlanReplay
CONSTANTS r1, r2
TwoRuns == {r1, r2}
Directory == {"deck", "plain", "lib", "LIB", "a\\b"}
Backslashed == {"a\\b"}
Folded == "R" :> "r" @@ "LIB" :> "lib"
Values == "1k" :> "1k" @@ "2k" :> "2k" @@ "number 1" :> "1" @@ "text 1" :> "1"
Read == [f \in Directory |-> IF f = "LIB" THEN "lib" ELSE f]
Named == [text \in {Read[f] : f \in Directory} |-> IF text = "plain" THEN {} ELSE {"r"}]

Sweep(name, values) == <<[name |-> name, values |-> values]>>
Measure(name, field) == [name |-> name, source |-> "metrics.json", field |-> field]
Up == [path |-> "here", timeout |-> 60,
       adapter |-> "mock-rc", executable |-> None, analysis |-> None, deck |-> "deck",
       inputs |-> <<>>, mode |-> "product", params |-> Sweep("R", <<"1k", "2k">>), jobs |-> 1,
       limits |-> <<>>, failFast |-> FALSE, measures |-> <<Measure("f", None)>>]
Down  == [Up EXCEPT !.params = Sweep("R", <<"2k", "1k">>)]
One   == [Up EXCEPT !.params = Sweep("R", <<"2k">>)]
Lower == [One EXCEPT !.params = Sweep("r", <<"2k">>), !.inputs = <<"lib">>,
                     !.measures = <<Measure("f", None), Measure("g", "h")>>]
Twice == [One EXCEPT !.measures = <<Measure("f", None), Measure("g", "f")>>]
Cased == [One EXCEPT !.inputs = <<"lib", "LIB">>]
Slash == [One EXCEPT !.inputs = <<"a\\b">>]
Plain == [One EXCEPT !.deck = "plain"]
Spice == [One EXCEPT !.adapter = "ngspice"]
Xyce  == [One EXCEPT !.adapter = "xyce", !.analysis = "tran"]
Clash == [One EXCEPT !.measures = <<Measure("R", "f")>>]
Equal == [One EXCEPT !.params = Sweep("R", <<"number 1", "text 1">>), !.mode = "zip"]
Uneven == [One EXCEPT !.params = @ \o Sweep("C", <<"1k", "2k">>), !.mode = "zip"]
Some == {Up, One, Lower, Twice, Cased, Slash, Plain, Spice, Xyce, Clash, Equal, Uneven}
Submitted == r1 :> {One} @@ r2 :> Some
Reordered == r1 :> {Up} @@ r2 :> {Down}
Twins == {"LIB"}
=============================================================================
