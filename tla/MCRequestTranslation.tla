------------------------ MODULE MCRequestTranslation ------------------------
(* RequestTranslation on small instances. *)
EXTENDS RequestTranslation

CONSTANTS c1, c2, f, g

Symmetry == Permutations({c1, c2}) \cup Permutations({f, g})

\* Names as in the built-in maps: "opus" stands for "anthropic:opus", and "glm" for
\* an id of another short name.
Renamed  == Id(None, "anthropic:opus")
Provided == Id("zai", "GLM")

BuiltInNames == [s \in {"opus", "glm"} |-> IF s = "opus" THEN Renamed ELSE Provided]

\* Low to max are 1 to 5.
EffortLists == {<<1, 2, 3>>, <<3, 5>>}

BuiltInEfforts == [id \in {Renamed, Provided} |->
                      IF id = Renamed THEN <<1, 2, 3>> ELSE <<3, 5>>]

\* Ids of every kind: bare and of one or two providers, renamed or not.
FoundIds == {Renamed, Provided, Id(None, "opus"), Id("ant", "opus"), Id("zai", "glm"),
             Id("x", "kimi"), Id("y", "kimi")}
=============================================================================
