------------------------------ MODULE MCAgent -------------------------------
(* Constants for model checking Agent: Parameters and Conversation.        *)
EXTENDS Agent, TLC

Field(schema) ==
    [schema |-> schema, required |-> FALSE, default |-> {}, readOnly |-> FALSE,
     sensitive |-> FALSE, binding |-> "none"]
Scalar(choices) == [is |-> "leaf", nullable |-> FALSE, choices |-> choices]
Flag == Scalar({"true", "false"})
Text == Scalar({"text"})
Opaque == [is |-> "any", nullable |-> FALSE]
Ref(g) == [is |-> "ref", nullable |-> FALSE, group |-> g]
AnyOf(s) == [is |-> "anyOf", nullable |-> FALSE, of |-> s]
Nullable(s) == [s EXCEPT !.nullable = TRUE]
ArrayOf(s) == [is |-> "array", nullable |-> FALSE, items |-> s]
MapOf(s) == [is |-> "map", nullable |-> FALSE, items |-> s]

\* A group of generation options, one bound to them, one that trains, one with a field
\* that is required and derived, and two that nest others in every way.  The limit of the depth
\* is where the alternative for "engine" in "cluster" is cut off.
MCFields ==
    GenerationOptions :> [max_tokens |-> [Field(Text) EXCEPT !.binding = "max_tokens"]]
    @@ "sampling" :> [n |-> [Field(Text) EXCEPT !.binding = "max_tokens"],
                      limit |-> [Field(Scalar({"text", "true"})) EXCEPT !.binding = "max_tokens"]]
    @@ "training" :> [fp16 |-> Field(Flag), bf16 |-> [Field(Nullable(Flag)) EXCEPT !.default = {Null}]]
    @@ "engine" :> [device |-> [Field(Text) EXCEPT !.required = TRUE, !.readOnly = TRUE],
                    name |-> [Field(Text) EXCEPT !.required = TRUE],
                    token |-> [Field(AnyOf(<<Flag, Text>>)) EXCEPT !.sensitive = TRUE]]
    @@ "serving" :> [engine |-> Field(AnyOf(<<Text, Nullable(Ref("engine")), Ref("training")>>)),
                     more |-> Field(ArrayOf(AnyOf(<<Ref("training"), Ref("engine")>>)))]
    @@ "cluster" :> [named |-> Field(MapOf(AnyOf(<<AnyOf(<<Ref("training"), Ref("engine")>>), Opaque>>)))]

\* These schemas and what they contain.
Contained(schemas) ==
    schemas \cup UNION {Range(s.of) : s \in {t \in schemas : t.is = "anyOf"}}
            \cup {s.items : s \in {t \in schemas : t.is \in {"array", "map"}}}
MCSchemas == Contained(Contained(Contained(
    UNION {{MCFields[g][f].schema : f \in DOMAIN MCFields[g]} : g \in DOMAIN MCFields})))

Engine == Object([name |-> Leaf("text"), token |-> Leaf("text")])

\* Values that some field takes, a nested one that lacks a required field, one that gives a
\* derived field.
MCValues ==
    {Leaf("text"), Leaf("true"), Null, Engine, Object([token |-> Leaf("true")]),
     Object([device |-> Leaf("text"), name |-> Leaf("text")]),
     Array(<<Object([fp16 |-> Leaf("true")]), Engine>>), Object([x |-> Engine])}

MCScalars == {"text", "true", "false", Redacted.x}
MCNames == {"name", "token", "device", "fp16", "bf16", "x"}

MCCallIds == {<<"r", 1>>, <<"r", 2>>}
=============================================================================
