----------------------------- MODULE Parameters -----------------------------
(***************************************************************************)
(* Parameters.cpp: the catalog of parameter groups, a ParameterObject that *)
(* a client edits field by field or reads from JSON, and the document of   *)
(* ControlParameters that keeps several of them.                           *)
(*                                                                         *)
(* A schema is a record: a "leaf" with the scalars it allows (its type,    *)
(* its choices, its bounds and its pattern), "any", "external" or one that *)
(* contains others, each with or without null.  A JSON value is a leaf,    *)
(* null, an array or an object.                                            *)
(*                                                                         *)
(* accepts() and redactValue() recurse down a value and give up below a    *)
(* depth.  Accepts and Redact are one call of each; AcceptsWithin[n] (the  *)
(* values that a schema accepts) and RedactWithin[n] are what the calls    *)
(* return that may still go n levels deep.                                 *)
(***************************************************************************)
EXTENDS Naturals, Sequences, SequencesExt, Functions, FiniteSets

CONSTANTS
    Fields,      \* group -> field -> ParameterDefinition
    Schemas,     \* the schemas of the fields and everything they contain
    Exclusive,   \* the groups in which fp16 and bf16 exclude each other
    Scalars,     \* the numbers, texts and truth values a leaf may be
    Names,       \* what the members of a JSON object may be called
    Values,      \* the JSON values a client may give
    MaxNesting,  \* how deep JSON values nest; the limit is QJsonDocument's
    MaxDepth,    \* how deep a schema is followed; 32 in the code
    MaxGroups    \* how many groups a control document gets here

Leaf(x) == [is |-> "leaf", x |-> x]
Null == [is |-> "null"]
Undefined == [is |-> "undefined"]
Array(s) == [is |-> "array", s |-> s]

\* A JSON object, its members from a function; a name that it has no member of is undefined.
Object(f) ==
    [is |-> "object", f |-> [k \in Names |-> IF k \in DOMAIN f THEN f[k] ELSE Undefined]]
Members(v) == {k \in Names : v.f[k] # Undefined}

Redacted == Leaf("[REDACTED]")
True == Leaf("true")

\* An object with no field.
NoFields == [f \in {} |-> Null]

\* What can be made of these parts, and what nests no deeper than n.
JsonOf(parts) ==
    {Null} \cup [is : {"leaf"}, x : Scalars] \cup [is : {"array"}, s : Seq(parts)]
    \cup [is : {"object"}, f : [Names -> parts \cup {Undefined}]]

JsonWithin[n \in 0 .. MaxNesting] == IF n = 0 THEN JsonOf({}) ELSE JsonOf(JsonWithin[n - 1])

Json == JsonWithin[MaxNesting]

\* What checkSchema() asks of the schemas of a catalog, and fromJson() of its fields.
ASSUME ParametersAssumption ==
    /\ MaxNesting \in Nat /\ MaxDepth \in Nat /\ MaxGroups \in Nat
    /\ Redacted.x \in Scalars
    /\ Values \subseteq Json
    /\ \A g \in DOMAIN Fields : \A f \in DOMAIN Fields[g] : Fields[g][f].schema \in Schemas
    /\ \A schema \in Schemas :
          /\ schema.is \in {"leaf", "any", "external", "anyOf", "array", "map", "ref"}
          /\ schema.is = "anyOf" => schema.of \in Seq(Schemas)
          /\ schema.is \in {"array", "map"} => schema.items \in Schemas
          /\ schema.is = "ref" => schema.group \in DOMAIN Fields

-----------------------------------------------------------------------------
\* The fields an object of a group must have when it is part of another: GroupIndex.required.
NestedRequired(g) ==
    {f \in DOMAIN Fields[g] :
        Fields[g][f].required /\ Fields[g][f].default = {} /\ ~Fields[g][f].readOnly}

\* accepts(), with what it says of the parts, one level down.
Accepts(below, schema, v) ==
    \/ schema.nullable /\ v = Null
    \/ CASE schema.is = "any" -> TRUE
         [] schema.is = "external" -> FALSE
         [] schema.is = "leaf" -> v.is = "leaf" /\ v.x \in schema.choices
         [] schema.is = "anyOf" -> \E i \in DOMAIN schema.of : v \in below[schema.of[i]]
         [] schema.is = "array" ->
               v.is = "array" /\ \A i \in DOMAIN v.s : v.s[i] \in below[schema.items]
         [] schema.is = "map" ->
               v.is = "object" /\ \A k \in Members(v) : v.f[k] \in below[schema.items]
         [] schema.is = "ref" ->
               /\ v.is = "object"
               /\ NestedRequired(schema.group) \subseteq Members(v)
               /\ \A k \in Members(v) :
                     /\ k \in DOMAIN Fields[schema.group]
                     /\ ~Fields[schema.group][k].readOnly
                     /\ v.f[k] \in below[Fields[schema.group][k].schema]

AcceptsWithin[n \in 0 .. MaxDepth + 1] ==
    [schema \in Schemas |-> {v \in Json : n # 0 /\ Accepts(AcceptsWithin[n - 1], schema, v)}]

\* The fields of an object of a group, the sensitive ones covered and the others one level down.
RedactFields(below, g, v) ==
    Object([k \in Members(v) |->
        IF k \notin DOMAIN Fields[g] THEN v.f[k]
        ELSE IF Fields[g][k].sensitive THEN Redacted
        ELSE below[Fields[g][k].schema][v.f[k]]])

\* Mutant: only the first alternative is followed.
RedactFirst(below, schema, v) ==
    CASE schema.is = "anyOf" -> below[schema.of[1]][v]
      [] schema.is = "array" /\ v.is = "array" ->
            Array([i \in DOMAIN v.s |-> below[schema.items][v.s[i]]])
      [] schema.is = "map" /\ v.is = "object" ->
            Object([k \in Members(v) |-> below[schema.items][v.f[k]]])
      [] schema.is = "ref" /\ v.is = "object" -> RedactFields(below, schema.group, v)
      [] OTHER -> v

\* redactValue(): every alternative is followed, whether it is the one that accepts or not.
Redact(below, schema, v) ==
    CASE schema.is = "anyOf" -> FoldLeft(LAMBDA w, branch : below[branch][w], v, schema.of)
      [] schema.is = "array" /\ v.is = "array" ->
            Array([i \in DOMAIN v.s |-> below[schema.items][v.s[i]]])
      [] schema.is = "map" /\ v.is = "object" ->
            Object([k \in Members(v) |-> below[schema.items][v.f[k]]])
      [] schema.is = "ref" /\ v.is = "object" -> RedactFields(below, schema.group, v)
      [] OTHER -> v

RedactWithin[n \in 0 .. MaxDepth + 1] ==
    [schema \in Schemas |-> [v \in Json |->
        IF n = 0 THEN Redacted ELSE Redact(RedactWithin[n - 1], schema, v)]]

\* The whole depth.
Levels == MaxDepth + 1

-----------------------------------------------------------------------------
\* validateValue() finds nothing.
ValueOk(g, f, v) ==
    /\ f \in DOMAIN Fields[g]
    /\ ~Fields[g][f].readOnly
    /\ v \in AcceptsWithin[Levels][Fields[g][f].schema]

\* validate() finds nothing.
Valid(g, values) ==
    /\ \A f \in DOMAIN values : ValueOk(g, f, values[f])
    /\ g \in Exclusive =>
          ~({"fp16", "bf16"} \subseteq DOMAIN values /\ values["fp16"] = True /\ values["bf16"] = True)

\* toNativeJson(defaults, redact) of an object that is valid.
ToNativeJson(g, values, defaults, redact) ==
    LET added == {f \in DOMAIN Fields[g] : defaults /\ Fields[g][f].default # {} /\ ~Fields[g][f].readOnly}
        all == [f \in DOMAIN values \cup added |->
                   IF f \in DOMAIN values THEN values[f] ELSE CHOOSE d \in Fields[g][f].default : TRUE]
    IN  [f \in DOMAIN all |->
            IF ~redact THEN all[f]
            ELSE IF Fields[g][f].sensitive THEN Redacted
            ELSE RedactWithin[Levels][Fields[g][f].schema][all[f]]]

\* fromNativeJson(): the object it makes, in a set; none if it throws.
FromNativeJson(g, json) ==
    IF g \in DOMAIN Fields /\ Valid(g, json) THEN {[group |-> g, values |-> json]} ELSE {}

\* generationOptionsFromParameters(): the fields go to the options they are bound to, and
\* generationOptionsFromJson() checks those.
GenerationOptions == "iiLocalLLM.GenerationOptions"
GenerationOptionsFrom(g, values) ==
    LET fields == DOMAIN values
        key == [f \in fields |-> Fields[g][f].binding]
    IN  IF \/ ~Valid(g, values)
           \/ \E f \in fields : key[f] = "none"
           \/ ~IsInjective(key)
        THEN {}
        ELSE FromNativeJson(GenerationOptions, [k \in Range(key) |-> values[CHOOSE f \in fields : key[f] = k]])

-----------------------------------------------------------------------------
VARIABLES
    object,    \* the ParameterObject being edited
    control    \* ControlParameters: group -> values

parameterVars == <<object, control>>

ParametersInit ==
    /\ object \in {[group |-> g, values |-> NoFields] : g \in DOMAIN Fields}
    /\ control = NoFields

\* ParameterObject::ParameterObject()
NewObject(g) ==
    /\ object' = [group |-> g, values |-> NoFields]
    /\ UNCHANGED control

\* set(); a value it refuses changes nothing.
Set(f, v) ==
    /\ ValueOk(object.group, f, v)
    /\ object' = [object EXCEPT !.values = [k \in {f} \cup DOMAIN @ |-> IF k = f THEN v ELSE @[k]]]
    /\ UNCHANGED control

\* unset()
Unset(f) ==
    /\ f \in DOMAIN object.values
    /\ object' = [object EXCEPT !.values = [k \in DOMAIN @ \ {f} |-> @[k]]]
    /\ UNCHANGED control

\* What ControlParameters::set() keeps of an object, in a set: the object is written, which
\* checks it as a whole, and read again; none if either throws.
KeptOf(o) ==
    IF Valid(o.group, o.values)
    THEN FromNativeJson(o.group, ToNativeJson(o.group, o.values, FALSE, FALSE))
    ELSE {}

\* ControlParameters::set()
Keep ==
    /\ Cardinality({object.group} \cup DOMAIN control) <= MaxGroups
    /\ \E kept \in KeptOf(object) :
          control' = [g \in {kept.group} \cup DOMAIN control |->
                         IF g = kept.group THEN kept.values ELSE control[g]]
    /\ UNCHANGED object

\* ControlParameters::object()
Take(g) ==
    /\ g \in DOMAIN control
    /\ object' = [group |-> g, values |-> control[g]]
    /\ UNCHANGED control

\* ControlParameters::fromJson() of a document with one group: the object it holds is read
\* and then set in control parameters that are new; none of it if something throws.
Read(g, json) ==
    /\ \E read \in FromNativeJson(g, json) : \E kept \in KeptOf(read) :
          control' = [h \in {kept.group} |-> kept.values]
    /\ UNCHANGED object

ParametersNext ==
    \/ \E g \in DOMAIN Fields : NewObject(g) \/ Take(g)
    \/ \E f \in DOMAIN Fields[object.group] : Unset(f) \/ \E v \in Values : Set(f, v)
    \/ Keep
    \/ \E g \in DOMAIN Fields : \E fields \in SUBSET DOMAIN Fields[g], v \in Values :
          Read(g, [f \in fields |-> v])

ParametersSpec == ParametersInit /\ [][ParametersNext]_parameterVars

-----------------------------------------------------------------------------
\* A value is shown as it may be, given what that means for its parts: it is covered, or it has
\* its shape, every sensitive field in it is covered, and the rest is shown as it may be.  The
\* alternatives that count are those that accept the value.
Hides(below, accepts, schema, v, w) ==
    \/ w = Redacted
    \/ CASE schema.is = "anyOf" ->
              \A i \in DOMAIN schema.of :
                  v \in accepts[schema.of[i]] => <<v, w>> \in below[schema.of[i]]
         [] schema.is = "array" /\ v.is = "array" ->
              /\ w.is = "array" /\ DOMAIN w.s = DOMAIN v.s
              /\ \A i \in DOMAIN v.s : <<v.s[i], w.s[i]>> \in below[schema.items]
         [] schema.is = "map" /\ v.is = "object" ->
              /\ w.is = "object" /\ Members(w) = Members(v)
              /\ \A k \in Members(v) : <<v.f[k], w.f[k]>> \in below[schema.items]
         [] schema.is = "ref" /\ v.is = "object" ->
              /\ w.is = "object" /\ Members(w) = Members(v)
              /\ \A k \in Members(v) \cap DOMAIN Fields[schema.group] :
                    IF Fields[schema.group][k].sensitive THEN w.f[k] = Redacted
                    ELSE <<v.f[k], w.f[k]>> \in below[Fields[schema.group][k].schema]
         [] OTHER -> TRUE

HidesWithin[n \in 0 .. MaxDepth + 1] ==
    [schema \in Schemas |-> {p \in Json \X Json :
        IF n = 0 THEN p[2] = Redacted
        ELSE Hides(HidesWithin[n - 1], AcceptsWithin[n - 1], schema, p[1], p[2])}]

\* An export with redact shows no field that is marked sensitive, however deep it lies and
\* through whichever alternative, array, map or group the value got there.
RedactionIsComplete ==
    Valid(object.group, object.values) =>
       LET shown == ToNativeJson(object.group, object.values, FALSE, TRUE)
       IN  \A f \in DOMAIN object.values :
              LET field == Fields[object.group][f]
              IN  IF field.sensitive THEN shown[f] = Redacted
                  ELSE <<object.values[f], shown[f]>> \in HidesWithin[Levels][field.schema]
=============================================================================
