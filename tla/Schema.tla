------------------------------- MODULE Schema -------------------------------
(***************************************************************************)
(* JSON values, schemas, and when a value is valid for a schema, which the *)
(* validator library decides.                                              *)
(*                                                                         *)
(* A schema is a record with the keywords it has; required is a set, type  *)
(* a sequence, pattern says whether the regex library supports it, and a   *)
(* mapping is a sequence of [key, target] in the order of its keys.  A     *)
(* name and the text of a string are sequences of characters.              *)
(***************************************************************************)
EXTENDS Integers, Sequences, FiniteSets, Functions, TLC

Given(s, keyword, otherwise) == IF keyword \in DOMAIN s THEN s[keyword] ELSE otherwise
Min2(a, b) == IF a < b THEN a ELSE b
Lowest(S) == CHOOSE i \in S : \A j \in S : i <= j
Max2(a, b) == IF a < b THEN b ELSE a

\* The schemas true and false.
Anyhow == [true |-> TRUE]
Never == [false |-> TRUE]

Null == [null |-> TRUE]
TextOf(characters) == [string |-> characters, form |-> "letters"]
NumberOf(n, integral) == [number |-> n, integral |-> integral]

Variants(s) == IF "oneOf" \in DOMAIN s THEN s.oneOf ELSE Given(s, "anyOf", <<>>)

\* variant_schema_name and the title; an empty one is none.
VariantNames(variant) == {Given(variant, "variant", <<>>), Given(variant, "title", <<>>)} \ {<<>>}

\* extract_discriminator: none without the name of a property.
Discriminator(s) ==
    LET d == Given(s, "discriminator", <<>>)
    IN IF "propertyName" \in DOMAIN d
       THEN {[propertyName |-> d.propertyName, mapping |-> Given(d, "mapping", <<>>)]} ELSE {}

\* What a schema says of the size of a number, a string or an array.
WithinBounds(s, v) ==
    LET within(low, size, high) == Given(s, low, size) <= size /\ size <= Given(s, high, size) IN
    /\ "number" \in DOMAIN v => within("minimum", v.number, "maximum")
    /\ "string" \in DOMAIN v => within("minLength", Len(v.string), "maxLength")
    /\ "array" \in DOMAIN v => within("minItems", Len(v.array), "maxItems")

RECURSIVE Valid(_, _)

\* Validity of a value as JSON Schema defines it; a discriminator, if there is one,
\* names a variant the value is of, as OpenAPI has it.
Valid(s, v) ==
    LET is(kind) == kind \in DOMAIN v
        typed(t) == CASE t = "integer" -> is("number") /\ v.integral
                      [] t \in {"number", "string", "boolean", "null", "object", "array"} -> is(t)
                      [] OTHER -> FALSE
        properties == Given(s, "properties", <<>>)
        variants   == Variants(s)
        matching(schemas) == {i \in DOMAIN schemas : Valid(schemas[i], v)}
        meant(i)   == \A disc \in Discriminator(s) : \A m \in Range(disc.mapping) :
                         v.object[disc.propertyName].string = <<m.key>> =>
                             m.target \in VariantNames(variants[i])
    IN /\ s # Never
       /\ Given(s, "type", <<>>) # <<>> => \E t \in Range(s.type) : typed(t)
       /\ Given(s, "enum", <<>>) # <<>> => v \in Range(s.enum)
       /\ "const" \in DOMAIN s => v = s.const
       /\ "oneOf" \in DOMAIN s => Cardinality(matching(s.oneOf)) = 1
       /\ "anyOf" \in DOMAIN s => matching(s.anyOf) # {}
       /\ variants # <<>> /\ is("object") => \E i \in matching(variants) : meant(i)
       /\ "allOf" \in DOMAIN s => \A i \in DOMAIN s.allOf : Valid(s.allOf[i], v)
       /\ WithinBounds(s, v)
       /\ is("string") => /\ "pattern" \in DOMAIN s => v.form = "pattern"
                          /\ "format" \in DOMAIN s => v.form = "format"
       /\ is("array") /\ "items" \in DOMAIN s => \A i \in DOMAIN v.array : Valid(s.items, v.array[i])
       /\ is("object") => /\ Given(s, "required", {}) \subseteq DOMAIN v.object
                          /\ \A p \in DOMAIN v.object :
                                IF p \in DOMAIN properties THEN Valid(properties[p], v.object[p])
                                ELSE "additionalProperties" \in DOMAIN s =>
                                        Valid(s.additionalProperties, v.object[p])

=============================================================================
