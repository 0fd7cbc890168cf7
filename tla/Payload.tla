------------------------------ MODULE Payload ------------------------------
(***************************************************************************)
(* The body of a mocked response: a value generated from a schema          *)
(* (crates/specmock-core/src/faker.rs and schema.rs) and its encoding for  *)
(* the media type that was negotiated (crates/specmock-runtime/src/http/   *)
(* media.rs).  Every draw of the random generator is a choice, so the      *)
(* outcomes of a schema are those of all seeds.                            *)
(***************************************************************************)
EXTENDS Schema

CONSTANT FakerLimits   \* [depth, items, length] and the widths [span, itemSpan, lengthSpan]

ASSUME FakerLimitsAssumption ==
    \A l \in {"depth", "items", "length", "span", "itemSpan", "lengthSpan"} : FakerLimits[l] \in Nat

VARIABLES
    schema,        \* the schema of the response
    mediaType,     \* what was negotiated
    made,          \* the outcome of the generation
    sent           \* the encoded body

payloadVars == <<schema, mediaType, made, sent>>

Done(value) == [failed |-> FALSE, value |-> value]
Undone == [failed |-> TRUE, value |-> Null]
Nothing == [format |-> "none"]

-----------------------------------------------------------------------------
(* Generation *)

\* One outcome for each element, of those it may have.
Draws(outcomes) ==
    {f \in [DOMAIN outcomes -> UNION Range(outcomes)] : \A i \in DOMAIN outcomes : f[i] \in outcomes[i]}
AllDone(draw) == \A i \in DOMAIN draw : ~draw[i].failed
ValuesOf(draw) == [i \in DOMAIN draw |-> draw[i].value]

\* The lengths generate_array and generate_string draw from: a lower bound of one, an
\* upper bound some way above it, both cut at a ceiling and never the wrong way round.
Sizes(s, minimum, maximum, span, ceiling) ==
    LET low  == Min2(Given(s, minimum, 1), ceiling)
        high == Max2(Min2(Given(s, maximum, low + span), ceiling), low)
    IN low..high
ItemCounts(s) == Sizes(s, "minItems", "maxItems", FakerLimits.itemSpan, FakerLimits.items)
Lengths(s) == Sizes(s, "minLength", "maxLength", FakerLimits.lengthSpan, FakerLimits.length)

\* generate_integer and generate_number.
Numbers(s) ==
    LET low == Given(s, "minimum", 0)
    IN low..Max2(Given(s, "maximum", low + FakerLimits.span), low)

\* generate_string: a literal for a format, a match of the pattern, or letters.
Strings(s) ==
    IF "format" \in DOMAIN s THEN {[string |-> <<"a">>, form |-> "format"]}
    ELSE IF Given(s, "pattern", "unsupported") = "supported" THEN {[string |-> <<"a">>, form |-> "pattern"]}
    ELSE {TextOf([i \in 1..n |-> "a"]) : n \in Lengths(s)}

\* schema_type: of several types the first that is not null.
SchemaType(s) ==
    LET types == Given(s, "type", <<>>)
        proper == {i \in DOMAIN types : types[i] # "null"}
    IN IF types = <<>> THEN "none"
       ELSE IF proper = {} THEN "null"
       ELSE types[Lowest(proper)]

\* pick_discriminator_variant_index: from the first to the last variant a key maps to.
VariantIndices(variants, mapping) ==
    LET named(target) == {i \in DOMAIN variants :
                             target \in VariantNames(variants[i])}
        candidates == {Lowest(named(t)) :
                          t \in {m.target : m \in {n \in Range(mapping) : named(n.target) # {}}}}
    IN IF candidates = {} THEN DOMAIN variants
       ELSE {i \in DOMAIN variants : (\E a \in candidates : a <= i) /\ (\E b \in candidates : i <= b)}

\* discriminator_value_for_index: the first key for the name of the variant, else the first key.
VariantKey(variants, mapping, i) ==
    LET chosen == Given(variants[i], "variant", Given(variants[i], "title", <<>>))
        keys   == {n \in DOMAIN mapping : mapping[n].target = chosen}
    IN IF keys # {} THEN mapping[Lowest(keys)].key
       ELSE IF mapping # <<>> THEN mapping[1].key
       ELSE "variant_0"

\* merge_values.
Merged(target, source) ==
    IF "object" \in DOMAIN target /\ "object" \in DOMAIN source
    THEN [object |-> source.object @@ target.object] ELSE source
MergedAll(values) ==
    LET upTo[n \in 0..Len(values)] ==
            IF n = 0 THEN [object |-> <<>>] ELSE Merged(upTo[n - 1], values[n])
    IN upTo[Len(values)]

\* Faulty variant: a coin decides about required properties too.
IncludedByChance(s) == SUBSET DOMAIN Given(s, "properties", <<>>)

\* required_set and the coin for every other property, which is not always heads.
Included(s) ==
    LET names == DOMAIN Given(s, "properties", <<>>)
    IN {names \ out : out \in SUBSET (names \ Given(s, "required", {}))}

ExtraName(i) == <<"x", "_", ToString(i)>>

RECURSIVE Outcomes(_, _)

\* generate_object.
Objects(s, depth) ==
    LET properties == Given(s, "properties", <<>>)
        additional == Given(s, "additionalProperties", Never)
        mains  == UNION {Draws([p \in names |-> Outcomes(properties[p], depth)]) : names \in Included(s)}
        extras == IF additional = Never THEN {<<>>}
                  ELSE IF additional = Anyhow THEN {ExtraName(0) :> Done(TextOf(<<"a">>))}
                  ELSE UNION {Draws([p \in {ExtraName(i) : i \in 0..(n - 1)} |-> Outcomes(additional, depth)]) :
                                 n \in 1..2}
    IN {IF AllDone(main) /\ AllDone(extra) THEN Done([object |-> ValuesOf(extra) @@ ValuesOf(main)])
        ELSE Undone : main \in mains, extra \in extras}

\* generate_array.
Arrays(s, depth) ==
    LET items == Given(s, "items", [type |-> <<"string">>])
    IN IF items = Never THEN {Done([array |-> <<>>])}
       ELSE {IF AllDone(draw) THEN Done([array |-> ValuesOf(draw)]) ELSE Undone :
                draw \in UNION {Draws([i \in 1..n |-> Outcomes(items, depth)]) : n \in ItemCounts(s)}}

\* The branch for oneOf and anyOf.
OfVariants(s, depth) ==
    LET variants == Variants(s)
        tagged(value, i, disc) ==
            IF "object" \notin DOMAIN value THEN value
            ELSE [object |-> (disc.propertyName :> TextOf(<<VariantKey(variants, disc.mapping, i)>>))
                                @@ value.object]
        from(indices, value(_, _)) ==
            UNION {{IF o.failed THEN o ELSE Done(value(o.value, i)) : o \in Outcomes(variants[i], depth + 1)} :
                      i \in indices}
    IN IF Discriminator(s) = {} THEN from(DOMAIN variants, LAMBDA v, i : v)
       ELSE UNION {from(VariantIndices(variants, d.mapping), LAMBDA v, i : tagged(v, i, d)) :
                      d \in Discriminator(s)}

OfAllOf(s, depth) ==
    {IF AllDone(draw) THEN Done(MergedAll(ValuesOf(draw))) ELSE Undone :
        draw \in Draws([i \in DOMAIN s.allOf |-> Outcomes(s.allOf[i], depth + 1)])}

\* The match on schema_type.
OfType(s, depth) ==
    LET type == SchemaType(s) IN
    CASE type = "object"  -> Objects(s, depth + 1)
      [] type = "array"   -> Arrays(s, depth + 1)
      [] type = "integer" -> {Done(NumberOf(n, TRUE)) : n \in Numbers(s)}
      [] type = "number"  -> {Done(NumberOf(n, FALSE)) : n \in Numbers(s)}
      [] type = "boolean" -> {Done([boolean |-> b]) : b \in BOOLEAN}
      [] type = "null"    -> {Done(Null)}
      [] type = "string"  -> {Done(v) : v \in Strings(s)}
      [] type = "none"    -> {Done([object |-> <<>>])}
      [] OTHER            -> {Undone}

\* What the author of the schema gave as its value.
Illustration(s) ==
    IF "example" \in DOMAIN s THEN {s.example}
    ELSE IF Given(s, "examples", <<>>) # <<>> THEN {s.examples[1]}
    ELSE IF "default" \in DOMAIN s THEN {s.default}
    ELSE {}

\* generate_with_rng.
Outcomes(s, depth) ==
    IF Illustration(s) # {} THEN {Done(v) : v \in Illustration(s)}
    ELSE IF depth > FakerLimits.depth THEN {Undone}
    ELSE IF Variants(s) # <<>> THEN OfVariants(s, depth)
    ELSE IF "allOf" \in DOMAIN s THEN OfAllOf(s, depth)
    ELSE IF Given(s, "enum", <<>>) # <<>> THEN {Done(v) : v \in Range(s.enum)}
    ELSE IF "const" \in DOMAIN s THEN {Done(s.const)}
    ELSE OfType(s, depth)

-----------------------------------------------------------------------------
(* Encoding *)

Letters == {"a", "b", "i", "r", "x", "_"}
NameCharacters == Letters \cup {"0", "1", "-"}

\* sanitize_xml_name: nothing before the first letter, then what names may hold.
Sanitize(name) ==
    LET begin == {i \in DOMAIN name : name[i] \in Letters}
    IN IF begin = {} THEN <<"_">>
       ELSE SelectSeq(SubSeq(name, Lowest(begin), Len(name)), LAMBDA c : c \in NameCharacters)

\* escape_xml_text.
Escape(text) == [i \in DOMAIN text |-> IF text[i] = "<" THEN "&lt;" ELSE text[i]]

\* scalar_text.
ScalarText(value) ==
    IF "string" \in DOMAIN value THEN value.string
    ELSE IF "null" \in DOMAIN value THEN <<>> ELSE <<"0">>

Open(name) == [tag |-> "open", name |-> name]
Close(name) == [tag |-> "close", name |-> name]
Characters(text) == [tag |-> "text", name |-> text]

Concatenated(parts) ==
    LET upTo[n \in 0..Len(parts)] == IF n = 0 THEN <<>> ELSE upTo[n - 1] \o parts[n]
    IN upTo[Len(parts)]

\* The members of an object in some order.
InOrder(S) == CHOOSE f \in [1..Cardinality(S) -> S] : Range(f) = S

RECURSIVE XmlElement(_, _)

\* write_xml_element.
XmlElement(name, value) ==
    LET keys == InOrder(DOMAIN value.object)
        content ==
            IF "object" \in DOMAIN value
            THEN [i \in DOMAIN keys |-> XmlElement(Sanitize(keys[i]), value.object[keys[i]])]
            ELSE IF "array" \in DOMAIN value
            THEN [i \in DOMAIN value.array |-> XmlElement(<<"i">>, value.array[i])]
            ELSE <<<<Characters(Escape(ScalarText(value)))>>>>
    IN <<Open(name)>> \o Concatenated(content) \o <<Close(name)>>

\* xml_root_name.
XmlRootName(s) == Given(s, "xmlName", Given(s, "title", <<"r">>))

IsXmlMediaType(type) == type \in {"text/xml", "application/vnd.x+xml"}

\* encode_body; text, binary and unknown types share a path.
Encoded(type, value, s) ==
    CASE type = "application/json" -> [format |-> "json", value |-> value]
      [] IsXmlMediaType(type) -> [format |-> "xml", tokens |-> XmlElement(Sanitize(XmlRootName(s)), value)]
      [] "string" \in DOMAIN value -> [format |-> "raw", text |-> value.string]
      [] "null" \in DOMAIN value -> [format |-> "raw", text |-> <<>>]
      [] OTHER -> [format |-> "json", value |-> value]

-----------------------------------------------------------------------------

PayloadInit(schemas) ==
    /\ schema \in schemas
    /\ mediaType \in {"application/json", "text/xml", "application/vnd.x+xml", "text/plain"}
    /\ made = [failed |-> TRUE, value |-> Nothing]
    /\ sent = Nothing

Begun == made.value # Nothing

\* generate_json_value.
GenerateValue ==
    /\ ~Begun
    /\ made' \in Outcomes(schema, 0)
    /\ UNCHANGED <<schema, mediaType, sent>>

EncodeBody ==
    /\ Begun /\ ~made.failed /\ sent = Nothing
    /\ sent' = Encoded(mediaType, made.value, schema)
    /\ UNCHANGED <<schema, mediaType, made>>

PayloadFinished == Begun /\ (made.failed \/ sent # Nothing) /\ UNCHANGED payloadVars

PayloadNext == GenerateValue \/ EncodeBody

-----------------------------------------------------------------------------
(* Properties *)

\* The schemas a schema is made of.
Parts(s) ==
    Range(Given(s, "properties", <<>>)) \cup Range(Variants(s)) \cup Range(Given(s, "allOf", <<>>))
    \cup ({Given(s, "items", Anyhow), Given(s, "additionalProperties", Anyhow)} \ {Anyhow, Never})

Combinations == {"oneOf", "anyOf", "allOf"}

\* No value is valid for both: they have no type in common, or a property that both
\* require and give another constant.
Apart(p, q) ==
    \/ /\ Given(p, "type", <<>>) # <<>> /\ Given(q, "type", <<>>) # <<>>
       /\ \A t \in Range(p.type), u \in Range(q.type) : t # u /\ {t, u} # {"integer", "number"}
    \/ \E a \in Given(p, "required", {}) \cap Given(q, "required", {}) :
          LET const(s) == Given(Given(s, "properties", <<>>)[a], "const", Null) IN
          /\ a \in DOMAIN Given(p, "properties", <<>>) \cap DOMAIN Given(q, "properties", <<>>)
          /\ Null \notin {const(p), const(q)} /\ const(p) # const(q)

\* An object of this schema may be given the tag.
Taggable(s, property, tag) ==
    LET properties == Given(s, "properties", <<>>) IN
    /\ DOMAIN s \cap (Combinations \cup {"enum", "const"}) = {}
    /\ IF property \in DOMAIN properties THEN Valid(properties[property], tag)
       ELSE Valid(Given(s, "additionalProperties", Anyhow), tag)

RECURSIVE Manageable(_, _)

\* What the generator can be asked for: it goes by the first of several keywords, takes
\* its default for a bound that is missing (README.md has all bounds honoured, which holds
\* within these limits), merges whatever allOf lists, tags whatever
\* variant it chose, and does not look whether a value is of another variant too.
Manageable(s, depth) ==
    LET bounded(low, high, default) ==
            Given(s, low, default) <= Given(s, high, Given(s, low, default))
    IN IF Illustration(s) # {} THEN \A v \in Illustration(s) : Valid(s, v)
       ELSE /\ depth <= FakerLimits.depth
            /\ "enum" \in DOMAIN s => s.enum # <<>> /\ \A v \in Range(s.enum) : Valid(s, v)
            /\ "const" \in DOMAIN s => Valid(s, s.const)
            /\ bounded("minimum", "maximum", 0)
            /\ bounded("minItems", "maxItems", 1) /\ Given(s, "minItems", 0) <= FakerLimits.items
            /\ bounded("minLength", "maxLength", 1) /\ Given(s, "minLength", 0) <= FakerLimits.length
            /\ Given(s, "items", Anyhow) = Never => Given(s, "minItems", 0) = 0
            /\ {"format", "pattern"} \cap DOMAIN s # {} =>
                  Given(s, "pattern", "supported") = "supported" /\
                  Cardinality({"format", "pattern", "minLength", "maxLength"} \cap DOMAIN s) = 1
            /\ SchemaType(s) \in {"none", "object", "array", "integer", "number", "boolean", "null", "string"}
            /\ Given(s, "required", {}) \subseteq DOMAIN Given(s, "properties", <<>>)
            /\ Combinations \cap DOMAIN s # {} =>
                  /\ Cardinality(Combinations \cap DOMAIN s) = 1
                  /\ DOMAIN s \subseteq Combinations \cup {"discriminator"}
                  /\ "allOf" \in DOMAIN s \/ Variants(s) # <<>>
            /\ \A i, j \in DOMAIN Given(s, "oneOf", <<>>) : i = j \/ Apart(s.oneOf[i], s.oneOf[j])
            /\ \A d \in Discriminator(s) : \A i \in VariantIndices(Variants(s), d.mapping) :
                  /\ \E m \in Range(d.mapping) : m.target \in VariantNames(Variants(s)[i])
                  /\ Taggable(Variants(s)[i], d.propertyName, TextOf(<<VariantKey(Variants(s), d.mapping, i)>>))
            /\ "allOf" \in DOMAIN s =>
                  /\ \A i \in DOMAIN s.allOf :
                        /\ SchemaType(s.allOf[i]) = "object"
                        /\ DOMAIN s.allOf[i] \subseteq {"type", "title", "properties", "required"}
                  /\ \A i, j \in DOMAIN s.allOf : i = j \/
                        DOMAIN Given(s.allOf[i], "properties", <<>>)
                            \cap DOMAIN Given(s.allOf[j], "properties", <<>>) = {}
            /\ \A part \in Parts(s) : Manageable(part, depth + 1)

\* generate_json_value: every value that any seed yields for such a schema is valid for
\* it, whatever nests in what, and the generation does not fail.
GeneratedValid == Begun /\ Manageable(schema, 0) => ~made.failed /\ Valid(schema, made.value)

\* The elements that are open after the first n tokens.
OpenAfter(tokens) ==
    LET after[n \in 0..Len(tokens)] ==
            IF n = 0 THEN <<>>
            ELSE CASE tokens[n].tag = "open" -> Append(after[n - 1], tokens[n].name)
                   [] tokens[n].tag = "text" -> after[n - 1]
                   [] tokens[n].tag = "close" /\ after[n - 1] # <<>> /\ after[n - 1][Len(after[n - 1])] = tokens[n].name ->
                         SubSeq(after[n - 1], 1, Len(after[n - 1]) - 1)
                   [] OTHER -> <<"unbalanced">>
    IN after

\* encode_body and json_to_xml: the body of an XML response is one element that closes
\* last, of elements with legal names that nest properly, and of text without markup,
\* whatever the keys and the strings of the value are.
XmlWellFormed ==
    sent.format = "xml" =>
        LET open == OpenAfter(sent.tokens) IN
        /\ \A n \in 0..Len(sent.tokens) : open[n] = <<>> <=> n \in {0, Len(sent.tokens)}
        /\ \A i \in DOMAIN sent.tokens :
              IF sent.tokens[i].tag = "text" THEN "<" \notin Range(sent.tokens[i].name)
              ELSE sent.tokens[i].name # <<>> /\ sent.tokens[i].name[1] \in Letters
                   /\ Range(sent.tokens[i].name) \subseteq NameCharacters

\* What stands in for a payload can be used by a client: a value made up by
\* generate_json_value is valid, and encode_body sends well-formed XML.
BodiesUsable == GeneratedValid /\ XmlWellFormed

=============================================================================
