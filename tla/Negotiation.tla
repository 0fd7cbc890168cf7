---------------------------- MODULE Negotiation ----------------------------
(***************************************************************************)
(* Choosing a response and its media type                                  *)
(* (crates/specmock-runtime/src/http/negotiate.rs, media.rs and            *)
(* OperationSpec::mock_response of openapi.rs).                            *)
(*                                                                         *)
(* A response is [status, content]: its key, which may be "default" or a   *)
(* range, and a sequence of [type, example, names, schema]: the media      *)
(* type, whether it has an example, its named examples, and whether there  *)
(* is a schema that can be used ("none", "good" or "bad").  An Accept      *)
(* header is a sequence of [type, quality], empty if there is none; a      *)
(* Prefer header is a sequence of [readable, segments], one for each time  *)
(* it was sent, with a sequence of [key, value].  An optional value is a   *)
(* set of at most one element.                                             *)
(***************************************************************************)
EXTENDS Integers, Sequences, FiniteSets, Functions

Anything == "*/*"
NoText == ""

\* The first element of a sequence with a property, if there is one.
First(seq, Test(_)) ==
    LET good == {i \in DOMAIN seq : Test(seq[i])}
    IN {seq[i] : i \in {n \in good : \A j \in good : n <= j}}

Else(option, otherwise) == IF option # {} THEN option ELSE otherwise

StructuredJson == {"application/vnd.x+json"}
IsJsonMediaType(type) == type = "application/json" \/ type \in StructuredJson
IsApplication(type) == type \in {"application/json", "application/xml"} \cup StructuredJson

\* single_media_type_matches: wildcards, and JSON for a structured JSON type.
Covers(declared, actual) ==
    \/ declared \in {actual, Anything}
    \/ declared = "application/*" /\ IsApplication(actual)
    \/ declared \in StructuredJson /\ actual = "application/json"

MediaTypeIsAccepted(declared, actual) == actual # NoText /\ \E d \in Range(declared) : Covers(d, actual)

\* best_media_type: sorted by quality, the first that is not the full wildcard.
BestMediaType(accept) ==
    {accept[i].type : i \in {n \in DOMAIN accept :
        /\ accept[n].type # Anything
        /\ \A m \in DOMAIN accept \ {n} : accept[m].type # Anything =>
              \/ accept[m].quality < accept[n].quality
              \/ accept[m].quality = accept[n].quality /\ n < m}}

-----------------------------------------------------------------------------
(* Prefer *)

\* PreferDirectives::default.
NoDirectives ==
    [code |-> {}, example |-> {}, mediaType |-> {}, dynamic |-> FALSE, scenario |-> {}, session |-> {}]

\* Texts that do not parse as the number of a status code.
NoCode == {NoText, "ok"}

\* One directive: it replaces an earlier one of its key; a code that is no number takes
\* the earlier one back, an empty name is overlooked.
ParseDirective(directives, segment) ==
    CASE segment.key = "code" -> [directives EXCEPT !.code = {segment.value} \ NoCode]
      [] segment.key = "dynamic" -> [directives EXCEPT !.dynamic = segment.value \in {"true", "True", "TRUE"}]
      [] segment.key \in {"scenario", "session", "example"} /\ segment.value # NoText ->
            [directives EXCEPT ![segment.key] = {segment.value}]
      [] OTHER -> directives

\* parse_prefer_value: the directives of a header in their order.
ParsePreferValue(directives, value) ==
    LET parsed[n \in 0..Len(value.segments)] ==
            IF n = 0 THEN directives ELSE ParseDirective(parsed[n - 1], value.segments[n])
    IN parsed[Len(value.segments)]

\* PreferDirectives::from_headers.
FromHeaders(prefer, accept) ==
    LET read[n \in 0..Len(prefer)] ==
            IF n = 0 THEN NoDirectives
            ELSE IF prefer[n].readable THEN ParsePreferValue(read[n - 1], prefer[n]) ELSE read[n - 1]
    IN [read[Len(prefer)] EXCEPT !.mediaType = BestMediaType(accept)]

-----------------------------------------------------------------------------
(* The response *)

Is2xx(status) == status \in {"200", "201", "204", "2XX"}

\* Faulty variant: a code that is not declared is replaced by the usual choice.
SelectAnyway(responses, prefer) ==
    Else(First(responses, LAMBDA r : r.status \in prefer.code),
    Else(First(responses, LAMBDA r : r.status = "200"),
    Else(First(responses, LAMBDA r : Is2xx(r.status)),
    Else(First(responses, LAMBDA r : r.status = "default"),
         First(responses, LAMBDA r : TRUE)))))

SelectResponse(responses, prefer) ==
    IF prefer.code # {} THEN First(responses, LAMBDA r : r.status \in prefer.code)
    ELSE Else(First(responses, LAMBDA r : r.status = "200"),
         Else(First(responses, LAMBDA r : Is2xx(r.status)),
         Else(First(responses, LAMBDA r : r.status = "default"),
              First(responses, LAMBDA r : TRUE))))

\* negotiate_media_type, of the one type that best_media_type left: that type if it
\* is declared, or the first declared when none was asked for.
NegotiateMediaType(content, asked) ==
    IF asked = {} THEN {content[1]} ELSE First(content, LAMBDA c : c.type \in asked)

\* The body of an entry: "error" if the schema cannot be generated from.
Generated(entry) ==
    IF entry.schema = "none" THEN "none" ELSE IF entry.schema = "bad" THEN "error" ELSE "generated"
ResolveBody(entry) == IF entry.example \/ entry.names # {} THEN "static" ELSE Generated(entry)

ParseStatusCode(status) == IF status \in {"default", "2XX"} THEN "200" ELSE status

Failure(status) == [failed |-> TRUE, status |-> status, type |-> "none", body |-> "none"]
Mocked(status, type, body) == [failed |-> FALSE, status |-> status, type |-> type, body |-> body]

\* One entry of the selected response: a named example must exist, dynamic asks for
\* a generated body.
FromEntry(status, entry, prefer) ==
    IF prefer.example # {}
    THEN IF prefer.example \subseteq entry.names THEN Mocked(status, entry.type, "static") ELSE Failure("404")
    ELSE LET body == IF prefer.dynamic THEN Generated(entry) ELSE ResolveBody(entry) IN
         IF body = "error" THEN Failure("500") ELSE Mocked(status, entry.type, body)

MockResponse(responses, prefer) ==
    LET selected == SelectResponse(responses, prefer)
        response == CHOOSE r \in selected : TRUE
        status   == ParseStatusCode(response.status)
        entry    == NegotiateMediaType(response.content, prefer.mediaType)
    IN IF selected = {} THEN Failure("404")
       ELSE IF response.content = <<>> THEN Mocked(status, "none", "none")
       ELSE IF entry = {} THEN Failure("406")
       ELSE FromEntry(status, CHOOSE e \in entry : TRUE, prefer)

=============================================================================
