---------------------------- MODULE AsyncMessage ----------------------------
(***************************************************************************)
(* One WebSocket message and its reply: the channels of an AsyncAPI        *)
(* document of version 2 or 3, the routing and validation of the message   *)
(* (crates/specmock-runtime/src/ws/asyncapi.rs), and what the socket loop  *)
(* makes of the outcome (crates/specmock-runtime/src/http/ws_handler.rs).  *)
(*                                                                         *)
(* A JSON text is known by a name; Texts gives its members, if it is an    *)
(* object, or says that it does not parse.  A schema is "none", "broken",  *)
(* or the set of the names it accepts.                                     *)
(***************************************************************************)
EXTENDS Integers, Sequences, FiniteSets, Functions, TLC

CONSTANTS
    Texts,         \* text -> [parses, string, members], members a partial function to texts
    MessageCases   \* the messages a client may send, with the document that is loaded

VARIABLES
    message,       \* what arrives where: [document, path, text, stateful]
    progress,      \* what comes next
    channels,      \* channel -> its ChannelSpec
    routed,        \* the channel and the payload of the message
    outcome,       \* the reply
    asked          \* whether the scenario runtime was asked, and for what

messageVars == <<message, progress, channels, routed, outcome, asked>>

Absent == [kind |-> "none", accepts |-> {}]
Broken == [kind |-> "broken", accepts |-> {}]
Accepts(texts) == [kind |-> "schema", accepts |-> texts]

\* validate_instance: an error if the schema does not compile.
Conforms(schema, text) == schema.kind = "schema" /\ text \in schema.accepts

\* The text of an object without members; what a schema generates is not a known text.
EmptyObject == "{}"
ASSUME TextsAssumption == "generated" \notin DOMAIN Texts

EmptySpec == [publish |-> Absent, subscribe |-> Absent, example |-> "none"]
NoRoute == [channel |-> "none", payload |-> "none"]
ErrorOf(keyword) == [type |-> "error", channel |-> "none", payload |-> keyword]
MockOf(channel, payload) == [type |-> "mock", channel |-> channel, payload |-> payload]
NoOutcome == [type |-> "none", channel |-> "none", payload |-> "none"]

-----------------------------------------------------------------------------
(* The document.  A channel of version 2 holds its two operations; in        *)
(* version 3 operations come apart and hold, references being inlined, the   *)
(* whole channel they are for.  A message is [payload, examples].            *)

FirstOf(seq) == IF seq = <<>> THEN "none" ELSE seq[1]

\* extract_message_payload_schema and extract_subscribe_payload.
SpecV2(node) ==
    [publish   |-> IF node.publish = <<>> THEN Absent ELSE node.publish[1].payload,
     subscribe |-> IF node.subscribe = <<>> THEN Absent ELSE node.subscribe[1].payload,
     example   |-> IF node.subscribe = <<>> THEN "none" ELSE FirstOf(node.subscribe[1].examples)]

FromV2(document) == [name \in DOMAIN document.channels |-> SpecV2(document.channels[name])]

\* from_v3: the channel whose definition equals the inlined one; names are visited in
\* their order, and a later operation replaces what an earlier one said.
ChannelNamed(document, node) ==
    LET equal == {i \in DOMAIN document.names : document.channels[document.names[i]] = node}
    IN {document.names[i] : i \in {n \in equal : \A m \in equal : n <= m}}

WithOperation(specs, document, operation) ==
    LET message1 == operation.messages[1]
        payload == IF operation.messages = <<>> THEN Absent ELSE message1.payload
        example == IF operation.messages = <<>> THEN "none" ELSE FirstOf(message1.examples)
    IN [name \in DOMAIN specs |->
            IF name \notin ChannelNamed(document, operation.channel) THEN specs[name]
            ELSE IF operation.action = "send" THEN [specs[name] EXCEPT !.publish = payload]
            ELSE IF operation.action = "receive"
            THEN [specs[name] EXCEPT !.subscribe = payload, !.example = example]
            ELSE specs[name]]

FromV3(document) ==
    LET upTo[n \in 0..Len(document.operations)] ==
            IF n = 0 THEN [name \in DOMAIN document.channels |-> EmptySpec]
            ELSE WithOperation(upTo[n - 1], document, document.operations[n])
    IN upTo[Len(document.operations)]

\* What documents are made of: in version 3, names are those of all channels.
MessageLists ==
    Seq([payload : [kind : {"none", "broken", "schema"}, accepts : SUBSET DOMAIN Texts],
         examples : Seq(DOMAIN Texts)])
IsDocument(document) ==
    /\ IsFiniteSet(DOMAIN document.channels)
    /\ \/ /\ document.version = 2
          /\ \A name \in DOMAIN document.channels :
                document.channels[name] \in [publish : MessageLists, subscribe : MessageLists]
       \/ /\ document.version = 3
          /\ Range(document.names) = DOMAIN document.channels
          /\ document.names \in Seq(DOMAIN document.channels)
          /\ document.operations \in Seq(Range(document.operations))
          /\ \A operation \in Range(document.operations) : operation.messages \in MessageLists

ASSUME MessageCasesAssumption == \A m \in MessageCases : IsDocument(m.document)

\* from_document.
FromDocument(document) == IF document.version = 3 THEN FromV3(document) ELSE FromV2(document)

-----------------------------------------------------------------------------
(* Routing *)

Has(text, key) == key \in DOMAIN Texts[text].members
FirstMember(text, keys) ==
    LET there == {i \in DOMAIN keys : Has(text, keys[i])}
    IN {Texts[text].members[keys[i]] : i \in {n \in there : \A m \in there : n <= m}}

\* A member that is a string and so can name a channel.
IsText(text) == Texts[text].string

\* parse_explicit_envelope.
Envelope(text) ==
    {[channel |-> channel,
      payload |-> LET given == FirstMember(text, <<"payload", "data", "message">>)
                  IN IF given = {} THEN EmptyObject ELSE CHOOSE p \in given : TRUE] :
        channel \in {c \in FirstMember(text, <<"channel", "topic">>) : IsText(c)}}

\* The channels an envelope-less message may be for: those that accept it, and those
\* that accept anything.
AutoRoutes(text) ==
    {name \in DOMAIN channels :
        channels[name].publish = Absent \/ Conforms(channels[name].publish, text)}

-----------------------------------------------------------------------------

MessageInit(cases) ==
    /\ message \in cases
    /\ progress = "load"
    /\ channels = <<>>
    /\ routed = NoRoute
    /\ outcome = NoOutcome
    /\ asked = NoRoute

\* from_path and from_config_with: the document, once, before any connection.
LoadDocument ==
    /\ progress = "load"
    /\ channels' = FromDocument(message.document)
    /\ progress' = "route"
    /\ UNCHANGED <<message, routed, outcome, asked>>

\* resolve_ws_channel: a path of a channel pins it.
Pinned == message.path \in DOMAIN channels

Answer(reply, next) ==
    /\ outcome' = reply
    /\ progress' = next
    /\ UNCHANGED <<message, channels, asked>>

\* Faulty variant: of several channels that accept a message, one gets it.
RouteSomewhere ==
    /\ progress = "route"
    /\ LET text   == message.text
           routes == IF Pinned THEN {[channel |-> message.path, payload |-> text]}
                     ELSE IF Envelope(text) # {} THEN Envelope(text)
                     ELSE {[channel |-> c, payload |-> text] : c \in AutoRoutes(text)}
       IN \/ ~Texts[text].parses /\ Answer(ErrorOf("json"), "reply") /\ UNCHANGED routed
          \/ /\ Texts[text].parses
             /\ IF routes # {} THEN routed' \in routes /\ Answer(NoOutcome, "validate")
                ELSE Answer(ErrorOf("routing"), "reply") /\ UNCHANGED routed

\* handle_message up to the channel: a pinned channel wraps the text in an envelope;
\* otherwise the envelope of the message counts, or the only channel that accepts it.
Route ==
    /\ progress = "route"
    /\ LET text   == message.text
           routes == IF Pinned THEN {[channel |-> message.path, payload |-> text]}
                     ELSE IF Envelope(text) # {} THEN Envelope(text)
                     ELSE {[channel |-> c, payload |-> text] : c \in AutoRoutes(text)}
       IN \/ ~Texts[text].parses /\ Answer(ErrorOf("json"), "reply") /\ UNCHANGED routed
          \/ /\ Texts[text].parses
             /\ IF Cardinality(routes) = 1 THEN routed' \in routes /\ Answer(NoOutcome, "validate")
                ELSE Answer(ErrorOf("routing"), "reply") /\ UNCHANGED routed

\* handle_message: the channel exists and its publish schema accepts the payload.
ValidateMessage ==
    /\ progress = "validate"
    /\ LET known == routed.channel \in DOMAIN channels
           schema == channels[routed.channel].publish
       IN \/ ~known /\ Answer(ErrorOf("enum"), "reply")
          \/ /\ known
             /\ IF schema = Absent \/ Conforms(schema, routed.payload) THEN Answer(NoOutcome, "generate")
                ELSE Answer(ErrorOf("schema"), "reply")
    /\ UNCHANGED routed

\* handle_message: the example, a value of the subscribe schema, or an empty object.
GeneratePayload ==
    /\ progress = "generate"
    /\ LET spec == channels[routed.channel] IN
       Answer(CASE spec.example # "none"           -> MockOf(routed.channel, spec.example)
                [] spec.example = "none" /\ spec.subscribe.kind = "broken" -> ErrorOf("faker")
                [] spec.example = "none" /\ spec.subscribe.kind = "schema" -> MockOf(routed.channel, "generated")
                [] OTHER                           -> MockOf(routed.channel, EmptyObject),
              "reply")
    /\ UNCHANGED routed

\* apply_scenario: only a mocked reply on a pinned channel can be changed, by what the
\* runtime resolves for the text that arrived: a stored body, an error, or nothing.
ApplyScenario ==
    /\ progress = "reply"
    /\ LET governed == message.stateful /\ Pinned /\ outcome.type = "mock" IN
       \/ ~governed /\ UNCHANGED <<outcome, asked>>
       \/ /\ governed
          /\ asked' = [channel |-> message.path, payload |-> message.text]
          /\ outcome' \in {outcome, MockOf(message.path, "stored"), ErrorOf("scenario")}
    /\ progress' = "sent"
    /\ UNCHANGED <<message, channels, routed>>

MessageFinished == progress = "sent" /\ UNCHANGED messageVars

MessageNext == LoadDocument \/ Route \/ ValidateMessage \/ GeneratePayload \/ ApplyScenario

MessageSpec == MessageInit(MessageCases) /\ [][MessageNext]_messageVars

-----------------------------------------------------------------------------
(* Properties *)

\* The operations of a document for a channel in a direction: the payload schema that
\* counts is that of the last one that has any.
Declared(document, name, direction) ==
    IF document.version = 2
    THEN IF direction = "send" THEN SpecV2(document.channels[name]).publish
         ELSE SpecV2(document.channels[name]).subscribe
    ELSE LET mine == {i \in DOMAIN document.operations :
                        /\ document.operations[i].action = direction
                        /\ document.operations[i].channel = document.channels[name]}
             last == CHOOSE i \in mine : \A j \in mine : i >= j
         IN IF mine = {} \/ document.operations[last].messages = <<>> THEN Absent
            ELSE document.operations[last].messages[1].payload

\* A message the document allows on a channel, in the direction towards the server.
Allowed(name, payload) ==
    LET schema == Declared(message.document, name, "send")
    IN schema = Absent \/ Conforms(schema, payload)

\* The channels of a document of version 3 can be told apart by their definitions.
Distinct(document) == document.version = 3 => IsInjective(document.channels)

\* handle_message and apply_scenario: a message is answered with a mock, and a scenario
\* asked, only if the document allows it on the channel it was pinned to, it names, or
\* alone accepts it; the reply is on that channel; a message that no channel or more
\* than one accepts changes nothing.
MessageRouted ==
    progress = "sent" /\ Distinct(message.document) =>
        /\ outcome.type # "none"
        /\ outcome.type = "mock" \/ asked # NoRoute =>
              /\ routed.channel \in DOMAIN message.document.channels
              /\ Allowed(routed.channel, routed.payload)
              /\ outcome.type = "mock" => outcome.channel = routed.channel
              /\ Pinned \/ Envelope(message.text) # {} \/
                    {c \in DOMAIN message.document.channels : Allowed(c, message.text)} = {routed.channel}
        /\ asked # NoRoute => Pinned /\ asked.channel = routed.channel /\ asked.payload = message.text
        /\ outcome.payload = "generated" =>
              Declared(message.document, routed.channel, "receive").kind = "schema"

=============================================================================
