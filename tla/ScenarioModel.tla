--------------------------- MODULE ScenarioModel ---------------------------
(***************************************************************************)
(* The sequential parts of scenario execution: the finite state machine of *)
(* a scenario (crates/specmock-core/src/scenario.rs) and what one governed *)
(* request does to the store and answers                                   *)
(* (crates/specmock-runtime/src/http/scenarios.rs, the functions below     *)
(* resolve_with).  An optional value is a set of at most one element.      *)
(***************************************************************************)
EXTENDS Integers, Sequences, FiniteSets, Functions

CONSTANTS
    Scenarios,    \* sequence of the declared scenario names; the first is the default
    Machine,      \* scenario name -> its machine, see MachineAssumption
    Catalogue,    \* sequence of operation entries, in the order of their names
    Seed,         \* scenario name -> sequence of [resource, items]
    StoreLimit    \* max_store_entries

AtMostOne(S) == \A x, y \in S : x = y

\* A machine as sidecar::validate lets it through: the initial state and every
\* target are declared states, and an operation has one target or stays put.
Declared(m) ==
    /\ m.initial \in DOMAIN m.states
    /\ \A s \in DOMAIN m.states : \A op \in DOMAIN m.states[s] :
          /\ m.states[s][op].target \subseteq DOMAIN m.states
          /\ AtMostOne(m.states[s][op].target)

ASSUME MachineAssumption == \A sc \in Range(Scenarios) : Declared(Machine[sc])

ASSUME StoreLimitAssumption == StoreLimit \in Nat

\* An entry has one store interaction at most, and that one place of the identifier.
ASSUME CatalogueAssumption ==
    \A op \in Range(Catalogue) :
        AtMostOne(op.store) /\ \A spec \in op.store : AtMostOne(spec.keyFrom)

\* The items of a seed are messages that are told apart from what calls store.
ASSUME SeedAssumption ==
    \A sc \in Range(Scenarios) :
        /\ Seed[sc] \in Seq(Range(Seed[sc]))
        /\ \A entry \in Range(Seed[sc]) :
              /\ entry.items \in Seq(Range(entry.items))
              /\ \A item \in Range(entry.items) : item.shape = "seed"

-----------------------------------------------------------------------------
(* The machine *)

Allows(m, s, op) == s \in DOMAIN m.states /\ op \in DOMAIN m.states[s]

\* The state op leads to, or nothing when it stays put.
NextState(m, s, op) == IF Allows(m, s, op) THEN m.states[s][op].target ELSE {}

StepResponses(m, s, op) == IF Allows(m, s, op) THEN m.states[s][op].responses ELSE <<>>

\* The machine of a named scenario, or of the default one: optional.
DefaultScenario == IF Scenarios = <<>> THEN {} ELSE {Scenarios[1]}
ScenarioOf(c) == (IF c.scenario = {} THEN DefaultScenario ELSE c.scenario) \cap Range(Scenarios)

\* The catalogue by request signature: of several entries with one method and
\* path the last one stays.
ByRequest(route) ==
    {Catalogue[i] : i \in {j \in DOMAIN Catalogue :
        /\ Catalogue[j].route = route
        /\ \A l \in DOMAIN Catalogue : l > j => Catalogue[l].route # route}}

-----------------------------------------------------------------------------
(* Outcomes *)

Failures == {"UnknownScenario", "IllegalOperation", "ResourceNotFound",
             "ResourceExists", "SessionCapExceeded", "StoreCapExceeded"}

Outcome(kind, status, body) == [kind |-> kind, status |-> status, body |-> body]

Ungoverned == Outcome("Ungoverned", 0, {})
Body(v)    == Outcome("Body", 0, {v})
Empty      == Outcome("Empty", 0, {})

StatusOf(failure) ==
    CASE failure \in {"UnknownScenario", "ResourceNotFound"}  -> 404
      [] failure \in {"IllegalOperation", "ResourceExists"}   -> 409
      [] failure = "SessionCapExceeded"                       -> 429
      [] failure = "StoreCapExceeded"                         -> 500

Failed(failure) == Outcome(failure, StatusOf(failure), {})

-----------------------------------------------------------------------------
(* The store of an instance.  Its operations are single steps here, as     *)
(* LinearStore promises; Store has their interior.                         *)

EmptyTable == [k \in {} |-> {}]

Put(f, k, v) == [x \in DOMAIN f \cup {k} |-> IF x = k THEN v ELSE f[x]]
Drop(f, k) == Restrict(f, DOMAIN f \ {k})

Result(table, outcome) == [table |-> table, outcome |-> outcome]

\* Faulty variant: the capacity admits one entry more.
StoreCreateLate(table, k, v) ==
    IF Cardinality(DOMAIN table) > StoreLimit THEN Result(table, Failed("StoreCapExceeded"))
    ELSE IF k \in DOMAIN table THEN Result(table, Failed("ResourceExists"))
    ELSE Result(Put(table, k, v), Body(v))

StoreCreate(table, k, v) ==
    IF Cardinality(DOMAIN table) >= StoreLimit THEN Result(table, Failed("StoreCapExceeded"))
    ELSE IF k \in DOMAIN table THEN Result(table, Failed("ResourceExists"))
    ELSE Result(Put(table, k, v), Body(v))

\* Segments of the template that name a bound parameter become its value.
BindNamespace(template, params) ==
    [i \in DOMAIN template |->
        IF template[i] \in DOMAIN params THEN params[template[i]] ELSE template[i]]

\* The empty pointer is the whole document, which reads as its text; every other
\* pointer leads to the field that a message has as its id, if it has one.
Whole == ""
PointerValue(message, pointer) == IF pointer = Whole THEN message.text ELSE message.id

\* keyFrom points into one of the two messages; a message that has nothing at
\* the pointer has no identifier.
Subject(from, c) == IF from.location = "request" THEN c.request ELSE {c.response}
ResolveCreateKey(spec, c) ==
    UNION {UNION {PointerValue(message, from.pointer) : message \in Subject(from, c)} :
               from \in spec.keyFrom}

\* A bound path parameter first, the message otherwise.
ResolveKey(spec, c) ==
    LET bound == spec.key \cap DOMAIN c.params IN
    IF bound # {} THEN {c.params[p] : p \in bound} ELSE ResolveCreateKey(spec, c)

\* Faulty variant: the generated response keeps the identifier it was given.
Unaligned(value, pointer, id) == value

\* The whole document has no place for a field: it stays as it is.
AlignIdentifier(value, pointer, id) ==
    IF pointer = Whole THEN value ELSE [value EXCEPT !.id = {id}]

Null == [id |-> {}, text |-> {}, shape |-> "null"]
RequestBody(c) == IF c.request = {} THEN Null ELSE CHOOSE b \in c.request : TRUE

\* The calls of the other protocols: no path parameters, no Prefer header, and a
\* message that was validated before. A channel has its scenario from its connection.
ResolveGrpc(c) ==
    [c EXCEPT !.protocol = "unary", !.params = <<>>, !.preferCode = FALSE, !.validated = TRUE]
ResolveChannel(c, scenario) ==
    [c EXCEPT !.protocol = "channel", !.params = <<>>, !.preferCode = FALSE, !.validated = TRUE,
              !.scenario = {scenario}]

\* What a create stores: the request it took the identifier from, or the
\* generated response, which for gRPC is made to agree with its key where the
\* pointer leads to a field.
CreatedValue(spec, c, id) ==
    LET from == CHOOSE f \in spec.keyFrom : TRUE
    IN IF c.protocol = "unary" THEN AlignIdentifier(c.response, from.pointer, id)
       ELSE IF from.location = "request" THEN RequestBody(c)
       ELSE c.response

KeyedCall(table, spec, c, k) ==
    CASE spec.action = "create" -> StoreCreate(table, k, CreatedValue(spec, c, k.id))
      [] spec.action = "read" /\ k \in DOMAIN table -> Result(table, Body(table[k]))
      [] spec.action = "update" /\ k \in DOMAIN table ->
            Result([table EXCEPT ![k] = RequestBody(c)], Body(RequestBody(c)))
      [] spec.action = "delete" /\ k \in DOMAIN table -> Result(Drop(table, k), Empty)
      [] OTHER -> Result(table, Failed("ResourceNotFound"))

\* A listing holds the set of the namespace's resources: their order is Store's.
Listed(table, ns) ==
    [id |-> {}, text |-> {}, shape |-> "list",
     items |-> {table[k] : k \in {j \in DOMAIN table : j.namespace = ns}}]

ApplyStore(table, spec, c) ==
    LET ns  == BindNamespace(spec.resource, c.params)
        ids == IF spec.action = "create" THEN ResolveCreateKey(spec, c) ELSE ResolveKey(spec, c)
    IN IF spec.action = "list" THEN Result(table, Body(Listed(table, ns)))
       ELSE IF ids = {} THEN Result(table, Failed("ResourceNotFound"))
       ELSE KeyedCall(table, spec, c, [namespace |-> ns, id |-> CHOOSE id \in ids : TRUE])

\* An operation without a store interaction leaves the table alone.
StoreResult(table, op, c) ==
    IF op.store = {} THEN Result(table, Ungoverned)
    ELSE ApplyStore(table, CHOOSE spec \in op.store : TRUE, c)

-----------------------------------------------------------------------------
(* Response overrides: status -> optional body.  A declared status that is *)
(* no number ("default") is UnparsedStatus: it sorts last and reports 500. *)

UnparsedStatus == 600

FirstStatus(responses) ==
    CHOOSE s \in DOMAIN responses : \A u \in DOMAIN responses : s <= u

\* The state's override, else the catalogue's; never over a failure.
Overridden(outcome, m, s, op) ==
    LET chosen == IF StepResponses(m, s, op.name) # <<>>
                  THEN StepResponses(m, s, op.name)
                  ELSE op.responses
        first  == FirstStatus(chosen)
        status == IF first = UnparsedStatus THEN 500 ELSE first
    IN IF outcome.kind \in Failures \/ chosen = <<>> THEN outcome
       ELSE Outcome("Forced", status,
                    IF chosen[first] = {} /\ outcome.kind = "Body" THEN outcome.body
                    ELSE chosen[first])

-----------------------------------------------------------------------------
(* Seeding: the items of every entry in order, filed under their id or,    *)
(* without one, their index; an identifier stands for its decimal text.    *)

SeedItem(entry, i) ==
    [key |-> [namespace |-> entry.resource,
              id |-> IF entry.items[i].id = {} THEN i - 1
                     ELSE CHOOSE id \in entry.items[i].id : TRUE],
     value |-> entry.items[i]]

SeedItems(sc) ==
    LET F[i \in 0..Len(Seed[sc])] ==
            IF i = 0 THEN <<>>
            ELSE F[i - 1] \o [j \in DOMAIN Seed[sc][i].items |-> SeedItem(Seed[sc][i], j)]
    IN F[Len(Seed[sc])]

\* The table after the first n items of the seed: what collides or does not fit is
\* skipped with a warning.
Seeded(sc, n) ==
    LET items == SeedItems(sc)
        F[i \in 0..Len(items)] ==
            IF i = 0 THEN EmptyTable
            ELSE StoreCreate(F[i - 1], items[i].key, items[i].value).table
    IN F[n]

\* The table a fresh instance starts with.
SeedTable(sc) == Seeded(sc, Len(SeedItems(sc)))

=============================================================================
