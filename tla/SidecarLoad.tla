---------------------------- MODULE SidecarLoad ----------------------------
(***************************************************************************)
(* Loading a scenario sidecar (crates/specmock-core/src/sidecar.rs, parse) *)
(* and the search for dead states it runs on every scenario                *)
(* (crates/specmock-core/src/scenario.rs, unreachable_states).             *)
(*                                                                         *)
(* A document is a record of                                               *)
(*   readable    it deserializes                                           *)
(*   version     its version number                                        *)
(*   operations  operation name -> [store, reserved], store optional       *)
(*   scenarios   sequence of [name, initial, states], states mapping a     *)
(*               state to a map from operation names to optional targets   *)
(* An optional value is a set of at most one element.  Names are numbers:  *)
(* the code's maps are ordered by name, which decides the error reported.  *)
(***************************************************************************)
EXTENDS Integers, Sequences, FiniteSets, Functions

CONSTANT Documents    \* the documents the program may be started with

\* What deserializing gives.
Deserialized(d) ==
    /\ d.readable \in BOOLEAN
    /\ DOMAIN d.operations \subseteq Nat
    /\ \A o \in DOMAIN d.operations : d.operations[o].reserved \in BOOLEAN
    /\ d.scenarios \in Seq(Range(d.scenarios))
    /\ \A sc \in Range(d.scenarios) :
          /\ DOMAIN sc.states \subseteq Nat
          /\ \A s \in DOMAIN sc.states : DOMAIN sc.states[s] \subseteq Nat

ASSUME DocumentsAssumption == \A d \in Documents : Deserialized(d)

VARIABLES
    doc,         \* the document
    pc,          \* "parse", "search" or "done"
    verdict,     \* "Ok" or the error parse returns
    current,     \* the scenario being searched
    frontier,    \* states still to look at; a set, as their order leaves no trace
    reachable,   \* states found so far
    warnings     \* what collect_warnings has reported

vars == <<doc, pc, verdict, current, frontier, reachable, warnings>>

SupportedVersion == 1

\* UnknownState is declared and never constructed.
SidecarError ==
    {"Malformed", "UnsupportedVersion", "UnknownState", "UnknownTransitionTarget", "UnknownOperation",
     "DuplicateScenario", "UnknownInitialState", "MissingKey", "BadKeyPointer"}
SidecarWarning == {"UnreachableState", "UnusedOperation"}

-----------------------------------------------------------------------------
(* validate *)

Least(S) == CHOOSE x \in S : \A y \in S : x <= y

\* validate_operation: the pointer first, then the need for a key.
OperationError(entry) ==
    UNION {IF store.keyFrom = "malformed" THEN {"BadKeyPointer"}
           ELSE IF store.action # "list" /\ ~store.key /\ store.keyFrom = "none"
           THEN {"MissingKey"} ELSE {} : store \in entry.store}

\* One round of the first loop: the operation, then the reserved prefix.
EntryError(entry) ==
    IF OperationError(entry) # {} THEN OperationError(entry)
    ELSE IF entry.reserved THEN {"UnknownOperation"} ELSE {}

CatalogueError(d) ==
    LET bad == {o \in DOMAIN d.operations : EntryError(d.operations[o]) # {}}
    IN IF bad = {} THEN {} ELSE EntryError(d.operations[Least(bad)])

\* The steps of a scenario in the order of the two loops over them.
UnknownOperations(d, sc, s) == DOMAIN sc.states[s] \ DOMAIN d.operations
UnknownTargets(sc, s) ==
    {o \in DOMAIN sc.states[s] : ~(sc.states[s][o] \subseteq DOMAIN sc.states)}

StepError(d, sc) ==
    LET bad(s) == UnknownOperations(d, sc, s) \cup UnknownTargets(sc, s)
        in     == {s \in DOMAIN sc.states : bad(s) # {}}
        s      == Least(in)
    IN IF in = {} THEN {}
       ELSE IF Least(bad(s)) \in UnknownOperations(d, sc, s) THEN {"UnknownOperation"}
       ELSE {"UnknownTransitionTarget"}

\* Faulty variant: the initial state is taken on trust.
TrustInitial(d, i) ==
    LET sc == d.scenarios[i] IN
    IF \E j \in 1..(i - 1) : d.scenarios[j].name = sc.name THEN {"DuplicateScenario"}
    ELSE StepError(d, sc)

ScenarioError(d, i) ==
    LET sc == d.scenarios[i] IN
    IF \E j \in 1..(i - 1) : d.scenarios[j].name = sc.name THEN {"DuplicateScenario"}
    ELSE IF sc.initial \notin DOMAIN sc.states THEN {"UnknownInitialState"}
    ELSE StepError(d, sc)

ScenariosError(d) ==
    LET bad == {i \in DOMAIN d.scenarios : ScenarioError(d, i) # {}}
    IN IF bad = {} THEN {} ELSE ScenarioError(d, Least(bad))

ValidateError(d) == IF CatalogueError(d) # {} THEN CatalogueError(d) ELSE ScenariosError(d)

ParseError(d) ==
    IF ~d.readable THEN {"Malformed"}
    ELSE IF d.version # SupportedVersion THEN {"UnsupportedVersion"}
    ELSE ValidateError(d)

-----------------------------------------------------------------------------
(* collect_warnings *)

Targets(sc, s) == UNION {sc.states[s][o] : o \in DOMAIN sc.states[s]}

\* Every operation a state of the scenario declares.
Used(sc) == UNION {DOMAIN sc.states[s] : s \in DOMAIN sc.states}

Unreachable(sc, found) ==
    {[warning |-> "UnreachableState", scenario |-> sc.name, about |-> s] :
        s \in DOMAIN sc.states \ found}
Unused(d, sc) ==
    {[warning |-> "UnusedOperation", scenario |-> sc.name, about |-> o] :
        o \in DOMAIN d.operations \ Used(sc)}

Searched == doc.scenarios[current]

\* Faulty variant: the search goes on past the last scenario.
SearchPast(i) ==
    /\ current' = i
    /\ reachable' = {}
    /\ pc' = "search"
    /\ frontier' = {doc.scenarios[j].initial : j \in {i} \cap DOMAIN doc.scenarios}

\* Start the search of scenario i, or end.
Search(i) ==
    /\ current' = i
    /\ reachable' = {}
    /\ IF i \in DOMAIN doc.scenarios
       THEN pc' = "search" /\ frontier' = {doc.scenarios[i].initial}
       ELSE pc' = "done" /\ frontier' = {}

Init ==
    /\ doc \in Documents
    /\ pc = "parse"
    /\ verdict = "none"
    /\ current = 0
    /\ frontier = {}
    /\ reachable = {}
    /\ warnings = {}

Parse ==
    /\ pc = "parse"
    /\ \/ /\ ParseError(doc) # {}
          /\ verdict' \in ParseError(doc)
          /\ pc' = "done"
          /\ UNCHANGED <<current, frontier, reachable>>
       \/ /\ ParseError(doc) = {}
          /\ verdict' = "Ok"
          /\ Search(1)
    /\ UNCHANGED <<doc, warnings>>

\* Faulty variant: a state found before ends the search.
StopOnRepeat(s) ==
    /\ pc = "search"
    /\ s \in frontier
    /\ reachable' = reachable \cup {s}
    /\ frontier' = IF s \in reachable \/ s \notin DOMAIN Searched.states THEN {}
                   ELSE (frontier \ {s}) \cup Targets(Searched, s)
    /\ UNCHANGED <<doc, pc, verdict, current, warnings>>

\* Faulty variant: a state found before is expanded again.
PopAgain(s) ==
    /\ pc = "search"
    /\ s \in frontier
    /\ reachable' = reachable \cup {s}
    /\ frontier' = (frontier \ {s}) \cup
          (IF s \in DOMAIN Searched.states THEN Targets(Searched, s) ELSE {})
    /\ UNCHANGED <<doc, pc, verdict, current, warnings>>

\* One round of the search: a state found before, or never declared, adds nothing.
Pop(s) ==
    /\ pc = "search"
    /\ s \in frontier
    /\ reachable' = reachable \cup {s}
    /\ frontier' = (frontier \ {s}) \cup
          (IF s \in reachable \/ s \notin DOMAIN Searched.states
           THEN {} ELSE Targets(Searched, s))
    /\ UNCHANGED <<doc, pc, verdict, current, warnings>>

\* The search is over: report on the scenario and go on to the next.
Report ==
    /\ pc = "search"
    /\ frontier = {}
    /\ warnings' = (warnings \cup Unreachable(Searched, reachable)) \cup Unused(doc, Searched)
    /\ Search(current + 1)
    /\ UNCHANGED <<doc, verdict>>

Finished == pc = "done" /\ UNCHANGED vars

Next == Parse \/ (\E s \in frontier : Pop(s)) \/ Report \/ Finished

Spec == Init /\ [][Next]_vars

-----------------------------------------------------------------------------
(* Properties *)

\* parse runs to its verdict once, and the search for dead states is always at a
\* scenario of the document.
TypeOK ==
    /\ pc \in {"parse", "search", "done"}
    /\ current \in 0..(Len(doc.scenarios) + 1)
    /\ pc = "search" => current \in DOMAIN doc.scenarios
    /\ verdict \in {"none", "Ok"} \cup SidecarError
    /\ \A w \in warnings : w.warning \in SidecarWarning

\* A place for the runtime to find the identifier in: a create looks into the message
\* alone (resolve_create_key), every other keyed action at its path parameter first
\* (resolve_key), and a list needs none.
Addressable(store) ==
    \/ store.action = "list"
    \/ store.keyFrom # "none"
    \/ store.action # "create" /\ store.key

\* A create that names a path parameter and no message field: it can only answer 404.
Futile(store) == store.action = "create" /\ store.key /\ store.keyFrom = "none"

WithoutFutile(d) ==
    [readable |-> d.readable, version |-> d.version, scenarios |-> d.scenarios,
     operations |-> [o \in DOMAIN d.operations |->
        [reserved |-> d.operations[o].reserved,
         store    |-> {store \in d.operations[o].store : ~Futile(store)}]]]

\* What the runtime relies on in a sidecar: a request finds the one scenario of a
\* name, its instance starts in and moves to declared states only, every step is
\* an operation with a route, and every store interaction is addressable.
Runnable(d) ==
    /\ d.readable /\ d.version = SupportedVersion
    /\ \A o \in DOMAIN d.operations :
          /\ ~d.operations[o].reserved
          /\ \A store \in d.operations[o].store :
                /\ store.keyFrom # "malformed"
                /\ Addressable(store)
    /\ \A i, j \in DOMAIN d.scenarios : d.scenarios[i].name = d.scenarios[j].name => i = j
    /\ \A i \in DOMAIN d.scenarios :
          LET sc == d.scenarios[i] IN
          /\ sc.initial \in DOMAIN sc.states
          /\ \A s \in DOMAIN sc.states : \A o \in DOMAIN sc.states[s] :
                o \in DOMAIN d.operations /\ sc.states[s][o] \subseteq DOMAIN sc.states

\* parse lets a document through if and only if the runtime can run it, its futile
\* creates aside: nothing else that would fail at run time passes, and no document
\* is turned away that would not.
VerdictExact == pc # "parse" => (verdict = "Ok" <=> Runnable(WithoutFutile(doc)))

\* C holds the initial state and whatever a step leads to from C.
Closed(sc, C) ==
    /\ sc.initial \in C
    /\ \A s \in C \cap DOMAIN sc.states : Targets(sc, s) \subseteq C

\* A state that no chain of steps leads to from the initial one: some closed set
\* of declared states leaves it out.
Dead(sc, s) == \E C \in SUBSET DOMAIN sc.states : Closed(sc, C) /\ s \notin C

\* unreachable_states is exact: a state is reported if and only if it is dead, in
\* whatever order the search looks at the states.
DeadExact ==
    \A i \in 1..(current - 1) : \A s \in DOMAIN doc.scenarios[i].states :
        LET sc == doc.scenarios[i] IN
        Dead(sc, s) <=>
            [warning |-> "UnreachableState", scenario |-> sc.name, about |-> s] \in warnings

\* A search that was begun ends, cycles in the machine notwithstanding.
Ends == pc = "search" ~> pc = "done"

=============================================================================
