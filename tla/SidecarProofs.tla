--------------------------- MODULE SidecarProofs ---------------------------
(***************************************************************************)
(* parse accepts exactly the documents the runtime can run, futile creates *)
(* aside, and the search for dead states is exact, for every document.     *)
(***************************************************************************)
EXTENDS SidecarLoad, LeastElement, TLAPS

\* The loops of validate stop at the first offender: there is one.
LEMMA LeastIsIn ==
    ASSUME NEW S \in SUBSET Nat, S # {}
    PROVE  Least(S) \in S
<1>1. PICK x \in S : \A y \in S : x <= y
  BY LeastNat
<1>. QED
  BY <1>1 DEF Least

-----------------------------------------------------------------------------
(* validate *)

\* What a catalogue entry must be.
EntryOK(entry) ==
    /\ ~entry.reserved
    /\ \A store \in entry.store :
          /\ store.keyFrom # "malformed"
          /\ store.action = "list" \/ store.key \/ store.keyFrom # "none"

\* What a scenario must be, its name aside.
ScenarioOK(d, sc) ==
    /\ sc.initial \in DOMAIN sc.states
    /\ \A s \in DOMAIN sc.states : \A o \in DOMAIN sc.states[s] :
          o \in DOMAIN d.operations /\ sc.states[s][o] \subseteq DOMAIN sc.states

\* validate_operation and the reserved prefix find every fault of an entry.
LEMMA EntryErrorExact ==
    ASSUME NEW entry, entry.reserved \in BOOLEAN
    PROVE  /\ EntryError(entry) = {} <=> EntryOK(entry)
           /\ "Ok" \notin EntryError(entry)
<1>1. OperationError(entry) = {} <=>
         \A store \in entry.store :
            /\ store.keyFrom # "malformed"
            /\ store.action = "list" \/ store.key \/ store.keyFrom # "none"
  BY DEF OperationError
<1>2. "Ok" \notin OperationError(entry)
  BY DEF OperationError
<1>. QED
  BY <1>1, <1>2 DEF EntryError, EntryOK

LEMMA CatalogueErrorExact ==
    ASSUME NEW d \in Documents
    PROVE  /\ CatalogueError(d) = {} <=> \A o \in DOMAIN d.operations : EntryOK(d.operations[o])
           /\ "Ok" \notin CatalogueError(d)
<1>. DEFINE bad == {o \in DOMAIN d.operations : EntryError(d.operations[o]) # {}}
<1>1. bad \in SUBSET Nat
  BY DocumentsAssumption DEF Deserialized
<1>2. \A o \in DOMAIN d.operations : d.operations[o].reserved \in BOOLEAN
  BY DocumentsAssumption DEF Deserialized
<1>3. \A o \in DOMAIN d.operations : o \notin bad <=> EntryOK(d.operations[o])
  BY <1>2, EntryErrorExact
<1>4. bad # {} => Least(bad) \in bad
  BY <1>1, LeastIsIn
<1>5. CatalogueError(d) = IF bad = {} THEN {} ELSE EntryError(d.operations[Least(bad)])
  BY DEF CatalogueError
<1>6. \A o \in DOMAIN d.operations : "Ok" \notin EntryError(d.operations[o])
  BY <1>2, EntryErrorExact
<1>7. bad # {} => EntryError(d.operations[Least(bad)]) # {}
  BY <1>4
<1>. HIDE DEF bad
<1>8. CatalogueError(d) = {} <=> bad = {}
  BY <1>5, <1>7
<1>9. bad = {} <=> \A o \in DOMAIN d.operations : o \notin bad
  BY DEF bad
<1>10. bad # {} => Least(bad) \in DOMAIN d.operations
  BY <1>4 DEF bad
<1>11. "Ok" \notin CatalogueError(d)
  BY <1>5, <1>6, <1>10
<1>. QED
  BY <1>3, <1>8, <1>9, <1>11

\* The two inner loops find every step that is no step.
LEMMA StepErrorExact ==
    ASSUME NEW d \in Documents, NEW sc \in Range(d.scenarios), sc.initial \in DOMAIN sc.states
    PROVE  /\ StepError(d, sc) = {} <=> ScenarioOK(d, sc)
           /\ "Ok" \notin StepError(d, sc)
<1>1. StepError(d, sc) = {} <=>
         \A s \in DOMAIN sc.states : UnknownOperations(d, sc, s) \cup UnknownTargets(sc, s) = {}
  BY DEF StepError
<1>2. ASSUME NEW s \in DOMAIN sc.states
      PROVE  UnknownOperations(d, sc, s) \cup UnknownTargets(sc, s) = {} <=>
             \A o \in DOMAIN sc.states[s] :
                o \in DOMAIN d.operations /\ sc.states[s][o] \subseteq DOMAIN sc.states
  BY DEF UnknownOperations, UnknownTargets
<1>3. "Ok" \notin StepError(d, sc)
  BY DEF StepError
<1>. QED
  BY <1>1, <1>2, <1>3 DEF ScenarioOK

LEMMA ScenarioErrorExact ==
    ASSUME NEW d \in Documents, NEW i \in DOMAIN d.scenarios
    PROVE  /\ ScenarioError(d, i) = {} <=>
                 /\ \A j \in 1..(i - 1) : d.scenarios[j].name # d.scenarios[i].name
                 /\ ScenarioOK(d, d.scenarios[i])
           /\ "Ok" \notin ScenarioError(d, i)
<1>1. d.scenarios[i] \in Range(d.scenarios)
  BY DEF Range
<1>. QED
  BY <1>1, StepErrorExact DEF ScenarioError, ScenarioOK

LEMMA ScenariosErrorExact ==
    ASSUME NEW d \in Documents
    PROVE  /\ ScenariosError(d) = {} <=>
                 /\ \A i, j \in DOMAIN d.scenarios : d.scenarios[i].name = d.scenarios[j].name => i = j
                 /\ \A i \in DOMAIN d.scenarios : ScenarioOK(d, d.scenarios[i])
           /\ "Ok" \notin ScenariosError(d)
<1>. DEFINE bad == {i \in DOMAIN d.scenarios : ScenarioError(d, i) # {}}
<1>1. d.scenarios \in Seq(Range(d.scenarios))
  BY DocumentsAssumption DEF Deserialized
<1>2. DOMAIN d.scenarios = 1..Len(d.scenarios) /\ Len(d.scenarios) \in Nat
  BY <1>1
<1>3. bad \in SUBSET Nat
  BY <1>2
<1>4. ScenariosError(d) = IF bad = {} THEN {} ELSE ScenarioError(d, Least(bad))
  BY DEF ScenariosError
<1>5. bad # {} => Least(bad) \in bad
  BY <1>3, LeastIsIn
<1>6. bad # {} => "Ok" \notin ScenarioError(d, Least(bad))
  <2>. SUFFICES ASSUME bad # {} PROVE "Ok" \notin ScenarioError(d, Least(bad))
    OBVIOUS
  <2>1. Least(bad) \in DOMAIN d.scenarios
    BY <1>5
  <2>. QED
    BY <2>1, ScenarioErrorExact
<1>7. bad # {} => ScenarioError(d, Least(bad)) # {}
  BY <1>5
<1>8. \A i \in DOMAIN d.scenarios : i \notin bad <=>
         /\ \A j \in 1..(i - 1) : d.scenarios[j].name # d.scenarios[i].name
         /\ ScenarioOK(d, d.scenarios[i])
  BY ScenarioErrorExact
<1>9. bad = {} <=> \A i \in DOMAIN d.scenarios : i \notin bad
  OBVIOUS
<1>. HIDE DEF bad
<1>10. (\A i \in DOMAIN d.scenarios : \A j \in 1..(i - 1) : d.scenarios[j].name # d.scenarios[i].name)
       <=> \A i, j \in DOMAIN d.scenarios : d.scenarios[i].name = d.scenarios[j].name => i = j
  <2>1. ASSUME \A i \in DOMAIN d.scenarios : \A j \in 1..(i - 1) : d.scenarios[j].name # d.scenarios[i].name,
               NEW i \in DOMAIN d.scenarios, NEW j \in DOMAIN d.scenarios,
               d.scenarios[i].name = d.scenarios[j].name
        PROVE  i = j
    <3>1. i \in Nat /\ j \in Nat /\ 1 <= i /\ 1 <= j
      BY <1>2
    <3>2. ~(j < i)
      <4>1. j < i => j \in 1..(i - 1)
        BY <3>1
      <4>. QED
        BY <4>1, <2>1
    <3>3. ~(i < j)
      <4>1. i < j => i \in 1..(j - 1)
        BY <3>1
      <4>. QED
        BY <4>1, <2>1
    <3>. QED
      BY <3>1, <3>2, <3>3
  <2>2. ASSUME \A i, j \in DOMAIN d.scenarios : d.scenarios[i].name = d.scenarios[j].name => i = j,
               NEW i \in DOMAIN d.scenarios, NEW j \in 1..(i - 1)
        PROVE  d.scenarios[j].name # d.scenarios[i].name
    <3>1. j \in DOMAIN d.scenarios /\ j # i
      BY <1>2
    <3>. QED
      BY <3>1, <2>2
  <2>. QED
    BY <2>1, <2>2
<1>11. ScenariosError(d) = {} <=> bad = {}
  BY <1>4, <1>7
<1>. QED
  BY <1>4, <1>6, <1>8, <1>9, <1>10, <1>11

\* parse fails if and only if the runtime could not run the document, futile creates aside.
LEMMA ParseErrorExact ==
    ASSUME NEW d \in Documents
    PROVE  /\ ParseError(d) = {} <=> Runnable(WithoutFutile(d))
           /\ "Ok" \notin ParseError(d)
<1>1. d.readable \in BOOLEAN
  BY DocumentsAssumption DEF Deserialized
<1>2. Runnable(WithoutFutile(d)) <=>
        /\ d.readable /\ d.version = SupportedVersion
        /\ \A o \in DOMAIN d.operations : EntryOK(d.operations[o])
        /\ \A i, j \in DOMAIN d.scenarios : d.scenarios[i].name = d.scenarios[j].name => i = j
        /\ \A i \in DOMAIN d.scenarios : ScenarioOK(d, d.scenarios[i])
  <2> DEFINE w == WithoutFutile(d)
  <2>1. /\ w.readable = d.readable /\ w.version = d.version /\ w.scenarios = d.scenarios
        /\ DOMAIN w.operations = DOMAIN d.operations
        /\ \A o \in DOMAIN d.operations :
              /\ w.operations[o].reserved = d.operations[o].reserved
              /\ w.operations[o].store = {store \in d.operations[o].store : ~Futile(store)}
    BY DEF WithoutFutile
  <2>2. ASSUME NEW store
        PROVE  (~Futile(store) => store.keyFrom # "malformed" /\ Addressable(store))
               <=> /\ store.keyFrom # "malformed"
                   /\ store.action = "list" \/ store.key \/ store.keyFrom # "none"
    BY DEF Futile, Addressable
  <2> HIDE DEF w
  <2>3. ASSUME NEW o \in DOMAIN d.operations
        PROVE  EntryOK(d.operations[o]) <=>
                  /\ ~w.operations[o].reserved
                  /\ \A store \in w.operations[o].store :
                        store.keyFrom # "malformed" /\ Addressable(store)
    BY <2>1, <2>2 DEF EntryOK
  <2>4. \A i \in DOMAIN d.scenarios : ScenarioOK(d, d.scenarios[i]) <=> ScenarioOK(w, w.scenarios[i])
    BY <2>1 DEF ScenarioOK
  <2>5. Runnable(w) <=>
          /\ w.readable /\ w.version = SupportedVersion
          /\ \A o \in DOMAIN w.operations :
                /\ ~w.operations[o].reserved
                /\ \A store \in w.operations[o].store :
                      store.keyFrom # "malformed" /\ Addressable(store)
          /\ \A i, j \in DOMAIN w.scenarios : w.scenarios[i].name = w.scenarios[j].name => i = j
          /\ \A i \in DOMAIN w.scenarios : ScenarioOK(w, w.scenarios[i])
    BY DEF Runnable, ScenarioOK
  <2>6. Runnable(w) <=>
          /\ d.readable /\ d.version = SupportedVersion
          /\ \A o \in DOMAIN d.operations : EntryOK(d.operations[o])
          /\ \A i, j \in DOMAIN d.scenarios : d.scenarios[i].name = d.scenarios[j].name => i = j
          /\ \A i \in DOMAIN d.scenarios : ScenarioOK(d, d.scenarios[i])
    BY <2>1, <2>3, <2>4, <2>5
  <2> QED
    BY <2>6 DEF w
<1>3. ValidateError(d) = {} <=> CatalogueError(d) = {} /\ ScenariosError(d) = {}
  BY DEF ValidateError
<1>4. "Ok" \notin ValidateError(d)
  BY CatalogueErrorExact, ScenariosErrorExact DEF ValidateError
<1>5. ParseError(d) = {} <=> d.readable /\ d.version = SupportedVersion /\ ValidateError(d) = {}
  BY <1>1 DEF ParseError
<1>. QED
  BY <1>1, <1>2, <1>3, <1>4, <1>5, CatalogueErrorExact, ScenariosErrorExact DEF ParseError

\* Whatever parse reports is an error that SidecarError declares.
LEMMA ErrorsDeclared ==
    ASSUME NEW d
    PROVE  ParseError(d) \subseteq SidecarError
<1>1. \A entry : OperationError(entry) \subseteq SidecarError
  BY DEF OperationError, SidecarError
<1>2. \A entry : EntryError(entry) \subseteq SidecarError
  BY <1>1 DEF EntryError, SidecarError
<1>3. CatalogueError(d) \subseteq SidecarError
  BY <1>2 DEF CatalogueError
<1>4. \A sc : StepError(d, sc) \subseteq SidecarError
  BY DEF StepError, SidecarError
<1>5. \A i : ScenarioError(d, i) \subseteq SidecarError
  BY <1>4 DEF ScenarioError, SidecarError
<1>6. ScenariosError(d) \subseteq SidecarError
  BY <1>5 DEF ScenariosError
<1>. QED
  BY <1>3, <1>6 DEF ParseError, ValidateError, SidecarError

-----------------------------------------------------------------------------
(* The verdict and the positions of the search.                            *)

VerdictInv ==
    /\ doc \in Documents
    /\ TypeOK
    /\ VerdictExact
    /\ current > 0 => verdict = "Ok" /\ pc # "parse"

LEMMA ScenarioIndices ==
    ASSUME NEW d \in Documents
    PROVE  DOMAIN d.scenarios = 1..Len(d.scenarios) /\ Len(d.scenarios) \in Nat
<1>1. d.scenarios \in Seq(Range(d.scenarios))
  BY DocumentsAssumption DEF Deserialized
<1>. QED
  BY <1>1

LEMMA VerdictInvInductive == VerdictInv /\ [Next]_vars => VerdictInv'
<1>. SUFFICES ASSUME VerdictInv, [Next]_vars PROVE VerdictInv'
  OBVIOUS
<1>1. DOMAIN doc.scenarios = 1..Len(doc.scenarios) /\ Len(doc.scenarios) \in Nat
  BY ScenarioIndices DEF VerdictInv
<1>2. CASE Parse
  <2>1. doc' = doc
    BY <1>2 DEF Parse
  <2>2. (ParseError(doc) = {} <=> Runnable(WithoutFutile(doc))) /\ "Ok" \notin ParseError(doc)
    BY ParseErrorExact DEF VerdictInv
  <2>3. CASE ParseError(doc) # {}
    <3>1. verdict' # "Ok" /\ pc' = "done" /\ current' = current
      BY <1>2, <2>2, <2>3 DEF Parse
    <3>2. current = 0
      BY <1>2 DEF Parse, VerdictInv, TypeOK
    <3>3. verdict' \in SidecarError /\ warnings' = warnings
      BY <1>2, <2>3, ErrorsDeclared DEF Parse
    <3>4. TypeOK'
      BY <1>1, <2>1, <3>1, <3>2, <3>3 DEF VerdictInv, TypeOK
    <3>. QED
      BY <2>1, <2>2, <2>3, <3>1, <3>2, <3>4 DEF VerdictInv, VerdictExact
  <2>4. CASE ParseError(doc) = {}
    <3>1. verdict' = "Ok" /\ current' = 1 /\ Search(1)
      BY <1>2, <2>4 DEF Parse, Search
    <3>2. /\ pc' \in {"search", "done"}
          /\ pc' = "search" => 1 \in DOMAIN doc.scenarios
      BY <3>1 DEF Search
    <3>3. warnings' = warnings
      BY <1>2 DEF Parse
    <3>4. TypeOK'
      BY <1>1, <2>1, <3>1, <3>2, <3>3 DEF VerdictInv, TypeOK
    <3>. QED
      BY <2>1, <2>2, <2>4, <3>1, <3>2, <3>4 DEF VerdictInv, VerdictExact
  <2>. QED
    BY <2>3, <2>4
<1>3. CASE \E s \in frontier : Pop(s)
  BY <1>3 DEF Pop, VerdictInv, TypeOK, VerdictExact
<1>4. CASE Report
  <2>1. doc' = doc /\ verdict' = verdict /\ current' = current + 1 /\ pc = "search"
    BY <1>4 DEF Report, Search
  <2>2. /\ pc' \in {"search", "done"}
        /\ pc' = "search" => current' \in DOMAIN doc.scenarios
    BY <1>4, <2>1 DEF Report, Search
  <2>3. current \in DOMAIN doc.scenarios
    BY <2>1 DEF VerdictInv, TypeOK
  <2>4. current' \in 0..(Len(doc.scenarios) + 1)
    BY <1>1, <2>1, <2>3
  <2>5. verdict = "Ok"
    BY <1>1, <2>3 DEF VerdictInv
  <2>6. \A w \in warnings' : w.warning \in SidecarWarning
    BY <1>4 DEF Report, Unreachable, Unused, SidecarWarning, VerdictInv, TypeOK
  <2>7. TypeOK'
    BY <2>1, <2>2, <2>4, <2>5, <2>6 DEF TypeOK
  <2>. QED
    BY <2>1, <2>2, <2>5, <2>7 DEF VerdictInv, VerdictExact
<1>5. CASE Finished \/ UNCHANGED vars
  BY <1>5 DEF Finished, vars, VerdictInv, TypeOK, VerdictExact
<1>. QED
  BY <1>2, <1>3, <1>4, <1>5 DEF Next

LEMMA VerdictInvInitial == Init => VerdictInv
<1>. SUFFICES ASSUME Init PROVE VerdictInv
  OBVIOUS
<1>1. Len(doc.scenarios) \in Nat
  BY ScenarioIndices DEF Init
<1>. QED
  BY <1>1 DEF Init, VerdictInv, TypeOK, VerdictExact

LEMMA VerdictInvHolds == Spec => []VerdictInv
<1>. QED
  BY VerdictInvInitial, VerdictInvInductive, PTL DEF Spec

\* For every document, sidecar::parse lets it through if and only if the runtime
\* can run it, its futile creates aside: no other fault passes, and no document is
\* turned away that the runtime could run.
THEOREM VerdictIsExact == Spec => []VerdictExact
<1>1. VerdictInv => VerdictExact
  BY DEF VerdictInv
<1>. QED
  BY <1>1, VerdictInvHolds, PTL

\* For every document, parse and collect_warnings stay within the scenarios of the
\* document and report declared errors and warnings only.
THEOREM LoadTypeCorrect == Spec => []TypeOK
<1>1. VerdictInv => TypeOK
  BY DEF VerdictInv
<1>. QED
  BY <1>1, VerdictInvHolds, PTL

-----------------------------------------------------------------------------
(* The search.  What it has found or is about to look at lies in every     *)
(* closed set, and what it has found leads only to what it has found or is *)
(* about to look at: once the frontier is empty, what it has found is the  *)
(* least closed set.                                                       *)

SearchInv ==
    pc = "search" =>
        /\ Searched.initial \in reachable \cup frontier
        /\ \A s \in reachable \cap DOMAIN Searched.states :
              Targets(Searched, s) \subseteq reachable \cup frontier
        /\ \A C \in SUBSET DOMAIN Searched.states :
              Closed(Searched, C) => reachable \cup frontier \subseteq C

DeadWarning(sc, s) == [warning |-> "UnreachableState", scenario |-> sc.name, about |-> s]

\* Warnings are about scenarios the search has been through.
WarningsInv ==
    \A w \in warnings : w.warning = "UnreachableState" =>
        \E i \in 1..(current - 1) : w.scenario = doc.scenarios[i].name

DeadInv == VerdictInv /\ SearchInv /\ WarningsInv /\ DeadExact

\* In a runnable document the declared states of a scenario form a closed set.
LEMMA DeclaredClosed ==
    ASSUME NEW d \in Documents, Runnable(WithoutFutile(d)), NEW i \in DOMAIN d.scenarios
    PROVE  Closed(d.scenarios[i], DOMAIN d.scenarios[i].states)
<1>1. WithoutFutile(d).scenarios = d.scenarios
  BY DEF WithoutFutile
<1>. QED
  BY <1>1 DEF Runnable, Closed, Targets

\* A finished search has found exactly the states that are not dead.
LEMMA SearchExact ==
    ASSUME NEW sc, NEW found,
           Closed(sc, DOMAIN sc.states),
           sc.initial \in found,
           \A s \in found \cap DOMAIN sc.states : Targets(sc, s) \subseteq found,
           \A C \in SUBSET DOMAIN sc.states : Closed(sc, C) => found \subseteq C,
           NEW s \in DOMAIN sc.states
    PROVE  Dead(sc, s) <=> s \notin found
<1>1. found \in SUBSET DOMAIN sc.states
  OBVIOUS
<1>2. Closed(sc, found)
  BY DEF Closed
<1>. QED
  BY <1>1, <1>2 DEF Dead

LEMMA SearchStarts ==
    ASSUME VerdictInv, VerdictInv', doc' = doc, NEW i \in Nat, Search(i)
    PROVE  SearchInv'
<1>. SUFFICES ASSUME pc' = "search" PROVE SearchInv'
  BY DEF SearchInv
<1>1. reachable' = {} /\ frontier' = {doc.scenarios[i].initial} /\ Searched' = doc.scenarios[i]
  BY DEF Search, Searched
<1>. QED
  BY <1>1 DEF SearchInv, Closed

LEMMA PopKeepsSearchInv ==
    ASSUME SearchInv, NEW s \in frontier, Pop(s)
    PROVE  SearchInv'
<1>. DEFINE sc == Searched
            seen == reachable \cup frontier
            new == IF s \in reachable \/ s \notin DOMAIN sc.states THEN {} ELSE Targets(sc, s)
<1>1. /\ pc = "search" /\ pc' = pc /\ Searched' = sc
      /\ reachable' = reachable \cup {s}
      /\ frontier' = (frontier \ {s}) \cup new
  BY DEF Pop, Searched
<1>2. /\ sc.initial \in seen
      /\ \A x \in reachable \cap DOMAIN sc.states : Targets(sc, x) \subseteq seen
      /\ \A C \in SUBSET DOMAIN sc.states : Closed(sc, C) => seen \subseteq C
  BY <1>1 DEF SearchInv
<1>. HIDE DEF sc
<1>3. reachable' \cup frontier' = seen \cup new
  BY <1>1
<1>4. ASSUME NEW x \in reachable' \cap DOMAIN sc.states
      PROVE  Targets(sc, x) \subseteq seen \cup new
  <2>1. CASE x \in reachable
    BY <1>2, <2>1
  <2>2. CASE x \notin reachable
    <3>1. x = s
      BY <1>1, <2>2
    <3>. QED
      BY <2>2, <3>1
  <2>. QED
    BY <2>1, <2>2
<1>5. ASSUME NEW C \in SUBSET DOMAIN sc.states, Closed(sc, C)
      PROVE  seen \cup new \subseteq C
  <2>1. seen \subseteq C
    BY <1>2, <1>5
  <2>2. s \in C
    BY <2>1
  <2>3. new \subseteq C
    BY <1>5, <2>2 DEF Closed
  <2>. QED
    BY <2>1, <2>3
<1>. HIDE DEF seen, new
<1>6. sc.initial \in seen \cup new
  BY <1>2
<1>. QED
  BY <1>1, <1>3, <1>4, <1>5, <1>6 DEF SearchInv

LEMMA ReportKeepsDead ==
    ASSUME DeadInv, VerdictInv', Report
    PROVE  WarningsInv' /\ DeadExact'
<1>1. /\ pc = "search" /\ frontier = {} /\ doc' = doc /\ current' = current + 1
      /\ warnings' = (warnings \cup Unreachable(Searched, reachable)) \cup Unused(doc, Searched)
  BY DEF Report, Search
<1>2. DOMAIN doc.scenarios = 1..Len(doc.scenarios) /\ Len(doc.scenarios) \in Nat
  BY ScenarioIndices DEF DeadInv, VerdictInv
<1>3. current \in DOMAIN doc.scenarios /\ current \in Nat /\ current > 0
  BY <1>1, <1>2 DEF DeadInv, VerdictInv, TypeOK
<1>4. Runnable(WithoutFutile(doc))
  BY <1>1, <1>3 DEF DeadInv, VerdictInv, VerdictExact
<1>5. \A i, j \in DOMAIN doc.scenarios : doc.scenarios[i].name = doc.scenarios[j].name => i = j
  <2>1. WithoutFutile(doc).scenarios = doc.scenarios
    BY DEF WithoutFutile
  <2>. QED
    BY <1>4, <2>1 DEF Runnable
<1>6. 1..(current' - 1) = 1..(current - 1) \cup {current}
  BY <1>1, <1>3
<1>7. \A w \in Unused(doc, Searched) : w.warning # "UnreachableState"
  BY DEF Unused
<1>8. \A w \in Unreachable(Searched, reachable) : w.scenario = doc.scenarios[current].name
  BY DEF Unreachable, Searched
<1>9. WarningsInv'
  <2>. SUFFICES ASSUME NEW w \in warnings', w.warning = "UnreachableState"
                PROVE  \E i \in 1..(current' - 1) : w.scenario = doc'.scenarios[i].name
    BY DEF WarningsInv
  <2>1. CASE w \in warnings
    BY <1>1, <1>6, <2>1 DEF DeadInv, WarningsInv
  <2>2. CASE w \in Unreachable(Searched, reachable)
    BY <1>1, <1>6, <1>8, <2>2
  <2>. QED
    BY <1>1, <1>7, <2>1, <2>2
<1>10. ASSUME NEW i \in 1..(current - 1), NEW s \in DOMAIN doc.scenarios[i].states
       PROVE  Dead(doc.scenarios[i], s) <=> DeadWarning(doc.scenarios[i], s) \in warnings'
  <2>. DEFINE w == DeadWarning(doc.scenarios[i], s)
  <2>1. i \in DOMAIN doc.scenarios /\ i # current
    BY <1>2, <1>3
  <2>2. doc.scenarios[i].name # doc.scenarios[current].name
    BY <1>3, <1>5, <2>1
  <2>3. w.warning = "UnreachableState" /\ w.scenario = doc.scenarios[i].name
    BY DEF DeadWarning
  <2>4. w \notin Unreachable(Searched, reachable) /\ w \notin Unused(doc, Searched)
    BY <1>7, <1>8, <2>2, <2>3
  <2>5. w \in warnings' <=> w \in warnings
    BY <1>1, <2>4
  <2>6. Dead(doc.scenarios[i], s) <=> w \in warnings
    BY DEF DeadInv, DeadExact, DeadWarning
  <2>. QED
    BY <2>5, <2>6
<1>11. ASSUME NEW s \in DOMAIN doc.scenarios[current].states
       PROVE  Dead(doc.scenarios[current], s) <=> DeadWarning(doc.scenarios[current], s) \in warnings'
  <2>. DEFINE sc == doc.scenarios[current]
              w == DeadWarning(sc, s)
  <2>1. w.warning = "UnreachableState" /\ w.scenario = sc.name /\ w.about = s
    BY DEF DeadWarning
  <2>2. w \notin warnings
    <3>. SUFFICES ASSUME w \in warnings PROVE FALSE
      OBVIOUS
    <3>1. PICK i \in 1..(current - 1) : w.scenario = doc.scenarios[i].name
      BY <2>1 DEF DeadInv, WarningsInv
    <3>2. i \in DOMAIN doc.scenarios /\ i # current
      BY <1>2, <1>3
    <3>. QED
      BY <1>3, <1>5, <2>1, <3>1, <3>2
  <2>3. w \notin Unused(doc, Searched)
    BY <1>7, <2>1
  <2>4. w \in Unreachable(Searched, reachable) <=> s \notin reachable
    <3>1. \A v \in Unreachable(Searched, reachable) : v.about \notin reachable
      BY DEF Unreachable
    <3>2. s \notin reachable => w \in Unreachable(Searched, reachable)
      BY DEF Unreachable, Searched, DeadWarning
    <3>. QED
      BY <2>1, <3>1, <3>2
  <2>5. w \in warnings' <=> s \notin reachable
    BY <1>1, <2>2, <2>3, <2>4
  <2>6. /\ sc.initial \in reachable
        /\ \A x \in reachable \cap DOMAIN sc.states : Targets(sc, x) \subseteq reachable
        /\ \A C \in SUBSET DOMAIN sc.states : Closed(sc, C) => reachable \subseteq C
    <3>1. reachable \cup frontier = reachable
      BY <1>1
    <3>. QED
      BY <1>1, <3>1 DEF DeadInv, SearchInv, Searched
  <2>7. Closed(sc, DOMAIN sc.states)
    BY <1>3, <1>4, DeclaredClosed DEF DeadInv, VerdictInv
  <2>8. Dead(sc, s) <=> s \notin reachable
    BY <2>6, <2>7, SearchExact
  <2>. QED
    BY <2>5, <2>8
<1>12. DeadExact'
  <2>. SUFFICES ASSUME NEW i \in 1..(current' - 1), NEW s \in DOMAIN doc.scenarios[i].states
                PROVE  Dead(doc.scenarios[i], s) <=> DeadWarning(doc.scenarios[i], s) \in warnings'
    BY <1>1 DEF DeadExact, DeadWarning
  <2>1. CASE i \in 1..(current - 1)
    BY <1>10, <2>1
  <2>2. CASE i = current
    BY <1>11, <2>2
  <2>. QED
    BY <1>6, <2>1, <2>2
<1>. QED
  BY <1>9, <1>12

LEMMA DeadInvInductive == DeadInv /\ [Next]_vars => DeadInv'
<1>. SUFFICES ASSUME DeadInv, [Next]_vars PROVE DeadInv'
  OBVIOUS
<1>1. VerdictInv'
  BY VerdictInvInductive DEF DeadInv
<1>2. CASE Parse
  <2>1. doc' = doc /\ warnings' = warnings /\ pc = "parse"
    BY <1>2 DEF Parse
  <2>2. current = 0
    BY <2>1 DEF DeadInv, VerdictInv, TypeOK
  <2>3. SearchInv'
    <3>1. CASE Search(1)
      BY <1>1, <2>1, <3>1, SearchStarts DEF DeadInv
    <3>2. CASE pc' = "done"
      BY <3>2 DEF SearchInv
    <3>. QED
      BY <1>2, <3>1, <3>2 DEF Parse
  <2>4. \A w \in warnings : w.warning # "UnreachableState"
    BY <2>2 DEF DeadInv, WarningsInv
  <2>5. WarningsInv'
    BY <2>1, <2>4 DEF WarningsInv
  <2>6. current' \in {0, 1}
    BY <1>2, <2>2 DEF Parse, Search
  <2>7. DeadExact'
    BY <2>6 DEF DeadExact
  <2>. QED
    BY <1>1, <2>3, <2>5, <2>7 DEF DeadInv
<1>3. CASE \E s \in frontier : Pop(s)
  <2>1. PICK s \in frontier : Pop(s)
    BY <1>3
  <2>2. SearchInv'
    BY <2>1, PopKeepsSearchInv DEF DeadInv
  <2>3. doc' = doc /\ current' = current /\ warnings' = warnings
    BY <2>1 DEF Pop
  <2>4. WarningsInv' /\ DeadExact'
    BY <2>3 DEF DeadInv, WarningsInv, DeadExact
  <2>. QED
    BY <1>1, <2>2, <2>4 DEF DeadInv
<1>4. CASE Report
  <2>1. doc' = doc /\ Search(current + 1) /\ pc = "search"
    BY <1>4 DEF Report
  <2>2. current + 1 \in Nat
    BY <2>1, ScenarioIndices DEF DeadInv, VerdictInv, TypeOK
  <2>3. SearchInv'
    BY <1>1, <2>1, <2>2, SearchStarts DEF DeadInv
  <2>. QED
    BY <1>1, <1>4, <2>3, ReportKeepsDead DEF DeadInv
<1>5. CASE Finished \/ UNCHANGED vars
  <2>1. UNCHANGED vars
    BY <1>5 DEF Finished
  <2>. QED
    BY <1>1, <2>1 DEF vars, DeadInv, SearchInv, Searched, WarningsInv, DeadExact
<1>. QED
  BY <1>2, <1>3, <1>4, <1>5 DEF Next

\* For every document, Scenario::unreachable_states reports exactly the states no
\* chain of steps leads to, whatever the order of the search.
THEOREM DeadIsExact == Spec => []DeadExact
<1>1. Init => DeadInv
  <2>1. Init => VerdictInv
    BY VerdictInvInitial
  <2>2. Init => SearchInv /\ WarningsInv /\ DeadExact
    BY DEF Init, SearchInv, WarningsInv, DeadExact
  <2>. QED
    BY <2>1, <2>2 DEF DeadInv
<1>2. DeadInv => DeadExact
  BY DEF DeadInv
<1>. QED
  BY <1>1, <1>2, DeadInvInductive, PTL DEF Spec

=============================================================================
