------------------------------- MODULE Router -------------------------------
(***************************************************************************)
(* The path router (crates/specmock-runtime/src/http/router.rs): a trie of *)
(* segment matchers built from the operations of a document, and the walk  *)
(* that finds the operation of a request.                                  *)
(*                                                                         *)
(* A matcher is [kind |-> "Literal" or "Param", name]; a template is a     *)
(* sequence of matchers.  A node of the trie is the sequence of matchers   *)
(* that leads to it.  An optional value is a set of at most one element.   *)
(***************************************************************************)
EXTENDS Integers, Sequences, FiniteSets, Functions

Literal(text) == [kind |-> "Literal", name |-> text]
Param(name) == [kind |-> "Param", name |-> name]

Matchers == [kind : {"Literal", "Param"}, name : STRING]
Templated(operations) ==
    /\ operations \in Seq(Range(operations))
    /\ \A operation \in Range(operations) : operation.template \in Seq(Matchers)

-----------------------------------------------------------------------------
(* Construction *)

EmptyTrie == [children |-> [root \in {<<>>} |-> <<>>], operations |-> [root \in {<<>>} |-> <<>>]]

\* One operation: an edge for every segment that has none, pushed last, and the
\* method with the index of the operation at the end.
InsertOperation(trie, operation, index) ==
    LET template == operation.template
        path     == {SubSeq(template, 1, n) : n \in 0..Len(template)}
        nodes    == DOMAIN trie.children \cup path
        edges(n) == IF n \in DOMAIN trie.children THEN trie.children[n] ELSE <<>>
        here(n)  == IF n \in DOMAIN trie.operations THEN trie.operations[n] ELSE <<>>
        grown(n) == LET head == template[Len(n) + 1] IN
                    IF head \in Range(edges(n)) THEN edges(n) ELSE Append(edges(n), head)
    IN [children   |-> [n \in nodes |-> IF n \in path \ {template} THEN grown(n) ELSE edges(n)],
        operations |-> [n \in nodes |-> IF n = template
                            THEN Append(here(n), [method |-> operation.method, index |-> index])
                            ELSE here(n)]]

Build(operations) ==
    LET built[n \in 0..Len(operations)] ==
            IF n = 0 THEN EmptyTrie ELSE InsertOperation(built[n - 1], operations[n], n)
    IN built[Len(operations)]

-----------------------------------------------------------------------------
(* Matching *)

\* The operation of a node for a method.
At(trie, node, method) ==
    {i \in DOMAIN trie.operations[node] : trie.operations[node][i].method = method}

\* The edges a segment can take, and their turns: the literal one, then the parameters.
Takes(edge, segment) == edge = Literal(segment) \/ edge.kind = "Param"
Before(edges, i, j) ==
    IF edges[i].kind # edges[j].kind THEN edges[i].kind = "Literal" ELSE i < j

\* A parameter bound deeper down replaces one of the same name.
NoParams == [name \in {} |-> name]
Bind(params, edge, segment) ==
    IF edge.kind = "Literal" \/ edge.name \in DOMAIN params THEN params
    ELSE [name \in DOMAIN params \cup {edge.name} |-> IF name = edge.name THEN segment ELSE params[name]]

\* Faulty variant: the first edge a segment can take is final.
WalkCommitted(trie, segments, method) ==
    LET walk[left \in 0..Len(segments)] == [node \in DOMAIN trie.children |->
            LET segment == segments[Len(segments) - left + 1]
                edges   == trie.children[node]
                takes   == {i \in DOMAIN edges : Takes(edges[i], segment)}
                edge    == edges[CHOOSE i \in takes : \A j \in takes \ {i} : Before(edges, i, j)]
            IN IF left = 0
               THEN IF At(trie, node, method) = {} THEN {} ELSE {[node |-> node, params |-> NoParams]}
               ELSE IF takes = {} THEN {}
               ELSE {[node |-> found.node, params |-> Bind(found.params, edge, segment)] :
                        found \in walk[left - 1][Append(node, edge)]}]
    IN walk[Len(segments)][<<>>]

\* From a node, with some of the segments left: the first edge below which the walk
\* succeeds.
Walk(trie, segments, method) ==
    LET walk[left \in 0..Len(segments)] == [node \in DOMAIN trie.children |->
            LET segment == segments[Len(segments) - left + 1]
                edges   == trie.children[node]
                good    == {i \in DOMAIN edges : /\ Takes(edges[i], segment)
                                                /\ walk[left - 1][Append(node, edges[i])] # {}}
                edge    == edges[CHOOSE i \in good : \A j \in good \ {i} : Before(edges, i, j)]
            IN IF left = 0
               THEN IF At(trie, node, method) = {} THEN {} ELSE {[node |-> node, params |-> NoParams]}
               ELSE IF good = {} THEN {}
               ELSE {[node |-> found.node, params |-> Bind(found.params, edge, segment)] :
                        found \in walk[left - 1][Append(node, edge)]}]
    IN walk[Len(segments)][<<>>]

\* match_route: the operation declared first for the method at the node found.
MatchRoute(trie, method, segments) ==
    {[index  |-> LET at == At(trie, found.node, method) IN
                 trie.operations[found.node][CHOOSE i \in at : \A j \in at : i <= j].index,
      params |-> found.params] : found \in Walk(trie, segments, method)}

-----------------------------------------------------------------------------
(* What a match should be *)

Fits(template, segments) ==
    /\ Len(template) = Len(segments)
    /\ \A n \in DOMAIN template : template[n].kind = "Param" \/ template[n] = Literal(segments[n])

\* The operation that first declares the start of a template up to segment n.
Introduced(operations, template, n) ==
    LET with == {i \in DOMAIN operations : /\ Len(operations[i].template) >= n
                                           /\ SubSeq(operations[i].template, 1, n) = SubSeq(template, 1, n)}
    IN CHOOSE i \in with : \A j \in with : i <= j

\* Operation i is to be preferred to j: at the first segment where they differ it is
\* the literal one, or the parameter that was declared earlier.
Preferred(operations, i, j) ==
    LET s == operations[i].template
        t == operations[j].template
        differ == {n \in DOMAIN s : s[n] # t[n]}
        n == CHOOSE n \in differ : \A k \in differ : n <= k
    IN IF differ = {} THEN i < j
       ELSE IF s[n].kind # t[n].kind THEN s[n].kind = "Literal"
       ELSE Introduced(operations, s, n) < Introduced(operations, t, n)

\* The operations that answer a method and a path, and the best of them.
Answering(operations, method, segments) ==
    {i \in DOMAIN operations : operations[i].method = method /\ Fits(operations[i].template, segments)}
BestMatch(operations, method, segments) ==
    {i \in Answering(operations, method, segments) :
        \A j \in Answering(operations, method, segments) \ {i} : Preferred(operations, i, j)}

\* The values of the parameters of a template, the last of a name if it is repeated.
Values(template, segments) ==
    LET at(x) == {n \in DOMAIN template : template[n] = Param(x)}
    IN [x \in {template[n].name : n \in {k \in DOMAIN template : template[k].kind = "Param"}} |->
            segments[CHOOSE n \in at(x) : \A k \in at(x) : n >= k]]

=============================================================================
